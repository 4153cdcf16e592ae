SPECIFICATION Spec
CONSTANTS
    Txs = {t1, t2}
    BudgetIds = {b1, b2}
    Wallets = {w1}
    Workspace = Workspace
    Horizon = 1
    MaxVersion = 3
    Keep = Keep
    NoBudget = NoBudget
    NoWallet = NoWallet
SYMMETRY BudgetSymmetry
INVARIANTS
    HistoryIsComplete
PROPERTIES
    ArchivedIsFinal
