SPECIFICATION Spec
CONSTANTS
    Calls = {c1, c2}
    WalletIds = {w1, w2}
    NoRow = NoRow
    IntentIds = {i1}
    Hashes = {h1, h2}
    Workspace = Workspace
    NoIntent = NoIntent
    NoHash = NoHash
SYMMETRY Symmetry
INVARIANTS
    OneSubmissionWins
PROPERTIES
    ChoiceIsTheOnlyPrimary
    ArchiveKeepsAPrimary
