SPECIFICATION RiskSpec
CONSTANTS
    None = None
    w1 = w1
    w2 = w2
    a = a
    b = b
    c = c
    d = d
    res = res
    t1 = t1
    t2 = t2
    t3 = t3
    t4 = t4
    b1 = b1
    b2 = b2
    wide = wide
    wider = wider
    narrow = narrow
    Payments <- ArrivingPayments
    Budgets <- CreatedBudgets
    Providers <- ReviewedProviders
    MaxRevision = 3
    Ranges <- AskedRanges
    Calls = {c1, c2}
    Inputs <- RiskInputs
    Rules <- RiskRuleIds
    RulesOf <- RulesOfInput
    MaxVersion = 3
    NoInput = NoInput
    NoRule = NoRule
    NoSignal = NoSignal
SYMMETRY RiskSymmetry
CHECK_DEADLOCK FALSE
INVARIANTS
    AnswerIsComplete
    SignalIsOfItsSnapshot
    ResolvedStaysAway
    RulesAreExact
    SummaryAddsUp
    SummaryAgreesWithRules
PROPERTIES
    OnlyUsersReopen
    StaleIsResolved
