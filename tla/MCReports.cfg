SPECIFICATION Spec
CONSTANTS
    Calls = {c1, c2, c3}
    Keys = {k1, k2}
    NoKey = NoKey
    NoCall = NoCall
    NoCredential = NoCredential
    AckMayBeLost = TRUE
SYMMETRY Symmetry
INVARIANTS
    HandedOutReportIsCompleted
    FailedKeyHasNoLiveReport
    StatusIsOfStoredSecret
    EndedCallsHaveSettled
PROPERTIES
    NoLostUpdate
CHECK_DEADLOCK FALSE
