SPECIFICATION Spec
CONSTANTS
    Calls = {c1, c2, c3}
    Keys = {k1, k2}
    Requests = {r1, r2}
    TTL = 1
    MaxTime = 3
    NoCall = NoCall
    Never = Never
    NoRow = NoRow
    AckMayBeLost = TRUE
SYMMETRY CallSymmetry
INVARIANTS
    EffectsAreSeparated
    ReplayIsSound
    SuccessIsNotRevoked
PROPERTIES
    KeepsPromise
CHECK_DEADLOCK FALSE
