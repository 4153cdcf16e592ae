SPECIFICATION FairSpec
CONSTANTS
    Runs = {r1, r2}
    Sources = {arc}
    LeaseTicks = 1
    Batch = 2
    MaxPayments = 2
    NoRun = NoRun
    AckMayBeLost = TRUE
INVARIANTS
    NothingSkipped
    OneAuditPerPayment
PROPERTIES
    KeepsPromise
    OrphanedLeaseIsReclaimed
