SPECIFICATION FairSpec
CONSTANTS
    StartBlocks = {0, 2}
    RunSizes = {2, 3}
    ChunkSize = 2
    MaxLag = 2
    MaxHead = 8
    NoBlock = NoBlock
    NoCursor = NoCursor
INVARIANTS
    PromptCursorIsDecodable
    NoGap
    ReadyIsComplete
    RunIsBounded
    NoRescan
PROPERTIES
    KeepsPromise
    EventuallyComplete
CHECK_DEADLOCK FALSE
