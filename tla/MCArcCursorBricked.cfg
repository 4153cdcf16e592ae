SPECIFICATION Spec
CONSTANTS
    StartBlocks = {0, 2}
    RunSizes = {2, 3}
    ChunkSize = 2
    MaxLag = 1
    MaxHead = 8
    NoBlock = NoBlock
    NoCursor = NoCursor
INVARIANTS
    CursorIsDecodable
CHECK_DEADLOCK FALSE
