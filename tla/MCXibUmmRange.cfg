SPECIFICATION UmmSpec
CONSTANTS
    t1 = t1
    t2 = t2
    Threads = {t1, t2}
    Chunks = {1}
    BITS_IN_INT = 2
    ChunkSize = 3
    BlkSize = 1
    MemSizes = {1, 2}
    MapMayFail = FALSE
INVARIANTS
    GrantInsideChunk
\* the application may stop once the chunk ids of the instance are used up
CHECK_DEADLOCK FALSE
