SPECIFICATION UmmPartSpec
CONSTANTS
    t1 = t1
    t2 = t2
    Threads = {t1, t2}
    Chunks = {1, 2, 3}
    BITS_IN_INT = 2
    ChunkSize = 4
    BlkSize = 2
    MemSizes = {1, 3}
    MapMayFail = TRUE
    Mr = {1, 2}
    Pd = {1, 2}
    MaxCount = 2
    Qp = {1, 2}
    Ctx = {0, 1}
    Base = {10, 20}
    Depth = {0}
    UserDepth = 9
    Slot = {0}
    MaxPi = 1
    Caller = {1, 2}
    tot_mem = 72
    Sizes = {7, 36}
    Round = 2
    BRAM_ALLOC_UNIT = 32
    DmaAddrs = {72, 100}
    MaxGrants = 3
    PfcAttr = {"roce_en", "roce_prio", "roce_xon", "roce_xoff", "non_roce_en", "non_roce_prio", "non_roce_xoff", "dis_prio_check"}
    Overlap = FALSE
    MaxStores = 2
    Cnp = TRUE
    MaxChain = 2
    MaxEntries = 1
    Discipline = {"once", "dma_last", "forget", "own_key", "distinct", "keep", "one_qp", "outlive", "settled", "fresh"}
SYMMETRY ThreadSymmetry
INVARIANTS
    GrantsSound
    ListsExact
    ChunkStays
    IndexNamesOneMr
    EntrySound
    EngineAndErnicAgree
    ClosedRestoresQps
    BramExact
    StoredIsShown
    MadsExact
    SendsReportedInOrder
\* the bounds of the parts end them
CHECK_DEADLOCK FALSE
