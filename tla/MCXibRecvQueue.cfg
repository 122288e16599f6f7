SPECIFICATION FairSpec
CONSTANTS
    rq_max_wr = 4
    RecvCredit = 3
    MaxRecv = 6
    MaxEntries = 2
    ImmFrames = TRUE
INVARIANTS
    TypeOK
    IInv
    RecvInOrder
    NoPhantomFrame
    NoEntryOverrun
    PendingCountExact
    ImmExact
PROPERTY
    ImplementsFairRecvService
