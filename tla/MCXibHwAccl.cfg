SPECIFICATION AcclSpec
CONSTANTS
    rq_max_wr = 4
    RecvCredit = 3
    MaxRecv = 4
    MaxEntries = 2
    ImmFrames = FALSE
INVARIANTS
    AcclPendingIsUnprocessed
CHECK_DEADLOCK FALSE
