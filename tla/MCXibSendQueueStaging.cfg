SPECIFICATION Spec
CONSTANTS
    sq_max_wr = 2
    SendCredit = 1
    MaxSend = 4
    MaxChain = 3
    MaxEntries = 2
    Opcodes = {"IB_WR_SEND", "IB_WR_RDMA_READ"}
    QpStates = {"RTS"}
    ConcurrentPost = TRUE
    SqMemIsPs = FALSE
    Failures = {}
INVARIANTS
    NoBadFree
