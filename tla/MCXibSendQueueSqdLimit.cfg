SPECIFICATION Spec
CONSTANTS
    sq_max_wr = 2
    SendCredit = 1
    MaxSend = 4
    MaxChain = 3
    MaxEntries = 2
    Opcodes = {"IB_WR_SEND"}
    QpStates = {"RTS", "SQD"}
    ConcurrentPost = FALSE
    SqMemIsPs = TRUE
    Failures = {}
INVARIANTS
    SqdAcceptedKept
