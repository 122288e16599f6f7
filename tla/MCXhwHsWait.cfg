SPECIFICATION FairSpec
CONSTANTS
    ClientQps = 2
    qp_cnt = 2
    NumQp = 3
    Taken = {}
    common_buf = TRUE
    reuse_buf = TRUE
    Failures = {}
PROPERTY MessageComes
CHECK_DEADLOCK FALSE
