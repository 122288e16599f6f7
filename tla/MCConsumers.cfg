SPECIFICATION FairSpec
CONSTANTS
    Id = {1, 2, 3}
    PERF_TEST_DATA_QPS = 2
    MaxReq = 3
    MaxMsg = 2
    ClientQps = 3
    qp_cnt = 2
    NumQp = 4
    Taken = {}
    common_buf = TRUE
    reuse_buf = TRUE
    count = 2
    ServerQps = 3
    MaxErrors = 1
    Failures = {"qp", "post_recv", "accept", "modify",
                "server_kill", "server_alloc", "server_poll", "client_alloc", "create_id"}
INVARIANTS
    ConnectionsSound
    
    NoQpLeftInHandshake
    PingsRight
PROPERTIES
    EveryMessageAnswered
CHECK_DEADLOCK FALSE
