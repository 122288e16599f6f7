----------------------------- MODULE MCConsumers -----------------------------
(***************************************************************************)
(* Small instances of three programs above the driver that do not meet     *)
(* each other: a behaviour is one of the kernel perftest server, of the    *)
(* hardware handshake test or of the ping test.  The two tests share the   *)
(* names of their variables; variables a part does not have are 0.         *)
(***************************************************************************)
EXTENDS Integers, Sequences, FiniteSets

CONSTANTS
    Id, PERF_TEST_DATA_QPS, MaxReq, MaxMsg,                   \* KPerf
    ClientQps,                                                \* both tests
    qp_cnt, NumQp, Taken, common_buf, reuse_buf,              \* XhwHs
    count, ServerQps, MaxErrors,                              \* Xrping
    Failures                                                  \* KPerf and XhwHs

VARIABLES
    program,
    (* KPerf *)
    con_cnt, qp_ctx, kept, reqs, cm, accl, failed, gone, peer_sent, answered, recvs, sends,
    rq_posted, comp, cq_work, loaded,
    (* both tests *)
    salive, list, cm_list_lock, connections, disconnects, sev, scm, smain, s2c, c2s,
    calive, ccm, cb, cmain, cdata, cev, done_cnt,
    (* XhwHs *)
    est, qp_cfg_cnt, hwqp, smem, pa, blind, drv, cmem, chunk,
    (* Xrping *)
    rx_test_qp_cnt, sdata, sbuf, ccq, rdma_buf, crecv, errors

kperfVars == <<con_cnt, qp_ctx, kept, reqs, cm, accl, failed, gone, peer_sent, answered,
               recvs, sends, rq_posted, comp, cq_work, loaded>>
testVars == <<salive, list, cm_list_lock, connections, disconnects, sev, scm, smain,
              s2c, c2s, calive, ccm, cb, cmain, cdata, cev, done_cnt>>
hwHsVars == <<est, qp_cfg_cnt, hwqp, smem, pa, blind, drv, cmem, chunk>>
pingVars == <<rx_test_qp_cnt, sdata, sbuf, ccq, rdma_buf, crecv, errors>>
consumerVars == <<program, kperfVars, testVars, hwHsVars, pingVars>>

K == INSTANCE KPerf WITH sent <- peer_sent,
        Failures <- Failures \cap {"qp", "post_recv", "accept", "modify"}
X == INSTANCE XhwHs WITH lock <- cm_list_lock
R == INSTANCE Xrping WITH lock <- cm_list_lock

KperfOff == /\ con_cnt = 0 /\ qp_ctx = 0 /\ kept = 0 /\ reqs = 0 /\ cm = 0 /\ accl = 0
            /\ failed = 0 /\ gone = 0
            /\ peer_sent = 0 /\ answered = 0 /\ recvs = 0 /\ sends = 0 /\ rq_posted = 0
            /\ comp = 0 /\ cq_work = 0 /\ loaded = 0
TestOff == /\ salive = 0 /\ list = 0 /\ cm_list_lock = 0 /\ connections = 0
           /\ disconnects = 0 /\ sev = 0 /\ scm = 0 /\ smain = 0 /\ s2c = 0 /\ c2s = 0 /\ calive = 0
           /\ ccm = 0 /\ cb = 0 /\ cmain = 0 /\ cdata = 0 /\ cev = 0 /\ done_cnt = 0
HwHsOff == /\ est = 0 /\ qp_cfg_cnt = 0 /\ hwqp = 0 /\ smem = 0 /\ pa = 0 /\ blind = 0
           /\ drv = 0 /\ cmem = 0 /\ chunk = 0
PingOff == /\ rx_test_qp_cnt = 0 /\ sdata = 0 /\ sbuf = 0 /\ ccq = 0 /\ rdma_buf = 0
           /\ crecv = 0 /\ errors = 0

ConsumerInit ==
    \/ program = "kperf" /\ K!Init /\ TestOff /\ HwHsOff /\ PingOff
    \/ program = "hw_hs" /\ X!Init /\ KperfOff /\ PingOff
    \/ program = "rping" /\ R!Init /\ KperfOff /\ HwHsOff

AsKperf(A) ==
    program = "kperf" /\ A /\ UNCHANGED <<program, testVars, hwHsVars, pingVars>>
AsHwHs(A) == program = "hw_hs" /\ A /\ UNCHANGED <<program, kperfVars, pingVars>>
AsRping(A) == program = "rping" /\ A /\ UNCHANGED <<program, kperfVars, hwHsVars>>

ConsumerNext == AsKperf(K!Next) \/ AsHwHs(X!Next) \/ AsRping(R!Next)

(* The tasklet and the work queue of the perftest server run what was given  *)
(* to them.                                                                   *)
KperfFairness ==
    \A i \in K!Ctx : /\ WF_consumerVars(AsKperf(K!kpt_cq_event_handler(i)))
                     /\ WF_consumerVars(AsKperf(K!WorkRecv(i) \/ K!WorkOther(i)))

ConsumerSpec == ConsumerInit /\ [][ConsumerNext]_consumerVars
FairSpec == ConsumerSpec /\ KperfFairness
-----------------------------------------------------------------------------
\* Until the manager has destroyed an accepted identifier, the perftest server
\* writes no third context, accelerates the second QP and no other, and its exit
\* leaves only the work queue and what failed requests had taken.
ConnectionsSound == program = "kperf" => K!TwoConnections /\ K!ExitLeaves

\* The perftest server answers every message, although a work item polls one
\* completion and queue_work coalesces.
EveryMessageAnswered ==
    \A i \in K!Ctx : \A n \in 1 .. MaxMsg :
        (program = "kperf" /\ peer_sent[i] = n) ~> (program = "kperf" /\ answered[i] >= n)

\* While the engine of the handshake test works on a QP, its ring and the memory
\* it reads are allocated; where no other program holds QPs, the QP is that of the
\* connection; where every context was received, the client's side is there.
EngineMemoryLive == program = "hw_hs" => X!EngineMemoryLive

\* However the server of the handshake test ends, no QP stays in the handshake.
NoQpLeftInHandshake == program = "hw_hs" => X!NoQpLeftInHandshake

\* No ping fails, and every message of the server finds a receive of the client.
PingsRight == program = "rping" => R!NoPingFails /\ R!ClientReceiveReady
=============================================================================
