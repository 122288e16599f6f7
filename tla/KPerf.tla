------------------------------- MODULE KPerf -------------------------------
(***************************************************************************)
(* The kernel perftest server (xkperftest_server.c): two connections, each *)
(* answering every message of its peer from a work item.                   *)
(*                                                                         *)
(* An interrupt makes the driver's tasklet call the completion handler     *)
(* once for the receive and once for the send queue, which are the same    *)
(* completion queue; each call queues the work item of the connection, and *)
(* queue_work of an item that is already queued does nothing.  The work    *)
(* item polls ONE completion, receives first.                              *)
(***************************************************************************)
EXTENDS Integers, FiniteSets

CONSTANTS
    Id,            \* connection identifiers (struct rdma_cm_id)
    PERF_TEST_DATA_QPS,
    Failures,      \* the calls that may fail for a connection
    MaxReq,        \* bound: requests that are served
    MaxMsg         \* bound: messages of a peer

None == 0
Ctx == 0 .. PERF_TEST_DATA_QPS - 1

VARIABLES
    con_cnt,
    qp_ctx,        \* context -> [child_cm_id, cq_valid, connect_valid, req]
    kept,          \* resources [kind, of] not released; of: request, or None
    reqs,          \* requests that were served, and numbered
    cm,            \* identifier -> how far the connection manager is with it
    accl,          \* contexts whose QP is accelerated
    sent, answered,    \* per context: messages of the peer, answers
    recvs, sends,      \* per context: completions waiting in the queue
    rq_posted,         \* per context: receives posted
    comp,              \* per context: calls the tasklet still makes
    cq_work,           \* contexts whose work item is queued
    loaded,
    failed,        \* history: requests that failed after their QP was created
    gone           \* history: an accepted identifier was destroyed

connVars == <<con_cnt, qp_ctx, kept, reqs, cm, accl, failed, gone>>
dataVars == <<sent, answered, recvs, sends, rq_posted, comp, cq_work>>
vars == <<connVars, dataVars, loaded>>

\* init_test_ctx: work queue, PD, buffer and region are there, the contexts are
\* idle.  (The context after the last is the memory behind the array.)
init_test_ctx ==
    /\ con_cnt = 0
    /\ qp_ctx = [i \in 0 .. PERF_TEST_DATA_QPS |->
                   [child_cm_id |-> None, cq_valid |-> FALSE, connect_valid |-> FALSE,
                    req |-> None]]
    /\ kept = {[kind |-> k, of |-> None] : k \in {"wqueue", "pd", "buf", "mr", "cm_id"}}
    /\ reqs = 0 /\ failed = {} /\ gone = FALSE

\* perftest_init: the identifier is bound and the server listens.
perftest_init ==
    /\ cm = [id \in Id |-> "free"] /\ accl = {}
    /\ loaded = TRUE

Init ==
    /\ perftest_init /\ init_test_ctx
    /\ sent = [i \in Ctx |-> 0] /\ answered = [i \in Ctx |-> 0]
    /\ recvs = [i \in Ctx |-> 0] /\ sends = [i \in Ctx |-> 0]
    /\ rq_posted = [i \in Ctx |-> 0] /\ comp = [i \in Ctx |-> 0]
    /\ cq_work = {}
-----------------------------------------------------------------------------
(* Connections. *)

check_duplicate_con_req(id) == \E i \in Ctx : qp_ctx[i].child_cm_id = id

\* The request is served: there is room, or it is taken for a duplicate, for
\* which there is no context.  (Behind the array the model serves one.)
Serves(id) ==
    /\ loaded /\ cm[id] = "free" /\ reqs < MaxReq
    /\ con_cnt < PERF_TEST_DATA_QPS \/ check_duplicate_con_req(id)
    /\ con_cnt <= PERF_TEST_DATA_QPS

\* The request is refused: the manager destroys the identifier, which may then
\* stand for another connection.
Refuse(id) ==
    /\ loaded /\ cm[id] = "free"
    /\ con_cnt >= PERF_TEST_DATA_QPS /\ ~check_duplicate_con_req(id)
    /\ UNCHANGED vars

\* What kpt_setup_qp and kpt_setup_bufs take.
kpt_setup_qp == {"cq", "qp"}
kpt_setup_bufs == {"send_buf", "rx_buf"}

\* What handle_cm_event has taken for an identifier when the step fails: a
\* failed QP gives back its completion queue, the later steps nothing.
TakenUntil(step) ==
    CASE step = "qp" -> {}
      [] step \in {"post_recv", "accept"} -> kpt_setup_qp \cup kpt_setup_bufs

\* Faulty form: a request that failed is counted as well.
CountsFailed == con_cnt + 1

\* A request that failed leaves the counter.
AfterFailure == con_cnt

\* The identifier is stored before the connection is set up, and stays there
\* although the manager destroys it.
ConnectFails(id, step) ==
    /\ Serves(id)
    /\ reqs' = reqs + 1
    /\ qp_ctx' = [qp_ctx EXCEPT ![con_cnt] =
                    [child_cm_id |-> id, cq_valid |-> step # "qp",
                     connect_valid |-> @.connect_valid, req |-> reqs + 1]]
    /\ kept' = kept \cup {[kind |-> k, of |-> reqs + 1] : k \in TakenUntil(step)}
    /\ failed' = IF step = "qp" THEN failed ELSE failed \cup {reqs + 1}
    /\ con_cnt' = AfterFailure
    /\ UNCHANGED <<cm, accl, gone, dataVars, loaded>>

\* The first receive is posted, and kpt_accept leaves the identifier with the
\* server.
ConnectRequest(id) ==
    /\ Serves(id)
    /\ reqs' = reqs + 1
    /\ qp_ctx' = [qp_ctx EXCEPT ![con_cnt] =
                    [child_cm_id |-> id, cq_valid |-> TRUE, connect_valid |-> TRUE,
                     req |-> reqs + 1]]
    /\ kept' = kept \cup {[kind |-> k, of |-> reqs + 1] :
                            k \in kpt_setup_qp \cup kpt_setup_bufs \cup {"cm_id"}}
    /\ rq_posted' = [i \in Ctx |-> IF i = con_cnt THEN rq_posted[i] + 1 ELSE rq_posted[i]]
    /\ cm' = [cm EXCEPT ![id] = "accepted"]
    /\ con_cnt' = con_cnt + 1
    /\ UNCHANGED <<accl, failed, gone, sent, answered, recvs, sends, comp, cq_work, loaded>>

\* ESTABLISHED, of whichever connection: with two of them the second QP is
\* accelerated.
Established(id) ==
    /\ loaded /\ cm[id] = "accepted"
    /\ cm' = [cm EXCEPT ![id] = "established"]
    /\ accl' = IF con_cnt > 1 THEN accl \cup {con_cnt - 1} ELSE accl
    /\ UNCHANGED <<con_cnt, qp_ctx, kept, reqs, failed, gone, dataVars, loaded>>

\* If its ib_modify_qp fails, the handler returns an error, and the manager
\* destroys the identifier, accepted as it is: it may stand for another
\* connection, while the context keeps it.
EstablishedFails(id) ==
    /\ loaded /\ cm[id] = "accepted" /\ con_cnt > 1 /\ "modify" \in Failures
    /\ cm' = [cm EXCEPT ![id] = "free"]
    /\ kept' = kept \ {[kind |-> "cm_id", of |-> qp_ctx[i].req] :
                           i \in {k \in DOMAIN qp_ctx : qp_ctx[k].child_cm_id = id}}
    /\ gone' = TRUE
    /\ UNCHANGED <<con_cnt, qp_ctx, reqs, accl, failed, dataVars, loaded>>
-----------------------------------------------------------------------------
(* Messages. *)

\* The connection of context i is established, and the identifier is not that
\* of a later one.
Up(i) ==
    /\ loaded /\ qp_ctx[i].connect_valid /\ cm[qp_ctx[i].child_cm_id] = "established"
    /\ \A j \in DOMAIN qp_ctx : qp_ctx[j].child_cm_id = qp_ctx[i].child_cm_id => j <= i

\* The tasklet is scheduled: it makes its two calls, after the one it may be in.
Scheduled(n) == IF n < 2 THEN n + 2 ELSE n

\* The peer sends a message when it has the answer to the one before.
HwMessage(i) ==
    /\ Up(i) /\ sent[i] < MaxMsg /\ answered[i] = sent[i] /\ rq_posted[i] > 0
    /\ sent' = [sent EXCEPT ![i] = @ + 1]
    /\ recvs' = [recvs EXCEPT ![i] = @ + 1]
    /\ rq_posted' = [rq_posted EXCEPT ![i] = @ - 1]
    /\ comp' = [comp EXCEPT ![i] = Scheduled(@)]
    /\ UNCHANGED <<connVars, answered, sends, cq_work, loaded>>

\* kpt_cq_event_handler
kpt_cq_event_handler(i) ==
    /\ comp[i] > 0
    /\ comp' = [comp EXCEPT ![i] = @ - 1]
    /\ cq_work' = IF qp_ctx[i].cq_valid THEN cq_work \cup {i} ELSE cq_work
    /\ UNCHANGED <<connVars, sent, answered, recvs, sends, rq_posted, loaded>>

\* Faulty form: send completions are polled first.
SendsFirst(i) == recvs[i] > 0 /\ sends[i] = 0

\* A poll for one completion returns a receive if there is one.
PollsReceive(i) == recvs[i] > 0

\* qp_cq_handler polled a receive: it posts it again and sends the answer,
\* whose completion raises an interrupt.
WorkRecv(i) ==
    /\ i \in cq_work /\ PollsReceive(i)
    /\ cq_work' = cq_work \ {i}
    /\ recvs' = [recvs EXCEPT ![i] = @ - 1]
    /\ rq_posted' = [rq_posted EXCEPT ![i] = @ + 1]
    /\ answered' = [answered EXCEPT ![i] = @ + 1]
    /\ sends' = [sends EXCEPT ![i] = @ + 1]
    /\ comp' = [comp EXCEPT ![i] = Scheduled(@)]
    /\ UNCHANGED <<connVars, sent, loaded>>

\* It polled the completion of a send, or nothing.
WorkOther(i) ==
    /\ i \in cq_work /\ ~PollsReceive(i)
    /\ cq_work' = cq_work \ {i}
    /\ sends' = [sends EXCEPT ![i] = IF @ > 0 THEN @ - 1 ELSE 0]
    /\ UNCHANGED <<connVars, sent, answered, recvs, rq_posted, comp, loaded>>

\* The contexts perftest_exit releases.
Released == {i \in Ctx : qp_ctx[i].connect_valid}

\* perftest_exit.  It waits for no work item, so the server is only removed
\* when nothing is under way.  The work queue is not destroyed.
perftest_exit ==
    /\ loaded /\ cq_work = {} /\ \A i \in Ctx : comp[i] = 0
    /\ loaded' = FALSE
    /\ kept' = {r \in kept : \/ r.kind = "wqueue"
                             \/ r.of # None /\ \A i \in Released : r.of # qp_ctx[i].req}
    /\ UNCHANGED <<con_cnt, qp_ctx, reqs, cm, accl, failed, gone, dataVars>>
-----------------------------------------------------------------------------
Next ==
    \/ \E id \in Id : \/ Refuse(id) \/ ConnectRequest(id)
                      \/ Established(id) \/ EstablishedFails(id)
    \/ \E id \in Id, step \in Failures \ {"modify"} : ConnectFails(id, step)
    \/ \E i \in Ctx : HwMessage(i) \/ kpt_cq_event_handler(i) \/ WorkRecv(i) \/ WorkOther(i)
    \/ perftest_exit

Spec == Init /\ [][Next]_vars

(* The tasklet and the work queue run what was given to them.               *)
Fairness == \A i \in Ctx : /\ WF_vars(kpt_cq_event_handler(i))
                           /\ WF_vars(WorkRecv(i) \/ WorkOther(i))

FairSpec == Spec /\ Fairness
-----------------------------------------------------------------------------
\* Every message is answered, although calls are coalesced and a work item
\* polls one completion only: a receive that is left behind is polled because
\* of the completion of the answer before it.
EveryMessageAnswered ==
    \A i \in Ctx : \A n \in 1 .. MaxMsg : (sent[i] = n) ~> (answered[i] >= n)

\* The server uses two contexts ("perftest only uses 2 QPs"): none behind the
\* array is written.
TwoContexts ==
    con_cnt <= PERF_TEST_DATA_QPS /\ qp_ctx[PERF_TEST_DATA_QPS].child_cm_id = None

\* Until the manager has destroyed an accepted identifier, no third context is
\* written, although a request may be taken for a duplicate by an identifier
\* that was destroyed when its request failed, and is used again.  The second
\* QP, and no other, is accelerated once both connections are established,
\* whatever the order of the events.
TwoConnections ==
    ~gone =>
        /\ TwoContexts
        /\ accl \subseteq {PERF_TEST_DATA_QPS - 1}
        /\ Cardinality({id \in Id : cm[id] = "established"}) = PERF_TEST_DATA_QPS
             => PERF_TEST_DATA_QPS - 1 \in accl

\* So far perftest_exit releases what the connections and the server have, but
\* for the work queue; what stays of the requests is that of failed ones.
ExitLeaves ==
    ~loaded /\ ~gone => \A r \in kept : r.kind = "wqueue" \/ r.of \in failed
=============================================================================
