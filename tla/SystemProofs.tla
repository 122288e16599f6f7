---------------------------- MODULE SystemProofs ----------------------------
(***************************************************************************)
(* The theorems about two compositions: the programs above the driver      *)
(* (MCConsumers) and the three send queues (MCXibSendQueue).  A program is *)
(* proved about by its own steps, for any value of its constants; the send *)
(* queue is proved about in XibSendQueueProofs.  The steps are then found  *)
(* again in those of the composition, which leave "program" or "part" as   *)
(* it is.  In order: the perftest server, the handshake test, the ping     *)
(* test, and the send queues.                                              *)
(***************************************************************************)
EXTENDS MCConsumers, MCXibSendQueue, RingLemmas, FiniteSetTheorems

-----------------------------------------------------------------------------
(* The kernel perftest server, for any identifiers of the connection manager *)
(* and any number of requests, refusals and failures.                        *)

\* The server has two connections, as xkperftest_server.c defines, and the
\* identifier of an idle context is none of the manager's.
KperfOK == PERF_TEST_DATA_QPS = 2 /\ K!None \notin Id

\* Until an accepted identifier is destroyed: the contexts below con_cnt are
\* connections, one for every identifier the manager has accepted; what is kept
\* belongs to one of them, to the server, or to a request that failed.
KperfConns ==
    /\ con_cnt \in {0, 1, 2}
    /\ qp_ctx \in [0 .. 2 -> [child_cm_id : Id \cup {K!None}, cq_valid : BOOLEAN,
                              connect_valid : BOOLEAN, req : Nat]]
    /\ qp_ctx[2].child_cm_id = K!None
    /\ cm \in [Id -> {"free", "accepted", "established"}]
    /\ \A i \in {0, 1} : i < con_cnt =>
          /\ qp_ctx[i].child_cm_id \in Id /\ qp_ctx[i].connect_valid = TRUE
          /\ cm[qp_ctx[i].child_cm_id] # "free"
    /\ \A id \in Id : cm[id] # "free" =>
          \E i \in {0, 1} : i < con_cnt /\ qp_ctx[i].child_cm_id = id

KperfAccl ==
    /\ accl \subseteq {1}
    /\ 1 \in accl \/ \A a, b \in Id : cm[a] = "established" /\ cm[b] = "established" => a = b

KperfKept ==
    \A r \in kept :
        \/ loaded = TRUE /\ r.of = K!None
        \/ loaded = TRUE /\ \E i \in {0, 1} : i < con_cnt /\ r.of = qp_ctx[i].req
        \/ r.kind = "wqueue"
        \/ r.of \in failed

KperfTypes == loaded \in BOOLEAN /\ gone \in BOOLEAN /\ reqs \in Nat

KperfInv == KperfTypes /\ (gone = FALSE => KperfConns /\ KperfAccl /\ KperfKept)

LEMMA KperfInit ==
    ASSUME KperfOK, K!Init
    PROVE  KperfInv
<1>1. /\ con_cnt = 0 /\ accl = {} /\ loaded = TRUE /\ gone = FALSE /\ reqs = 0
      /\ qp_ctx = [i \in 0 .. 2 |-> [child_cm_id |-> K!None, cq_valid |-> FALSE,
                                     connect_valid |-> FALSE, req |-> K!None]]
      /\ kept = {[kind |-> k, of |-> K!None] : k \in {"wqueue", "pd", "buf", "mr", "cm_id"}}
      /\ cm = [id \in Id |-> "free"]
  BY DEF K!Init, K!init_test_ctx, K!perftest_init, KperfOK
<1>2. KperfConns
  BY <1>1 DEF KperfConns, K!None
<1>3. KperfAccl
  BY <1>1 DEF KperfAccl
<1>4. KperfKept
  BY <1>1 DEF KperfKept
<1> QED
  BY <1>1, <1>2, <1>3, <1>4 DEF KperfInv, KperfTypes

\* A request that is set up finds a context of its own: an identifier that is
\* free is none of the accepted ones.
LEMMA KperfRoom ==
    ASSUME KperfOK, KperfConns, NEW id \in Id, cm[id] = "free",
           con_cnt < PERF_TEST_DATA_QPS \/ K!check_duplicate_con_req(id)
    PROVE  con_cnt \in {0, 1}
<1>1. K!Ctx = {0, 1}
  BY DEF K!Ctx, KperfOK
<1> QED
  BY <1>1 DEF KperfOK, KperfConns, K!check_duplicate_con_req

LEMMA KperfConnects ==
    ASSUME KperfOK, KperfInv, NEW id \in Id, K!ConnectRequest(id)
    PROVE  KperfInv'
<1>0. /\ reqs' = reqs + 1 /\ gone' = gone /\ loaded' = loaded /\ failed' = failed
      /\ cm[id] = "free" /\ loaded
      /\ con_cnt < PERF_TEST_DATA_QPS \/ K!check_duplicate_con_req(id)
  BY DEF K!ConnectRequest, K!Serves
<1>t. KperfTypes'
  BY <1>0 DEF KperfInv, KperfTypes
<1> SUFFICES ASSUME gone = FALSE, KperfConns, KperfAccl, KperfKept
             PROVE  KperfConns' /\ KperfAccl' /\ KperfKept'
  BY <1>0, <1>t DEF KperfInv
<1>1. con_cnt \in {0, 1}
  BY <1>0, KperfRoom
<1>2. PICK c : c = [child_cm_id |-> id, cq_valid |-> TRUE, connect_valid |-> TRUE,
                    req |-> reqs + 1]
  OBVIOUS
<1>3. /\ qp_ctx' = [qp_ctx EXCEPT ![con_cnt] = c] /\ con_cnt' = con_cnt + 1
      /\ cm' = [cm EXCEPT ![id] = "accepted"] /\ accl' = accl
  BY <1>2 DEF K!ConnectRequest
<1>4. /\ c.child_cm_id = id /\ c.connect_valid = TRUE /\ c.req = reqs + 1
      /\ c \in [child_cm_id : Id \cup {K!None}, cq_valid : BOOLEAN, connect_valid : BOOLEAN,
                req : Nat]
  BY <1>2 DEF KperfInv, KperfTypes
<1>5. /\ qp_ctx'[con_cnt] = c
      /\ \A i \in 0 .. 2 : i # con_cnt => qp_ctx'[i] = qp_ctx[i]
      /\ qp_ctx' \in [0 .. 2 -> [child_cm_id : Id \cup {K!None}, cq_valid : BOOLEAN,
                                 connect_valid : BOOLEAN, req : Nat]]
  BY <1>1, <1>3, <1>4 DEF KperfConns
<1>6. KperfConns'
  <2>1. con_cnt' \in {0, 1, 2} /\ qp_ctx'[2].child_cm_id = K!None
    BY <1>1, <1>3, <1>5 DEF KperfConns
  <2>2. cm' \in [Id -> {"free", "accepted", "established"}]
    BY <1>3 DEF KperfConns
  <2>3. ASSUME NEW i \in {0, 1}, i < con_cnt'
        PROVE  /\ qp_ctx'[i].child_cm_id \in Id /\ qp_ctx'[i].connect_valid = TRUE
               /\ cm'[qp_ctx'[i].child_cm_id] # "free"
    <3>1. CASE i = con_cnt
      BY <3>1, <1>3, <1>4, <1>5 DEF KperfConns
    <3>2. CASE i # con_cnt
      <4>1. i < con_cnt /\ qp_ctx'[i] = qp_ctx[i]
        BY <3>2, <2>3, <1>1, <1>3, <1>5
      <4> QED
        BY <4>1, <1>3 DEF KperfConns
    <3> QED
      BY <3>1, <3>2
  <2>4. ASSUME NEW j \in Id, cm'[j] # "free"
        PROVE  \E i \in {0, 1} : i < con_cnt' /\ qp_ctx'[i].child_cm_id = j
    <3>1. CASE j = id
      BY <3>1, <1>1, <1>3, <1>4, <1>5
    <3>2. CASE j # id
      <4>1. cm[j] # "free"
        BY <3>2, <2>4, <1>3 DEF KperfConns
      <4>2. PICK i \in {0, 1} : i < con_cnt /\ qp_ctx[i].child_cm_id = j
        BY <4>1 DEF KperfConns
      <4> QED
        BY <4>2, <1>1, <1>3, <1>5
    <3> QED
      BY <3>1, <3>2
  <2> QED
    BY <2>1, <2>2, <2>3, <2>4, <1>5 DEF KperfConns
<1>7. KperfAccl'
  <2>1. ASSUME NEW a \in Id, cm'[a] = "established" PROVE cm[a] = "established"
    BY <2>1, <1>3 DEF KperfConns
  <2> QED
    BY <2>1, <1>3 DEF KperfAccl
<1>8. KperfKept'
  <2>1. \A r \in kept' : r \in kept \/ r.of = reqs + 1
    BY DEF K!ConnectRequest
  <2>2. loaded = TRUE
    BY <1>0 DEF KperfInv, KperfTypes
  <2> SUFFICES ASSUME NEW r \in kept'
               PROVE  \/ r.of = K!None
                      \/ \E i \in {0, 1} : i < con_cnt' /\ r.of = qp_ctx'[i].req
                      \/ r.kind = "wqueue"
                      \/ r.of \in failed
    BY <2>2, <1>0 DEF KperfKept
  <2>3. CASE r.of = reqs + 1
    BY <2>3, <1>1, <1>3, <1>4, <1>5
  <2>4. CASE r \in kept
    <3>1. CASE \E i \in {0, 1} : i < con_cnt /\ r.of = qp_ctx[i].req
      BY <3>1, <1>1, <1>3, <1>5
    <3> QED
      BY <2>4, <3>1 DEF KperfKept
  <2> QED
    BY <2>1, <2>3, <2>4
<1> QED
  BY <1>6, <1>7, <1>8

\* A request that fails leaves the contexts below con_cnt as they are, and
\* what it has taken is that of a failed request.
LEMMA KperfConnectFails ==
    ASSUME KperfOK, KperfInv, NEW id \in Id, NEW step, K!ConnectFails(id, step)
    PROVE  KperfInv'
<1>0. /\ reqs' = reqs + 1 /\ gone' = gone /\ loaded' = loaded
      /\ cm[id] = "free" /\ loaded
      /\ con_cnt < PERF_TEST_DATA_QPS \/ K!check_duplicate_con_req(id)
  BY DEF K!ConnectFails, K!Serves
<1>t. KperfTypes'
  BY <1>0 DEF KperfInv, KperfTypes
<1> SUFFICES ASSUME gone = FALSE, KperfConns, KperfAccl, KperfKept
             PROVE  KperfConns' /\ KperfAccl' /\ KperfKept'
  BY <1>0, <1>t DEF KperfInv
<1>1. con_cnt \in {0, 1}
  BY <1>0, KperfRoom
<1>2. PICK c : c = [child_cm_id |-> id, cq_valid |-> step # "qp",
                    connect_valid |-> qp_ctx[con_cnt].connect_valid, req |-> reqs + 1]
  OBVIOUS
<1>3. /\ qp_ctx' = [qp_ctx EXCEPT ![con_cnt] = c] /\ con_cnt' = con_cnt
      /\ cm' = cm /\ accl' = accl
  BY <1>1, <1>2 DEF K!ConnectFails, K!AfterFailure
<1>4. c \in [child_cm_id : Id \cup {K!None}, cq_valid : BOOLEAN, connect_valid : BOOLEAN,
             req : Nat]
  <2>1. qp_ctx[con_cnt].connect_valid \in BOOLEAN
    BY <1>1 DEF KperfConns
  <2> QED
    BY <2>1, <1>2 DEF KperfInv, KperfTypes
<1>5. /\ \A i \in 0 .. 2 : i # con_cnt => qp_ctx'[i] = qp_ctx[i]
      /\ qp_ctx' \in [0 .. 2 -> [child_cm_id : Id \cup {K!None}, cq_valid : BOOLEAN,
                                 connect_valid : BOOLEAN, req : Nat]]
  BY <1>1, <1>3, <1>4 DEF KperfConns
<1>7. \A i \in {0, 1} : i < con_cnt => qp_ctx'[i] = qp_ctx[i]
  BY <1>1, <1>5
<1>8. KperfConns'
  <2>1. qp_ctx'[2].child_cm_id = K!None
    BY <1>1, <1>5 DEF KperfConns
  <2> QED
    BY <2>1, <1>3, <1>5, <1>7 DEF KperfConns
<1>9. KperfAccl'
  BY <1>3 DEF KperfAccl
<1>10. KperfKept'
  <2>1. failed' = IF step = "qp" THEN failed ELSE failed \cup {reqs + 1}
    BY DEF K!ConnectFails
  <2>2. \A r \in kept' : r \in kept \/ (r.of = reqs + 1 /\ step # "qp")
    BY DEF K!ConnectFails, K!TakenUntil
  <2>3. ASSUME NEW r \in kept
        PROVE  \/ loaded' = TRUE /\ r.of = K!None
               \/ loaded' = TRUE /\ \E i \in {0, 1} : i < con_cnt' /\ r.of = qp_ctx'[i].req
               \/ r.kind = "wqueue"
               \/ r.of \in failed'
    BY <2>1, <1>0, <1>3, <1>7 DEF KperfKept
  <2> QED
    BY <2>1, <2>2, <2>3 DEF KperfKept
<1> QED
  BY <1>8, <1>9, <1>10

LEMMA KperfEstablished ==
    ASSUME KperfOK, KperfInv, NEW id \in Id, K!Established(id)
    PROVE  KperfInv'
<1>1. /\ cm[id] = "accepted" /\ cm' = [cm EXCEPT ![id] = "established"]
      /\ accl' = IF con_cnt > 1 THEN accl \cup {con_cnt - 1} ELSE accl
      /\ con_cnt' = con_cnt /\ qp_ctx' = qp_ctx /\ kept' = kept /\ loaded' = loaded
      /\ gone' = gone /\ failed' = failed /\ reqs' = reqs
  BY DEF K!Established
<1>t. KperfTypes'
  BY <1>1 DEF KperfInv, KperfTypes
<1> SUFFICES ASSUME gone = FALSE, KperfConns, KperfAccl, KperfKept
             PROVE  KperfConns' /\ KperfAccl' /\ KperfKept'
  BY <1>1, <1>t DEF KperfInv
<1>2. \A j \in Id : cm'[j] # "free" <=> cm[j] # "free"
  BY <1>1 DEF KperfConns
<1>3. cm' \in [Id -> {"free", "accepted", "established"}]
  BY <1>1 DEF KperfConns
<1>4. KperfConns'
  BY <1>1, <1>2, <1>3 DEF KperfConns
<1>5. KperfAccl'
  <2>1. CASE con_cnt = 2
    <3>1. accl' = accl \cup {1}
      BY <2>1, <1>1
    <3> QED
      BY <3>1 DEF KperfAccl
  <2>2. CASE con_cnt # 2
    <3>1. con_cnt \in {0, 1}
      BY <2>2 DEF KperfConns
    <3>2. ASSUME NEW a \in Id, cm'[a] = "established" PROVE a = qp_ctx[0].child_cm_id
      <4>1. cm[a] # "free"
        BY <3>2, <1>2
      <4>2. PICK i \in {0, 1} : i < con_cnt /\ qp_ctx[i].child_cm_id = a
        BY <4>1 DEF KperfConns
      <4>3. i = 0
        BY <4>2, <3>1
      <4> QED
        BY <4>2, <4>3
    <3>3. accl' = accl
      BY <3>1, <1>1
    <3> QED
      BY <3>2, <3>3 DEF KperfAccl
  <2> QED
    BY <2>1, <2>2
<1>6. KperfKept'
  BY <1>1 DEF KperfKept
<1> QED
  BY <1>4, <1>5, <1>6

\* An accepted identifier is destroyed: nothing is claimed from here on.
LEMMA KperfEstablishedFails ==
    ASSUME KperfOK, KperfInv, NEW id \in Id, K!EstablishedFails(id)
    PROVE  KperfInv'
<1>1. gone' = TRUE /\ loaded' = loaded /\ reqs' = reqs
  BY DEF K!EstablishedFails
<1> QED
  BY <1>1 DEF KperfInv, KperfTypes

LEMMA KperfExit ==
    ASSUME KperfOK, KperfInv, K!perftest_exit
    PROVE  KperfInv'
<1>1. /\ loaded' = FALSE /\ reqs' = reqs /\ gone' = gone /\ failed' = failed
      /\ con_cnt' = con_cnt /\ qp_ctx' = qp_ctx /\ cm' = cm /\ accl' = accl
      /\ kept' = {r \in kept : \/ r.kind = "wqueue"
                               \/ r.of # K!None /\ \A i \in K!Released : r.of # qp_ctx[i].req}
  BY DEF K!perftest_exit
<1>t. KperfTypes'
  BY <1>1 DEF KperfInv, KperfTypes
<1> SUFFICES ASSUME gone = FALSE, KperfConns, KperfAccl, KperfKept
             PROVE  KperfConns' /\ KperfAccl' /\ KperfKept'
  BY <1>1, <1>t DEF KperfInv
<1>2. KperfConns' /\ KperfAccl'
  BY <1>1 DEF KperfConns, KperfAccl
<1>3. ASSUME NEW r \in kept, r.of # K!None, \A i \in K!Released : r.of # qp_ctx[i].req,
             NEW i \in {0, 1}, i < con_cnt, r.of = qp_ctx[i].req
      PROVE  FALSE
  <2>1. qp_ctx[i].connect_valid = TRUE
    BY <1>3 DEF KperfConns
  <2>2. i \in K!Released
    BY <2>1 DEF K!Released, K!Ctx, KperfOK
  <2> QED
    BY <1>3, <2>2
<1>4. KperfKept'
  BY <1>1, <1>3 DEF KperfKept
<1> QED
  BY <1>2, <1>4

LEMMA KperfStep ==
    ASSUME KperfOK, KperfInv, [K!Next]_kperfVars
    PROVE  KperfInv'
<1>1. ASSUME UNCHANGED <<con_cnt, qp_ctx, kept, reqs, cm, accl, failed, gone, loaded>>
      PROVE  KperfInv'
  BY <1>1 DEF KperfInv, KperfTypes, KperfConns, KperfAccl, KperfKept
<1>2. CASE UNCHANGED kperfVars
  BY <1>1, <1>2 DEF kperfVars
<1>3. ASSUME NEW id \in Id, K!Refuse(id)
      PROVE  KperfInv'
  BY <1>1, <1>3 DEF K!Refuse, K!vars, K!connVars
<1>4. ASSUME NEW i \in K!Ctx,
             K!HwMessage(i) \/ K!kpt_cq_event_handler(i) \/ K!WorkRecv(i) \/ K!WorkOther(i)
      PROVE  KperfInv'
  BY <1>1, <1>4 DEF K!HwMessage, K!kpt_cq_event_handler, K!WorkRecv, K!WorkOther, K!connVars
<1> QED
  BY <1>2, <1>3, <1>4, KperfConnects, KperfConnectFails, KperfEstablished,
     KperfEstablishedFails, KperfExit DEF K!Next

\* Two established identifiers are two.
LEMMA KperfBoth ==
    ASSUME KperfOK, KperfAccl,
           K!Cardinality({id \in Id : cm[id] = "established"}) = 2
    PROVE  1 \in accl
<1> SUFFICES ASSUME \A a, b \in Id : cm[a] = "established" /\ cm[b] = "established" => a = b
             PROVE  FALSE
  BY DEF KperfAccl
<1>1. PICK E : E = {id \in Id : cm[id] = "established"}
  OBVIOUS
<1>2. Cardinality(E) = 2
  BY <1>1 DEF Cardinality, K!Cardinality, IsFiniteSet, K!IsFiniteSet
<1>3. CASE E = {}
  BY <1>2, <1>3, FS_EmptySet
<1>4. CASE E # {}
  <2>1. PICK a : a \in E
    BY <1>4
  <2>2. E = {a}
    BY <2>1, <1>1
  <2>3. Cardinality({a}) = 1
    BY FS_Singleton
  <2>4. Cardinality(E) = 1
    BY <2>2, <2>3, Zenon
  <2> QED
    BY <1>2, <2>4
<1> QED
  BY <1>3, <1>4

\* The perftest server writes no third context, accelerates the second QP and no
\* other, once both connections are established, and its removal releases all
\* but the work queue and what failed requests have taken, whatever requests
\* come, fail or are refused, for any identifiers of the manager, which may be
\* used again; until the manager destroys an identifier the server has accepted,
\* as the failing ib_modify_qp makes it do (handle_cm_event,
\* check_duplicate_con_req, perftest_exit).
THEOREM ConsumerConnectionsSound ==
    ASSUME KperfOK
    PROVE  ConsumerSpec => []ConnectionsSound
<1> DEFINE Inv == program = "kperf" => KperfInv
<1>1. ConsumerInit => Inv
  BY KperfInit DEF ConsumerInit
<1>2. Inv /\ [ConsumerNext]_consumerVars => Inv'
  <2> SUFFICES ASSUME Inv, [ConsumerNext]_consumerVars, program' = "kperf"
               PROVE  KperfInv'
    OBVIOUS
  <2>1. program = "kperf" /\ [K!Next]_kperfVars
    BY DEF ConsumerNext, AsKperf, AsHwHs, AsRping, consumerVars
  <2> QED
    BY <2>1, KperfStep
<1>3. Inv => ConnectionsSound
  <2> SUFFICES ASSUME KperfInv PROVE K!TwoConnections /\ K!ExitLeaves
    BY DEF ConnectionsSound
  <2> SUFFICES ASSUME gone = FALSE, KperfConns, KperfAccl, KperfKept
               PROVE  K!TwoConnections /\ K!ExitLeaves
    BY DEF KperfInv, KperfTypes, K!TwoConnections, K!ExitLeaves
  <2>1. con_cnt <= 2 /\ qp_ctx[2].child_cm_id = K!None /\ accl \subseteq {1}
    BY DEF KperfConns, KperfAccl
  <2>2. K!TwoConnections
    BY <2>1, KperfBoth DEF K!TwoConnections, K!TwoContexts, KperfOK
  <2>3. K!ExitLeaves
    BY DEF K!ExitLeaves, KperfKept, KperfInv, KperfTypes
  <2> QED
    BY <2>2, <2>3
<1> QED
  BY <1>1, <1>2, <1>3, PTL DEF ConsumerSpec
-----------------------------------------------------------------------------
(* The hardware handshake test, for any number of QPs of the server and of   *)
(* the client, however the programs fail on the way.                         *)

\* The driver's record; what the engine holds for a QP is left open.
HxShape(d) == d \in [conf : Nat, hsk : SUBSET Nat, done : BOOLEAN, eng : {d.eng}, data : {d.data}]

HxPcs == {"scan", "walk", "poll", "enable", "test", "clean"}

\* The driver counts every QP that is configured, and only the test has QPs in
\* the handshake.
HxEngine ==
    /\ HxShape(drv) /\ qp_cfg_cnt \in Nat
    /\ smain \in [pc : HxPcs, pos : Nat] /\ salive \in BOOLEAN
    /\ drv.hsk # {} => salive /\ smain.pc = "test" /\ drv.hsk = 1 .. qp_cnt
    /\ salive /\ smain.pc \in {"scan", "walk", "poll"} => drv.conf = qp_cfg_cnt
    /\ salive /\ smain.pc \in {"enable", "test"} => drv.conf >= qp_cnt

\* The record after one more QP was configured.
HxSet(d, k, id, x) == [d EXCEPT !.conf = @ + 1, !.eng[k] = id, !.data[k] = x]

\* What that changes.
HxOneMore(d, e, k, id, x) ==
    /\ HxShape(e) /\ e.conf = d.conf + 1 /\ e.hsk = d.hsk
    /\ e.eng = [d.eng EXCEPT ![k] = id] /\ e.data = [d.data EXCEPT ![k] = x]

LEMMA HxConfigured ==
    ASSUME NEW d, NEW k, NEW id, NEW x, NEW e, HxShape(d), e = HxSet(d, k, id, x)
    PROVE  HxOneMore(d, e, k, id, x)
<1>1. PICK p : p = [d.eng EXCEPT ![k] = id]
  OBVIOUS
<1>2. PICK y : y = [d.data EXCEPT ![k] = x]
  OBVIOUS
<1>3. e = [d EXCEPT !.conf = @ + 1, !.eng = p, !.data = y]
  BY <1>1, <1>2 DEF HxShape, HxSet
<1>5. /\ e.conf = d.conf + 1 /\ e.hsk = d.hsk /\ e.eng = p /\ e.data = y
      /\ e \in [conf : Nat, hsk : SUBSET Nat, done : BOOLEAN, eng : {p}, data : {y}]
  <2>1. /\ d.conf \in Nat /\ d.hsk \in SUBSET Nat /\ d.done \in BOOLEAN
        /\ d = [conf |-> d.conf, hsk |-> d.hsk, done |-> d.done, eng |-> d.eng,
                data |-> d.data]
    BY DEF HxShape
  <2>2. e = [conf |-> d.conf + 1, hsk |-> d.hsk, done |-> d.done, eng |-> p, data |-> y]
    BY <2>1, <1>3
  <2> QED
    BY <2>1, <2>2
<1> QED
  BY <1>1, <1>2, <1>5 DEF HxShape, HxOneMore

LEMMA HxEngineInit ==
    ASSUME qp_cnt \in Nat, X!Init
    PROVE  HxEngine
BY DEF X!Init, X!init_xperf_app, X!fill_hh_ctrl_cfg, X!hw_hs_cmn_cfg, HxEngine, HxShape, HxPcs

\* The end of the server takes every QP out.
LEMMA HxServerExit ==
    ASSUME qp_cnt \in Nat, HxEngine, X!ServerExit
    PROVE  HxEngine' /\ ~salive'
<1>1. /\ salive' = FALSE /\ smain' = smain /\ qp_cfg_cnt' = qp_cfg_cnt
      /\ drv' = [drv EXCEPT !.hsk = @ \ (1 .. drv.conf), !.conf = 0, !.done = FALSE]
  BY DEF X!ServerExit, X!reset_hw_hsk
<1>2. HxShape(drv') /\ drv'.hsk = drv.hsk \ (1 .. drv.conf)
  BY <1>1 DEF HxEngine, HxShape
<1>3. drv'.hsk = {}
  BY <1>2 DEF HxEngine, HxShape
<1> QED
  BY <1>1, <1>2, <1>3 DEF HxEngine

LEMMA HxEngineStep ==
    ASSUME qp_cnt \in Nat, HxEngine, [X!Next]_(X!vars)
    PROVE  HxEngine'
<1>0. HxShape(drv) /\ drv.conf \in Nat /\ drv.hsk \in SUBSET Nat
  BY DEF HxEngine, HxShape
<1>1. ASSUME UNCHANGED <<drv, smain, salive, qp_cfg_cnt>>
      PROVE  HxEngine'
  BY <1>1 DEF HxEngine, HxShape
<1>2. ASSUME X!ServerExit
      PROVE  HxEngine'
  BY <1>2, HxServerExit
<1>3. CASE UNCHANGED X!vars
  BY <1>1, <1>3 DEF X!vars, X!serverVars
<1>4. CASE X!ServerCm
  BY <1>1, <1>2, <1>4 DEF X!ServerCm, X!ScmListEvent, X!ScmDisconnected, X!ScmCheck
<1>5. CASE X!ServerEst
  BY <1>1, <1>5 DEF X!ServerEst, X!EstLock, X!EstVisit, X!EstUnlock
<1>6. CASE X!MainLock \/ X!MainVisit \/ X!MainUnlock
  <2>1. /\ salive /\ salive' = salive /\ drv' = drv /\ qp_cfg_cnt' = qp_cfg_cnt
        /\ smain.pc \in {"scan", "walk"}
    BY <1>6 DEF X!MainLock, X!MainVisit, X!MainUnlock
  <2>2. smain' \in [pc : {"scan", "walk", "poll"}, pos : Nat]
    BY <1>6 DEF X!MainLock, X!MainVisit, X!MainUnlock, HxEngine
  <2> QED
    BY <2>1, <2>2 DEF HxEngine, HxShape, HxPcs
<1>7. CASE X!MainConfigures
  <2>1. /\ salive /\ salive' = salive /\ smain.pc = "poll" /\ qp_cfg_cnt' = qp_cfg_cnt + 1
        /\ drv' = X!hw_hs_qp_cfg(X!QpNum(list[smain.pos].id), list[smain.pos].id)
    BY <1>7 DEF X!MainConfigures
  <2>2. HxShape(drv') /\ drv'.conf = drv.conf + 1 /\ drv'.hsk = drv.hsk
    <3>1. PICK k, id, x : drv' = HxSet(drv, k, id, x)
      BY <2>1 DEF X!hw_hs_qp_cfg, HxSet
    <3>2. HxOneMore(drv, drv', k, id, x)
      BY <3>1, <1>0, HxConfigured
    <3> QED
      BY <3>2 DEF HxOneMore
  <2>3. \/ smain' = [pc |-> "enable", pos |-> 0] /\ qp_cfg_cnt + 1 >= qp_cnt
        \/ smain' = [pc |-> "walk", pos |-> smain.pos + 1]
    BY <1>7 DEF X!MainConfigures, X!AllConfigured
  <2> QED
    BY <2>1, <2>2, <2>3 DEF HxEngine, HxPcs
<1>8. CASE X!MainEnable
  <2>1. /\ salive /\ salive' = salive /\ smain.pc = "enable" /\ qp_cfg_cnt' = qp_cfg_cnt
        /\ drv' = [drv EXCEPT !.hsk = 1 .. qp_cnt] /\ smain' = [smain EXCEPT !.pc = "test"]
    BY <1>8 DEF X!MainEnable, X!enable_hw_hsk
  <2>2. HxShape(drv') /\ drv'.conf = drv.conf /\ drv'.hsk = 1 .. qp_cnt
    BY <2>1 DEF HxEngine, HxShape
  <2>3. smain' \in [pc : HxPcs, pos : Nat] /\ smain'.pc = "test"
    BY <2>1 DEF HxEngine, HxPcs
  <2> QED
    BY <2>1, <2>2, <2>3 DEF HxEngine
<1>9. CASE X!MainReset
  <2>1. /\ salive /\ salive' = salive /\ smain.pc = "test" /\ qp_cfg_cnt' = qp_cfg_cnt
        /\ drv' = [drv EXCEPT !.hsk = @ \ (1 .. drv.conf), !.conf = 0, !.done = FALSE]
        /\ smain' = [pc |-> "clean", pos |-> 1]
    BY <1>9 DEF X!MainReset, X!reset_hw_hsk
  <2>2. HxShape(drv') /\ drv'.hsk = drv.hsk \ (1 .. drv.conf)
    BY <2>1 DEF HxEngine, HxShape
  <2>3. drv'.hsk = {}
    BY <2>1, <2>2 DEF HxEngine, HxShape
  <2> QED
    BY <2>1, <2>2, <2>3 DEF HxEngine, HxPcs
<1>10. CASE X!MainClean
  <2>1. /\ salive' = salive /\ drv' = drv /\ qp_cfg_cnt' = qp_cfg_cnt /\ smain.pc = "clean"
        /\ smain' = [smain EXCEPT !.pos = @ + 1]
    BY <1>10 DEF X!MainClean
  <2>2. smain' \in [pc : HxPcs, pos : Nat] /\ smain'.pc = smain.pc
    BY <2>1 DEF HxEngine
  <2> QED
    BY <2>1, <2>2 DEF HxEngine, HxShape
<1>11. CASE X!MainReturns \/ X!MainConfigFails \/ X!ServerKilled \/ X!EstFails
  BY <1>2, <1>11, SMTT(20) DEF X!MainReturns, X!MainConfigFails, X!ServerKilled, X!EstFails
<1>12. CASE X!CcmEvent \/ X!MainPollFails
  BY <1>1, <1>12 DEF X!CcmEvent, X!MainPollFails
<1>13. CASE X!ClientMain \/ X!CmainCreateFails
  BY <1>1, <1>13 DEF X!ClientMain, X!CmainCreate, X!CmainConnect, X!CmainConnected, X!CmainEnds,
                     X!CmainCreateFails, X!serverVars
<1>14. CASE X!ClientData \/ X!CdataFails
  BY <1>1, <1>14 DEF X!ClientData, X!CdataLook, X!CdataExchange, X!CdataFails, X!serverVars
<1>15. CASE X!HwTestDone
  <2>1. /\ drv' = [drv EXCEPT !.done = TRUE]
        /\ smain' = smain /\ salive' = salive /\ qp_cfg_cnt' = qp_cfg_cnt
    BY <1>15 DEF X!HwTestDone, X!serverVars
  <2>2. HxShape(drv') /\ drv'.hsk = drv.hsk /\ drv'.conf = drv.conf
    BY <2>1 DEF HxEngine, HxShape
  <2> QED
    BY <2>1, <2>2 DEF HxEngine
<1>16. CASE X!Ended
  BY <1>1, <1>16 DEF X!Ended, X!vars, X!serverVars
<1> QED
  BY <1>3, <1>4, <1>5, <1>6, <1>7, <1>8, <1>9, <1>10, <1>11, <1>12, <1>13, <1>14, <1>15, <1>16
     DEF X!Next, X!ServerMain, X!MainStep

LEMMA HxSteps ==
    ASSUME [ConsumerNext]_consumerVars, program' = "hw_hs"
    PROVE  program = "hw_hs" /\ [X!Next]_(X!vars)
BY DEF ConsumerNext, AsKperf, AsHwHs, AsRping, consumerVars, testVars, hwHsVars,
       X!vars, X!serverVars, X!clientVars

\* However the server of the handshake test ends, no QP stays in the handshake,
\* for any number of QPs and any failures of the two programs (reset_hw_hsk,
\* hh_dev_close).
THEOREM ConsumerNoQpLeftInHandshake ==
    ASSUME qp_cnt \in Nat
    PROVE  ConsumerSpec => []NoQpLeftInHandshake
<1> DEFINE Inv == program = "hw_hs" => HxEngine
<1>1. ConsumerInit => Inv
  BY HxEngineInit DEF ConsumerInit
<1>2. Inv /\ [ConsumerNext]_consumerVars => Inv'
  BY HxSteps, HxEngineStep
<1>3. Inv => NoQpLeftInHandshake
  BY DEF NoQpLeftInHandshake, X!NoQpLeftInHandshake, HxEngine
<1> QED
  BY <1>1, <1>2, <1>3, PTL DEF ConsumerSpec
-----------------------------------------------------------------------------
\* What the theorem supposes of the two command lines: where creating an
\* identifier may fail, the server waits for more than half of the client's QPs: a
\* QP that fails so is counted as done twice, and the client may else end too
\* early.
HxOK ==
    /\ ClientQps \in Nat \ {0} /\ qp_cnt \in Nat \ {0} /\ NumQp \in Nat
    /\ common_buf \in BOOLEAN /\ reuse_buf \in BOOLEAN
    /\ "create_id" \in Failures => ClientQps < 2 * qp_cnt

\* The server runs and has not begun to clean up.
HxLive == salive /\ smain.pc # "clean"

HxDone == {"INVALID", "QP_CFG_DONE"}
HxReady == {"READY"} \cup HxDone
HxPending == {"CONNECT_REQ", "CONNECT_REQ_PROC"}
HxStates == {"ESTABLISHED"} \cup HxPending \cup HxReady
HxRec == [id : X!Ids, st : HxStates]
HxEvent == [event : {"CONNECT_REQUEST", "ESTABLISHED", "DISCONNECTED", "ADDR_RESOLVED",
                     "ROUTE_RESOLVED"},
            id : X!Ids]
HxCb == [state : {"IDLE", "ADDR_RESOLVED", "ROUTE_RESOLVED", "CONNECTING", "CONNECTED"},
         sem : Nat, est : BOOLEAN, test_done : BOOLEAN]

HxTypes ==
    /\ list \in Seq(HxRec) /\ sev \in Seq(HxEvent) /\ cev \in Seq(HxEvent)
    /\ est \in [pc : {"out", "in", "done"}, pos : Nat, i : Nat] /\ est.pos <= Len(list)
    /\ hwqp \in [X!Ids -> 0 .. NumQp] /\ pa \in 0 .. ClientQps
    /\ drv.eng \in [1 .. qp_cnt -> Nat] /\ drv.data \in [1 .. qp_cnt -> Nat]
    /\ calive \in BOOLEAN /\ s2c \in SUBSET X!Ids /\ c2s \in SUBSET X!Ids
    /\ cb \in [X!Ids -> HxCb]
    /\ cmain \in [pc : {"create", "bind", "connect", "wait"}, i : 1 .. ClientQps + 1]
    /\ cdata \in [pc : {"look", "poll"}, i : X!Ids]
    /\ chunk \in 0 .. ClientQps /\ done_cnt \in Nat /\ qp_cnt <= NumQp

\* The list: identifiers in the order of the table, all but the last established,
\* ready from the front, configured from the front.
HxList ==
    /\ \A i, j \in 1 .. Len(list) : i < j => list[i].id < list[j].id
    /\ \A i \in 1 .. Len(list) : i < Len(list) => list[i].st \notin HxPending
    /\ \A i, j \in 1 .. Len(list) : i < j /\ list[j].st \in HxReady => list[i].st \in HxReady
    /\ \A k \in 1 .. Len(list) : list[k].st \in HxDone <=> k <= qp_cfg_cnt
    /\ \A k \in 1 .. Len(list) : k < est.pos => list[k].st \in HxReady
    /\ qp_cfg_cnt <= Len(list)

\* The QPs of the list are the first ones, where no other program holds any.
HxQps ==
    Taken = {} =>
        \A id \in X!Ids : \A q \in X!Hw :
            hwqp[id] = q <=> q <= Len(list) /\ list[q].id = id /\ list[q].st # "CONNECT_REQ"

\* Who holds cm_list_lock, and what main has passed by.
HxLock ==
    /\ est.pc = "in" => cm_list_lock = "est"
    /\ smain.pc \in {"walk", "poll"} =>
          /\ cm_list_lock = "main" /\ smain.pos >= 1
          /\ \A k \in 1 .. Len(list) : k < smain.pos => list[k].st # "READY"
    /\ smain.pc = "poll" => smain.pos <= Len(list) /\ list[smain.pos].st = "READY"
    /\ smain.pc \in {"scan", "walk", "poll"} => qp_cfg_cnt < qp_cnt
    /\ smain.pc \in {"enable", "test"} => qp_cfg_cnt = qp_cnt

\* The connection the client is setting up.
HxOpen == cmain.pc = "connect" /\ cb[cmain.i].state = "CONNECTING" /\ cb[cmain.i].sem = 0

HxRequest(k) ==
    /\ sev[k].event = "CONNECT_REQUEST" /\ sev[k].id = cmain.i /\ HxOpen /\ calive = TRUE
    /\ \A j \in 1 .. Len(list) : list[j].id < sev[k].id
    /\ k = Len(sev) /\ k <= 2
    /\ k = 1 => \A j \in 1 .. Len(list) : list[j].st \notin HxPending
    /\ k = 2 => sev[1].event = "ESTABLISHED"

\* The events on their way to the server.
HxSev ==
    \A k \in 1 .. Len(sev) :
       \/ HxRequest(k)
       \/ /\ sev[k].event = "ESTABLISHED" /\ k = 1 /\ Len(list) > 0
          /\ sev[k].id = list[Len(list)].id /\ list[Len(list)].st = "CONNECT_REQ_PROC"
       \/ sev[k].event = "DISCONNECTED" /\ calive = FALSE

\* The event on its way to the client.
HxCev ==
    /\ Len(cev) <= 1
    /\ Len(cev) = 1 =>
          /\ cev[1].id = cmain.i
          /\ \/ /\ cev[1].event \in {"ADDR_RESOLVED", "ROUTE_RESOLVED"}
                /\ cmain.pc = "bind" /\ cb[cmain.i].sem = 0
             \/ /\ cev[1].event = "ESTABLISHED" /\ HxOpen
                /\ Len(list) > 0 /\ list[Len(list)].id = cmain.i
                /\ list[Len(list)].st = "CONNECT_REQ_PROC"
                /\ Len(sev) = 0

\* What the client is at, and how far the server is with the last request.
HxClient ==
    /\ cmain.pc = "wait" <=> cmain.i = ClientQps + 1
    /\ \A id \in X!Ids : id > cmain.i \/ (id = cmain.i /\ cmain.pc = "create") => cb[id].sem = 0
    /\ cmain.pc = "bind" => cb[cmain.i].sem <= 1
    /\ cmain.pc = "connect" => cb[cmain.i].state = "CONNECTED" \/ HxOpen
    /\ \A k \in 1 .. Len(list) :
          list[k].id < cmain.i \/ (list[k].id = cmain.i /\ cmain.pc = "connect")
    /\ \A k \in 1 .. Len(list) :
          /\ list[k].st = "CONNECT_REQ" => HxOpen /\ list[k].id = cmain.i
          /\ list[k].st = "CONNECT_REQ_PROC" =>
                (HxOpen /\ list[k].id = cmain.i) \/ (Len(sev) > 0 /\ sev[1].event = "ESTABLISHED")
    /\ calive = FALSE => done_cnt >= ClientQps /\ cmain.pc = "wait"

\* Every failed QP counts twice and is missing in the list.
HxMade == IF cmain.pc = "connect" THEN cmain.i ELSE cmain.i - 1
HxCount ==
    /\ 2 * Len(list) + done_cnt <= 2 * HxMade
    /\ \A k \in 1 .. Len(sev) : sev[k].event = "CONNECT_REQUEST" =>
          2 * Len(list) + 2 + done_cnt <= 2 * HxMade
    /\ "create_id" \notin Failures => done_cnt = 0

\* While every poll has found its message: one exchange at a time, with the
\* connection main waits for.
HxExchanged ==
    /\ \A id \in s2c : id \in c2s \/ (smain.pc = "poll" /\ id = list[smain.pos].id)
    /\ \A k \in 1 .. Len(list) : k <= qp_cfg_cnt => list[k].id \in c2s
    /\ common_buf /\ chunk # X!NONE /\ c2s = {} => \E id \in s2c : cb[id].test_done = TRUE
HxExchange ==
    /\ cdata.pc = "poll" => cb[cdata.i].test_done = FALSE
    /\ blind = {} => HxExchanged

\* The memory of the engine, and of the client while it runs.
HxMemory ==
    /\ \A k \in 1 .. Len(list) : k <= qp_cfg_cnt =>
          /\ drv.eng[k] = list[k].id /\ <<"sq", list[k].id>> \in smem
          /\ <<"rdma", drv.data[k]>> \in smem
    /\ pa # X!NONE => <<"rdma", pa>> \in smem
HxBuffers ==
    calive = TRUE =>
        /\ \A k \in 1 .. Len(list) : <<"qp", list[k].id>> \in cmem
        /\ \A k \in 1 .. Len(sev) : sev[k].event = "CONNECT_REQUEST"
                                      => <<"qp", sev[k].id>> \in cmem
        /\ blind = {} /\ ~common_buf => \A id \in c2s : <<"rdma", id>> \in cmem
        /\ blind = {} /\ common_buf /\ c2s # {} => chunk # X!NONE /\ <<"rdma", chunk>> \in cmem

HxServer == HxTypes /\ HxList /\ HxQps /\ HxLock
HxEvents == HxSev /\ HxCev /\ HxClient /\ HxCount
HxInv == HxServer /\ HxEvents /\ HxExchange /\ HxMemory /\ HxBuffers
-----------------------------------------------------------------------------
\* One entry of the list gets another state.
HxMarked(l, m, p, v) ==
    /\ m \in Seq(HxRec) /\ Len(m) = Len(l)
    /\ \A k \in 1 .. Len(l) : m[k].id = l[k].id /\ m[k].st = IF k = p THEN v ELSE l[k].st

LEMMA HxMark ==
    ASSUME NEW l, NEW m, NEW p, NEW v, l \in Seq(HxRec), p \in 1 .. Len(l), v \in HxStates,
           m = [l EXCEPT ![p].st = v]
    PROVE  HxMarked(l, m, p, v)
<1>1. l[p] \in HxRec /\ \A k \in 1 .. Len(l) : l[k] \in HxRec
  OBVIOUS
<1>2. PICK r : r = [l[p] EXCEPT !.st = v]
  OBVIOUS
<1>3. r \in HxRec /\ r.id = l[p].id /\ r.st = v
  BY <1>1, <1>2 DEF HxRec
<1>4. m = [l EXCEPT ![p] = r]
  BY <1>2
<1>5. m \in Seq(HxRec) /\ Len(m) = Len(l)
      /\ \A k \in 1 .. Len(l) : m[k] = IF k = p THEN r ELSE l[k]
  BY <1>3, <1>4
<1> QED
  BY <1>3, <1>5 DEF HxMarked

\* A request is added at the end.
HxAppended(l, m, id) ==
    /\ m \in Seq(HxRec) /\ Len(m) = Len(l) + 1
    /\ \A k \in 1 .. Len(l) : m[k] = l[k]
    /\ m[Len(l) + 1].id = id /\ m[Len(l) + 1].st = "CONNECT_REQ"

LEMMA HxAppend ==
    ASSUME NEW l, NEW m, NEW id, l \in Seq(HxRec), id \in X!Ids,
           m = Append(l, [id |-> id, st |-> "CONNECT_REQ"])
    PROVE  HxAppended(l, m, id)
<1>1. PICK r : r = [id |-> id, st |-> "CONNECT_REQ"]
  OBVIOUS
<1>2. r \in HxRec /\ r.id = id /\ r.st = "CONNECT_REQ"
  BY <1>1 DEF HxRec, HxStates, HxPending
<1>3. m = Append(l, r)
  BY <1>1
<1>4. m \in Seq(HxRec) /\ Len(m) = Len(l) + 1 /\ m[Len(l) + 1] = r
      /\ \A k \in 1 .. Len(l) : m[k] = l[k]
  BY <1>2, <1>3
<1> QED
  BY <1>2, <1>4 DEF HxAppended

LEMMA HxEntries ==
    ASSUME HxOK, HxTypes
    PROVE  /\ Len(list) \in Nat /\ Len(sev) \in Nat /\ Len(cev) \in Nat
           /\ \A k \in 1 .. Len(list) : list[k] \in HxRec /\ list[k].id \in X!Ids
                                       /\ list[k].id \in Nat /\ list[k].st \in HxStates
           /\ \A k \in 1 .. Len(sev) : sev[k] \in HxEvent /\ sev[k].id \in X!Ids
           /\ \A k \in 1 .. Len(cev) : cev[k] \in HxEvent /\ cev[k].id \in X!Ids
           /\ \A id \in X!Ids : id \in Nat /\ id > 0 /\ id <= ClientQps
<1>1. \A id \in X!Ids : id \in Nat /\ id > 0 /\ id <= ClientQps
  BY DEF HxOK, X!Ids
<1>2. \A k \in 1 .. Len(list) : list[k] \in HxRec
  BY DEF HxTypes
<1>3. \A r \in HxRec : r.id \in X!Ids /\ r.st \in HxStates
  BY DEF HxRec
<1>4. \A k \in 1 .. Len(sev) : sev[k] \in HxEvent
  BY DEF HxTypes
<1>5. \A k \in 1 .. Len(cev) : cev[k] \in HxEvent
  BY DEF HxTypes
<1>6. \A r \in HxEvent : r.id \in X!Ids
  BY DEF HxEvent
<1> QED
  BY <1>1, <1>2, <1>3, <1>4, <1>5, <1>6, SMTT(20) DEF HxTypes

\* The connection of an identifier in the list is where it stands.
LEMMA HxPlace ==
    ASSUME HxOK, HxTypes, HxList, NEW k \in 1 .. Len(list)
    PROVE  X!Place(list[k].id) = k
<1>1. \A i, j \in 1 .. Len(list) : i < j => list[i].id < list[j].id
  BY DEF HxList
<1>2. \A i \in 1 .. Len(list) : list[i].id \in Nat
  BY HxEntries
<1>3. \A i \in 1 .. Len(list) : list[i].id = list[k].id => i = k
  <2>1. Len(list) \in Nat
    BY DEF HxTypes
  <2> QED
    BY <1>1, <1>2, <2>1
<1> QED
  BY <1>3 DEF X!Place

LEMMA HxInit ==
    ASSUME HxOK, X!Init
    PROVE  HxInv
<1> USE DEF X!Init, X!init_xperf_app, X!fill_hh_ctrl_cfg, X!hw_hs_cmn_cfg, X!ClientInit, HxOK
<1>1. HxTypes
  <2>1. cb \in [X!Ids -> HxCb]
    BY DEF HxCb
  <2>2. drv.eng \in [1 .. qp_cnt -> Nat] /\ drv.data \in [1 .. qp_cnt -> Nat]
    BY DEF X!NONE
  <2>3. /\ list \in Seq(HxRec) /\ sev \in Seq(HxEvent) /\ cev \in Seq(HxEvent) /\ Len(list) = 0
    OBVIOUS
  <2>4. hwqp \in [X!Ids -> 0 .. NumQp] /\ pa \in 0 .. ClientQps /\ chunk \in 0 .. ClientQps
    BY DEF X!NONE
  <2>5. /\ est \in [pc : {"out", "in", "done"}, pos : Nat, i : Nat] /\ est.pos <= Len(list)
        /\ cmain \in [pc : {"create", "bind", "connect", "wait"}, i : 1 .. ClientQps + 1]
        /\ cdata \in [pc : {"look", "poll"}, i : X!Ids]
    BY <2>3 DEF X!Ids
  <2> QED
    BY <2>1, <2>2, <2>3, <2>4, <2>5 DEF HxTypes
<1>2. HxList
  BY DEF HxList
<1>3. HxQps
  BY DEF HxQps, X!NONE, X!Hw
<1>4. HxLock
  BY DEF HxLock
<1>5. HxSev /\ HxCev
  BY DEF HxSev, HxCev
<1>6. HxClient
  <2>1. \A id \in X!Ids : cb[id].sem = 0
    OBVIOUS
  <2> QED
    BY <2>1 DEF HxClient
<1>7. HxCount
  BY DEF HxCount, HxMade
<1>8. HxExchange
  BY DEF HxExchange, HxExchanged
<1>9. HxMemory /\ HxBuffers
  BY DEF HxMemory, HxBuffers
<1> QED
  BY <1>1, <1>2, <1>3, <1>4, <1>5, <1>6, <1>7, <1>8, <1>9 DEF HxInv, HxServer, HxEvents

\* What a part of the invariant is about: it holds on while that stays.
LEMMA HxKeep ==
    ASSUME HxInv
    PROVE  /\ UNCHANGED <<list, est, qp_cfg_cnt>> => HxList'
           /\ UNCHANGED <<list, hwqp>> => HxQps'
           /\ UNCHANGED <<list, est, smain, qp_cfg_cnt, cm_list_lock>> => HxLock'
           /\ UNCHANGED <<list, sev, cb, cmain, calive>> => HxSev'
           /\ UNCHANGED <<list, sev, cev, cb, cmain>> => HxCev'
           /\ UNCHANGED <<list, sev, cb, cmain, calive, done_cnt>> => HxClient'
           /\ UNCHANGED <<list, sev, cmain, done_cnt>> => HxCount'
           /\ UNCHANGED <<list, s2c, c2s, smain, qp_cfg_cnt, cb, cdata, chunk, blind>>
                 => HxExchange'
           /\ UNCHANGED <<list, qp_cfg_cnt, drv, smem, pa>> => HxMemory'
           /\ UNCHANGED <<list, sev, calive, c2s, chunk, cmem, blind>> => HxBuffers'
<1> USE DEF HxInv, HxServer, HxEvents
<1>1. UNCHANGED <<list, est, qp_cfg_cnt>> => HxList'
  BY DEF HxList
<1>2. UNCHANGED <<list, hwqp>> => HxQps'
  BY DEF HxQps
<1>3. UNCHANGED <<list, est, smain, qp_cfg_cnt, cm_list_lock>> => HxLock'
  BY DEF HxLock
<1>4. UNCHANGED <<list, sev, cb, cmain, calive>> => HxSev'
  BY DEF HxSev, HxRequest, HxOpen
<1>5. UNCHANGED <<list, sev, cev, cb, cmain>> => HxCev'
  BY DEF HxCev, HxOpen
<1>6. UNCHANGED <<list, sev, cb, cmain, calive, done_cnt>> => HxClient'
  BY DEF HxClient, HxOpen
<1>7. UNCHANGED <<list, sev, cmain, done_cnt>> => HxCount'
  BY DEF HxCount, HxMade
<1>8. UNCHANGED <<list, s2c, c2s, smain, qp_cfg_cnt, cb, cdata, chunk, blind>> => HxExchange'
  BY DEF HxExchange, HxExchanged
<1>9. UNCHANGED <<list, qp_cfg_cnt, drv, smem, pa>> => HxMemory'
  BY DEF HxMemory
<1>10. UNCHANGED <<list, sev, calive, c2s, chunk, cmem, blind>> => HxBuffers'
  BY DEF HxBuffers
<1> QED
  BY <1>1, <1>2, <1>3, <1>4, <1>5, <1>6, <1>7, <1>8, <1>9, <1>10
-----------------------------------------------------------------------------
(* The steps that leave the list and the events alone. *)

LEMMA HxStutters ==
    ASSUME HxOK, HxInv,
           UNCHANGED <<salive, list, cm_list_lock, sev, est, smain, qp_cfg_cnt, hwqp, smem, pa, blind,
                       drv, s2c, c2s, X!clientVars>>
    PROVE  HxInv'
BY HxKeep DEF HxInv, HxServer, HxEvents, HxTypes, X!clientVars

LEMMA HxEstLockStep ==
    ASSUME HxOK, HxInv, X!EstLock \/ X!EstUnlock
    PROVE  HxInv'
<1> USE DEF HxInv, HxServer, HxEvents
<1>0. Len(list) \in Nat /\ est \in [pc : {"out", "in", "done"}, pos : Nat, i : Nat]
      /\ est.pos <= Len(list)
  BY DEF HxTypes
<1>1. UNCHANGED <<list, sev, cev, smain, qp_cfg_cnt, hwqp, smem, pa, blind, drv, s2c, c2s, calive, cb,
                  cmain, cdata, done_cnt, cmem, chunk>>
  BY DEF X!EstLock, X!EstUnlock, X!clientVars
<1>2. /\ est' \in [pc : {"out", "in", "done"}, pos : Nat, i : Nat] /\ est'.pos <= Len(list)
      /\ est'.pos <= 1 \/ est'.pos = est.pos
      /\ est'.pc = "in" => cm_list_lock' = "est"
      /\ smain.pc \in {"walk", "poll"} => cm_list_lock' = "main"
  <2>1. CASE X!EstLock
    <3>1. est' = [pc |-> "in", pos |-> IF est.pos = 0 /\ list # << >> THEN 1 ELSE est.pos,
                  i |-> 0]
          /\ cm_list_lock = "free" /\ cm_list_lock' = "est"
      BY <2>1 DEF X!EstLock
    <3>2. list # << >> => Len(list) >= 1
      BY <1>0 DEF HxTypes
    <3>3. smain.pc \notin {"walk", "poll"}
      BY <3>1 DEF HxLock
    <3> QED
      BY <3>1, <3>2, <3>3, <1>0
  <2>2. CASE X!EstUnlock
    <3>1. PICK p : /\ est' = [est EXCEPT !.pc = p, !.i = 0] /\ p \in {"out", "done"}
                   /\ cm_list_lock' = "free" /\ est.pc = "in"
      BY <2>2 DEF X!EstUnlock
    <3>2. smain.pc \notin {"walk", "poll"}
      BY <3>1 DEF HxLock
    <3> QED
      BY <3>1, <3>2, <1>0
  <2> QED
    BY <2>1, <2>2
<1>3. HxTypes'
  BY <1>1, <1>2 DEF HxTypes
<1>4. HxList'
  <2>1. \A k \in 1 .. Len(list) : k < est'.pos => list[k].st \in HxReady
    BY <1>0, <1>2 DEF HxList
  <2> QED
    BY <2>1, <1>1 DEF HxList
<1>5. HxLock'
  BY <1>1, <1>2 DEF HxLock
<1> QED
  BY <1>1, <1>3, <1>4, <1>5, HxKeep

LEMMA HxMainWalks ==
    ASSUME HxOK, HxEngine, HxInv, X!MainLock \/ X!MainUnlock \/ X!MainVisit
    PROVE  HxInv'
<1> USE DEF HxInv, HxServer, HxEvents
<1>0. Len(list) \in Nat /\ smain \in [pc : HxPcs, pos : Nat] /\ qp_cfg_cnt \in Nat
  BY HxEntries DEF HxEngine
<1>1. /\ UNCHANGED <<list, sev, cev, est, qp_cfg_cnt, hwqp, smem, pa, blind, drv, c2s, calive, cb,
                     cmain, cdata, done_cnt, cmem, chunk>>
      /\ smain.pc \in {"scan", "walk"}
  BY DEF X!MainLock, X!MainUnlock, X!MainVisit, X!clientVars
<1>2. /\ HxLock' /\ s2c' \in SUBSET X!Ids
      /\ blind = {} => \A id \in s2c' :
                          id \in c2s' \/ (smain'.pc = "poll" /\ id = list'[smain'.pos].id)
      /\ \A id \in s2c : id \in s2c'
  <2>0. blind = {} => \A id \in s2c : id \in c2s
    BY <1>1 DEF HxExchange, HxExchanged
  <2>1. CASE X!MainLock
    <3>1. /\ cm_list_lock = "free" /\ cm_list_lock' = "main" /\ s2c' = s2c
          /\ smain' = [pc |-> "walk", pos |-> 1] /\ smain.pc = "scan"
      BY <2>1 DEF X!MainLock
    <3>2. est.pc # "in"
      BY <3>1 DEF HxLock
    <3>3. HxLock'
      BY <3>1, <3>2, <1>0, <1>1 DEF HxLock
    <3> QED
      BY <3>1, <3>3, <2>0, <1>1 DEF HxTypes
  <2>2. CASE X!MainUnlock
    <3>1. /\ cm_list_lock' = "free" /\ s2c' = s2c
          /\ smain' = [pc |-> "scan", pos |-> 0] /\ smain.pc = "walk"
      BY <2>2 DEF X!MainUnlock
    <3>2. est.pc # "in"
      BY <3>1 DEF HxLock
    <3>3. HxLock'
      BY <3>1, <3>2, <1>0, <1>1 DEF HxLock
    <3> QED
      BY <3>1, <3>3, <2>0, <1>1 DEF HxTypes
  <2>3. CASE X!MainVisit
    <3>1. /\ smain.pc = "walk" /\ smain.pos <= Len(list) /\ cm_list_lock' = cm_list_lock
      BY <2>3 DEF X!MainVisit
    <3>2. smain.pos \in 1 .. Len(list)
      BY <3>1, <1>0 DEF HxLock
    <3>3. CASE list[smain.pos].st = "READY"
      <4>1. /\ s2c' = s2c \cup {list[smain.pos].id} /\ smain' = [smain EXCEPT !.pc = "poll"]
        BY <2>3, <3>3 DEF X!MainVisit, X!test_server_rping
      <4>2. smain'.pc = "poll" /\ smain'.pos = smain.pos
        BY <4>1, <1>0
      <4>3. HxLock'
        BY <4>2, <3>1, <3>2, <3>3, <1>0, <1>1 DEF HxLock
      <4>4. list[smain.pos].id \in X!Ids
        BY <3>2, HxEntries
      <4> QED
        BY <4>1, <4>2, <4>3, <4>4, <2>0, <1>1 DEF HxTypes
    <3>4. CASE list[smain.pos].st # "READY"
      <4>1. /\ s2c' = s2c /\ smain' = [smain EXCEPT !.pos = @ + 1]
        BY <2>3, <3>4 DEF X!MainVisit
      <4>2. smain'.pc = "walk" /\ smain'.pos = smain.pos + 1
        BY <4>1, <3>1, <1>0
      <4>3. HxLock'
        BY <4>2, <3>1, <3>2, <3>4, <1>0, <1>1 DEF HxLock
      <4> QED
        BY <4>1, <4>3, <2>0, <1>1 DEF HxTypes
    <3> QED
      BY <3>3, <3>4
  <2> QED
    BY <2>1, <2>2, <2>3
<1>3. HxTypes'
  BY <1>1, <1>2 DEF HxTypes
<1>4. HxExchange'
  BY <1>1, <1>2 DEF HxExchange, HxExchanged
<1> QED
  BY <1>1, <1>2, <1>3, <1>4, HxKeep

\* A poll that ends with an error: from here on the exchange may be anything.
LEMMA HxMainPollFailed ==
    ASSUME HxOK, HxInv, X!MainPollFails
    PROVE  HxInv'
<1> USE DEF HxInv, HxServer, HxEvents
<1>1. /\ UNCHANGED <<list, cm_list_lock, sev, cev, est, smain, qp_cfg_cnt, hwqp, smem, pa, drv,
                     c2s, calive, cb, cmain, cdata, done_cnt, cmem, chunk>>
      /\ s2c' \in SUBSET s2c /\ blind' # {}
  BY DEF X!MainPollFails, X!clientVars
<1>2. HxTypes'
  BY <1>1 DEF HxTypes
<1>3. HxExchange'
  BY <1>1 DEF HxExchange
<1>4. HxBuffers'
  BY <1>1 DEF HxBuffers
<1> QED
  BY <1>1, <1>2, <1>3, <1>4, HxKeep

\* enable_hw_hsk and the end of the test change what the driver says of itself.
LEMMA HxMainEnables ==
    ASSUME HxOK, HxEngine, HxInv, X!MainEnable \/ X!HwTestDone
    PROVE  HxInv'
<1> USE DEF HxInv, HxServer, HxEvents
<1>0. HxShape(drv) /\ smain \in [pc : HxPcs, pos : Nat]
  BY DEF HxEngine
<1>1. UNCHANGED <<list, sev, cev, est, qp_cfg_cnt, cm_list_lock, hwqp, smem, pa, blind, s2c, c2s,
                  calive, cb, cmain, cdata, done_cnt, cmem, chunk>>
  BY DEF X!MainEnable, X!HwTestDone, X!serverVars, X!clientVars
<1>2. drv'.eng = drv.eng /\ drv'.data = drv.data
  BY <1>0 DEF X!MainEnable, X!enable_hw_hsk, X!HwTestDone, HxShape
<1>3. \/ smain' = smain
      \/ smain.pc = "enable" /\ smain'.pc = "test"
  BY <1>0 DEF X!MainEnable, X!HwTestDone, X!serverVars
<1>4. HxTypes'
  BY <1>1, <1>2 DEF HxTypes
<1>5. HxLock'
  BY <1>1, <1>3 DEF HxLock
<1>6. HxExchange'
  BY <1>1, <1>3 DEF HxExchange, HxExchanged
<1>7. HxMemory'
  BY <1>1, <1>2 DEF HxMemory
<1> QED
  BY <1>1, <1>4, <1>5, <1>6, <1>7, HxKeep
-----------------------------------------------------------------------------
(* The steps that change the list. *)

\* No event is added for the server.
HxFewer == /\ Len(sev') \in Nat
           /\ \A k \in 1 .. Len(sev') : \E j \in 1 .. Len(sev) : sev'[k] = sev[j]

LEMMA HxSevTail ==
    ASSUME HxOK, HxTypes, sev # << >>, sev' = Tail(sev)
    PROVE  /\ sev' \in Seq(HxEvent) /\ HxFewer /\ Len(sev') = Len(sev) - 1 /\ Len(sev) >= 1
           /\ \A k \in 1 .. Len(sev') : sev'[k] = sev[k + 1]
           /\ Head(sev) = sev[1]
<1>1. /\ sev' \in Seq(HxEvent) /\ Len(sev') = Len(sev) - 1 /\ Len(sev) \in Nat /\ Len(sev) >= 1
      /\ \A k \in 1 .. Len(sev') : sev'[k] = sev[k + 1]
      /\ Head(sev) = sev[1]
  BY DEF HxTypes
<1>2. \A k \in 1 .. Len(sev') : k + 1 \in 1 .. Len(sev)
  BY <1>1
<1> QED
  BY <1>1, <1>2 DEF HxFewer

\* What the state of one connection does not touch.
LEMMA HxMarkKeeps ==
    ASSUME HxOK, HxEngine, HxInv, NEW p \in 1 .. Len(list), NEW v, HxMarked(list, list', p, v)
    PROVE  /\ UNCHANGED hwqp /\ list[p].st # "CONNECT_REQ" /\ v # "CONNECT_REQ" => HxQps'
           /\ UNCHANGED <<s2c, c2s, smain, qp_cfg_cnt, cb, cdata, chunk, blind>> => HxExchange'
           /\ UNCHANGED <<qp_cfg_cnt, drv, smem, pa>> => HxMemory'
           /\ HxFewer /\ UNCHANGED <<calive, c2s, chunk, cmem, blind>> => HxBuffers'
           /\ HxFewer /\ UNCHANGED <<cmain, done_cnt>> => HxCount'
<1> USE DEF HxInv, HxServer, HxEvents
<1>0. /\ Len(list) \in Nat /\ Len(list') = Len(list)
      /\ \A k \in 1 .. Len(list) : /\ list'[k].id = list[k].id
                                   /\ list'[k].st = IF k = p THEN v ELSE list[k].st
  BY HxEntries DEF HxMarked
<1>1. ASSUME UNCHANGED hwqp, list[p].st # "CONNECT_REQ", v # "CONNECT_REQ"
      PROVE  HxQps'
  <2>1. \A q \in X!Hw : q <= Len(list) => q \in 1 .. Len(list)
    BY <1>0 DEF X!Hw
  <2> QED
    BY <1>0, <1>1, <2>1 DEF HxQps
<1>2. ASSUME UNCHANGED <<s2c, c2s, smain, qp_cfg_cnt, cb, cdata, chunk, blind>>
      PROVE  HxExchange'
  <2>1. smain.pc = "poll" => smain.pos \in 1 .. Len(list)
    BY <1>0 DEF HxLock, HxEngine
  <2> QED
    BY <1>0, <1>2, <2>1 DEF HxExchange, HxExchanged
<1>3. ASSUME UNCHANGED <<qp_cfg_cnt, drv, smem, pa>>
      PROVE  HxMemory'
  BY <1>0, <1>3 DEF HxMemory
<1>4. ASSUME HxFewer, UNCHANGED <<calive, c2s, chunk, cmem, blind>>
      PROVE  HxBuffers'
  <2>1. ASSUME calive = TRUE, NEW k \in 1 .. Len(sev'), sev'[k].event = "CONNECT_REQUEST"
        PROVE  <<"qp", sev'[k].id>> \in cmem
    <3>1. PICK j \in 1 .. Len(sev) : sev'[k] = sev[j]
      BY <1>4 DEF HxFewer
    <3> QED
      BY <2>1, <3>1 DEF HxBuffers
  <2> QED
    BY <1>0, <1>4, <2>1 DEF HxBuffers
<1>5. ASSUME HxFewer, UNCHANGED <<cmain, done_cnt>>
      PROVE  HxCount'
  <2>1. ASSUME NEW k \in 1 .. Len(sev'), sev'[k].event = "CONNECT_REQUEST"
        PROVE  2 * Len(list) + 2 + done_cnt <= 2 * HxMade
    <3>1. PICK j \in 1 .. Len(sev) : sev'[k] = sev[j]
      BY <1>5 DEF HxFewer
    <3> QED
      BY <2>1, <3>1 DEF HxCount
  <2>2. HxMade' = HxMade
    BY <1>5 DEF HxMade
  <2> QED
    BY <1>0, <1>5, <2>1, <2>2 DEF HxCount
<1> QED
  BY <1>1, <1>2, <1>3, <1>4, <1>5

\* The state of a connection that is established says nothing of the events.
LEMMA HxMarkEvents ==
    ASSUME HxOK, HxInv, NEW p \in 1 .. Len(list), NEW v, HxMarked(list, list', p, v),
           list[p].st \notin HxPending, v \notin HxPending,
           UNCHANGED <<sev, calive, cb, cmain, cev, done_cnt>>
    PROVE  HxSev' /\ HxCev' /\ HxClient'
<1> USE DEF HxInv, HxServer, HxEvents
<1>2. PICK n : n = Len(list)
  OBVIOUS
<1>4. /\ n \in Nat /\ p \in 1 .. n /\ Len(list) = n /\ Len(list') = n
      /\ \A k \in 1 .. n : list'[k].id = list[k].id
      /\ \A k \in 1 .. n : k # p => list'[k].st = list[k].st
      /\ list'[p].st = v
  BY <1>2, HxEntries DEF HxMarked
<1>8. HxOpen' <=> HxOpen
  BY DEF HxOpen
<1>9. \A k \in 1 .. n : list'[k].st = list[k].st \/ (k = p /\ list'[k].st \notin HxPending)
  BY <1>4
<1>10. HxSev'
  <2> SUFFICES ASSUME NEW k \in 1 .. Len(sev)
               PROVE  \/ HxRequest(k)'
                      \/ /\ sev[k].event = "ESTABLISHED" /\ k = 1 /\ n > 0
                         /\ sev[k].id = list'[n].id /\ list'[n].st = "CONNECT_REQ_PROC"
                      \/ sev[k].event = "DISCONNECTED" /\ calive = FALSE
    BY <1>4 DEF HxSev
  <2>1. CASE HxRequest(k)
    BY <1>4, <1>8, <1>9, <2>1 DEF HxRequest
  <2>2. CASE /\ sev[k].event = "ESTABLISHED" /\ k = 1 /\ Len(list) > 0
             /\ sev[k].id = list[Len(list)].id /\ list[Len(list)].st = "CONNECT_REQ_PROC"
    BY <1>4, <2>2 DEF HxPending
  <2>3. CASE sev[k].event = "DISCONNECTED" /\ calive = FALSE
    BY <2>3
  <2> QED
    BY <2>1, <2>2, <2>3 DEF HxSev
<1>11. HxCev'
  <2>1. list[n].st = "CONNECT_REQ_PROC" /\ n > 0 => list'[n].st = list[n].st /\ list'[n].id = list[n].id
    BY <1>4 DEF HxPending
  <2> QED
    BY <1>4, <1>8, <2>1 DEF HxCev
<1>12. HxClient'
  <2>1. \A k \in 1 .. n : list'[k].st \in {"CONNECT_REQ", "CONNECT_REQ_PROC"} =>
                             list'[k].st = list[k].st
    BY <1>9 DEF HxPending
  <2> QED
    BY <1>4, <1>8, <2>1 DEF HxClient
<1> QED
  BY <1>10, <1>11, <1>12

\* A request joins the list.
LEMMA HxScmRequest ==
    ASSUME HxOK, HxEngine, HxInv, X!ScmListEvent, sev[1].event = "CONNECT_REQUEST"
    PROVE  HxInv'
<1> USE DEF HxInv, HxServer, HxEvents
<1>0. /\ UNCHANGED <<cm_list_lock, est, smain, qp_cfg_cnt, hwqp, smem, pa, blind, drv, s2c, c2s, calive,
                     cb, cmain, cdata, cev, done_cnt, cmem, chunk>>
      /\ sev # << >> /\ sev' = Tail(sev) /\ cm_list_lock = "free"
  BY DEF X!ScmListEvent, X!clientVars
<1>1. /\ sev' \in Seq(HxEvent) /\ Len(sev') = Len(sev) - 1 /\ Len(sev) >= 1 /\ HxFewer
      /\ Len(sev) \in Nat
      /\ list' = Append(list, [id |-> sev[1].id, st |-> "CONNECT_REQ"])
  <2>1. Head(sev) = sev[1]
    BY <1>0, HxSevTail
  <2> QED
    BY <1>0, <2>1, HxSevTail, HxEntries DEF X!ScmListEvent, X!Append1
<1>2. HxRequest(1)
  BY <1>1 DEF HxSev
<1>3. /\ calive = TRUE /\ HxOpen /\ sev[1].id = cmain.i
      /\ \A j \in 1 .. Len(list) : list[j].id < sev[1].id /\ list[j].st \notin HxPending
  BY <1>2 DEF HxRequest
<1>20. Len(sev) = 1 /\ Len(sev') = 0 /\ 1 .. Len(sev') = {}
  <2>1. Len(sev) = 1
    BY <1>1, <1>2 DEF HxRequest
  <2> QED
    BY <1>1, <2>1
<1>4. PICK id : id = sev[1].id
  OBVIOUS
<1>5. id \in X!Ids /\ id \in Nat /\ id = cmain.i /\ cmain.pc = "connect" /\ HxOpen
  BY <1>3, <1>4, <1>1, HxEntries DEF HxOpen
<1>6. HxAppended(list, list', id)
  BY <1>0, <1>1, <1>4, <1>5, HxAppend DEF HxTypes
<1>7. /\ Len(list) \in Nat /\ Len(list') = Len(list) + 1 /\ list' \in Seq(HxRec)
      /\ \A k \in 1 .. Len(list) : list'[k] = list[k] /\ list[k].id \in Nat
      /\ list'[Len(list) + 1].id = id /\ list'[Len(list) + 1].st = "CONNECT_REQ"
      /\ \A k \in 1 .. Len(list') : k \in 1 .. Len(list) \/ k = Len(list) + 1
  <2>0. PICK n : n = Len(list)
    OBVIOUS
  <2>1. n \in Nat /\ Len(list') = n + 1
    BY <1>6, <2>0, HxEntries DEF HxAppended
  <2>2. \A k \in 1 .. Len(list') : k \in 1 .. n \/ k = n + 1
    BY <2>1
  <2> QED
    BY <1>6, <2>0, <2>1, <2>2, HxEntries DEF HxAppended
<1>8. Len(cev) = 0
  <2>0. PICK n : n = Len(cev)
    OBVIOUS
  <2>1. n \in Nat /\ n <= 1
    BY <2>0, HxEntries DEF HxCev
  <2>2. Len(list) > 0 => list[Len(list)].st # "CONNECT_REQ_PROC"
    BY <1>3, <1>7 DEF HxPending
  <2>3. n # 1
    BY <1>5, <2>0, <2>2 DEF HxCev
  <2> QED
    BY <2>0, <2>1, <2>3
<1>9. HxTypes'
  BY <1>0, <1>1, <1>7 DEF HxTypes
<1>10. HxList'
  <2>1. "CONNECT_REQ" \notin HxReady /\ "CONNECT_REQ" \notin HxDone
    BY DEF HxReady, HxDone
  <2>2. \A i, j \in 1 .. Len(list') : i < j => list'[i].id < list'[j].id
    BY <1>3, <1>4, <1>5, <1>7 DEF HxList
  <2>3. \A i \in 1 .. Len(list') : i < Len(list') => list'[i].st \notin HxPending
    BY <1>3, <1>7
  <2>4. \A i, j \in 1 .. Len(list') :
           i < j /\ list'[j].st \in HxReady => list'[i].st \in HxReady
    BY <1>7, <2>1 DEF HxList
  <2>5. \A k \in 1 .. Len(list') : list'[k].st \in HxDone <=> k <= qp_cfg_cnt
    BY <1>7, <2>1 DEF HxList, HxEngine
  <2>6. \A k \in 1 .. Len(list') : k < est.pos => list'[k].st \in HxReady
    <3>1. est.pos \in Nat /\ est.pos <= Len(list)
      BY DEF HxTypes
    <3> QED
      BY <1>7, <3>1 DEF HxList
  <2> QED
    BY <1>0, <1>7, <2>2, <2>3, <2>4, <2>5, <2>6 DEF HxList, HxEngine
<1>11. HxQps'
  <2>1. \A q \in X!Hw : q \in Nat /\ q >= 1
    BY DEF X!Hw
  <2> QED
    BY <1>0, <1>7, <2>1 DEF HxQps
<1>12. HxLock'
  <2>1. est.pc # "in" /\ smain.pc \notin {"walk", "poll"}
    BY <1>0 DEF HxLock
  <2> QED
    BY <1>0, <2>1 DEF HxLock
<1>13. HxSev' /\ HxCev'
  <2>1. Len(cev') = 0
    BY <1>0, <1>8
  <2> QED
    BY <1>20, <2>1 DEF HxSev, HxCev
<1>14. HxClient'
  <2>1. \A k \in 1 .. Len(list) : list[k].st \notin {"CONNECT_REQ", "CONNECT_REQ_PROC"}
    BY <1>3 DEF HxPending
  <2>2. HxOpen'
    BY <1>0, <1>5 DEF HxOpen
  <2>3. \A k \in 1 .. Len(list') :
          /\ list'[k].st = "CONNECT_REQ" => list'[k].id = cmain.i
          /\ list'[k].st # "CONNECT_REQ_PROC"
    BY <1>7, <1>5, <2>1
  <2>4. \A k \in 1 .. Len(list') :
          list'[k].id < cmain.i \/ (list'[k].id = cmain.i /\ cmain.pc = "connect")
    BY <1>5, <1>7 DEF HxClient
  <2> QED
    BY <1>0, <2>2, <2>3, <2>4 DEF HxClient
<1>15. HxCount'
  <2>1. HxMade' = HxMade
    BY <1>0 DEF HxMade
  <2>2. 2 * Len(list) + 2 + done_cnt <= 2 * HxMade
    BY <1>2, <1>20 DEF HxCount, HxRequest
  <2>3. HxMade \in Int /\ done_cnt \in Nat
    BY <1>5 DEF HxMade, HxTypes
  <2> QED
    <3>1. \A k \in 1 .. Len(sev') : FALSE
      BY <1>20
    <3>2. 2 * Len(list') + done_cnt <= 2 * HxMade
      BY <1>7, <2>2, <2>3
    <3> QED
      BY <1>0, <2>1, <3>1, <3>2 DEF HxCount
<1>16. HxExchange' /\ HxMemory'
  <2>1. smain.pc # "poll"
    BY <1>0 DEF HxLock
  <2>2. \A k \in 1 .. Len(list') : k <= qp_cfg_cnt => k \in 1 .. Len(list)
    BY <1>7 DEF HxList, HxEngine
  <2> QED
    BY <1>0, <1>7, <2>1, <2>2 DEF HxExchange, HxExchanged, HxMemory
<1>17. HxBuffers'
  <2>1. <<"qp", id>> \in cmem
    BY <1>2, <1>3, <1>20, <1>4 DEF HxBuffers, HxRequest
  <2> QED
    BY <1>0, <1>20, <1>7, <2>1 DEF HxBuffers
<1> QED
  BY <1>9, <1>10, <1>11, <1>12, <1>13, <1>14, <1>15, <1>16, <1>17

\* The last connection of the list is established.
LEMMA HxScmEstablished ==
    ASSUME HxOK, HxEngine, HxInv, X!ScmListEvent, sev[1].event = "ESTABLISHED"
    PROVE  HxInv'
<1> USE DEF HxInv, HxServer, HxEvents
<1>0. /\ UNCHANGED <<cm_list_lock, est, smain, qp_cfg_cnt, hwqp, smem, pa, blind, drv, s2c, c2s, calive,
                     cb, cmain, cdata, cev, done_cnt, cmem, chunk>>
      /\ sev # << >> /\ sev' = Tail(sev) /\ cm_list_lock = "free"
  BY DEF X!ScmListEvent, X!clientVars
<1>1. /\ sev' \in Seq(HxEvent) /\ Len(sev') = Len(sev) - 1 /\ Len(sev) >= 1 /\ HxFewer
      /\ Len(sev) \in Nat /\ \A k \in 1 .. Len(sev') : sev'[k] = sev[k + 1]
      /\ list' = [list EXCEPT ![X!Place(sev[1].id)].st = "ESTABLISHED"]
  <2>1. Head(sev) = sev[1]
    BY <1>0, HxSevTail
  <2> QED
    BY <1>0, <2>1, HxSevTail, HxEntries DEF X!ScmListEvent
<1>2. PICK n : n = Len(list)
  OBVIOUS
<1>3. n \in Nat /\ n > 0 /\ sev[1].id = list[n].id /\ list[n].st = "CONNECT_REQ_PROC"
  BY <1>1, <1>2, HxEntries DEF HxSev, HxRequest
<1>4. n \in 1 .. Len(list) /\ X!Place(sev[1].id) = n
  BY <1>2, <1>3, HxPlace
<1>5. HxMarked(list, list', n, "ESTABLISHED")
  BY <1>1, <1>4, HxMark DEF HxTypes, HxStates
<1>6. /\ Len(list') = n /\ list' \in Seq(HxRec)
      /\ \A k \in 1 .. n : list'[k].id = list[k].id
      /\ \A k \in 1 .. n : k < n => list'[k].st = list[k].st
      /\ list'[n].st = "ESTABLISHED"
  BY <1>2, <1>4, <1>5 DEF HxMarked
<1>7. \A k \in 1 .. n : k < n => list[k].st \notin HxPending
  BY <1>2 DEF HxList
<1>8. \A k \in 1 .. n : list'[k].st \notin HxPending
  BY <1>3, <1>6, <1>7 DEF HxPending
<1>9. HxTypes'
  BY <1>0, <1>1, <1>2, <1>6 DEF HxTypes
<1>10. HxList'
  <2>1. /\ "ESTABLISHED" \notin HxReady /\ "ESTABLISHED" \notin HxDone
        /\ list[n].st \notin HxReady /\ list[n].st \notin HxDone
    BY <1>3 DEF HxReady, HxDone
  <2>2. \A i, j \in 1 .. n : i < j => list'[i].id < list'[j].id
    BY <1>2, <1>6 DEF HxList
  <2>3. \A i \in 1 .. n : i < n => list'[i].st \notin HxPending
    BY <1>8
  <2>4. \A i, j \in 1 .. n : i < j /\ list'[j].st \in HxReady => list'[i].st \in HxReady
    BY <1>2, <1>3, <1>6, <2>1 DEF HxList
  <2>5. \A k \in 1 .. n : list'[k].st \in HxDone <=> k <= qp_cfg_cnt
    BY <1>2, <1>3, <1>6, <2>1 DEF HxList
  <2>6. \A k \in 1 .. n : k < est.pos => list'[k].st \in HxReady
    BY <1>2, <1>3, <1>6, <2>1 DEF HxList
  <2> QED
    BY <1>0, <1>2, <1>6, <2>2, <2>3, <2>4, <2>5, <2>6 DEF HxList
<1>11. HxLock'
  <2>1. est.pc # "in" /\ smain.pc \notin {"walk", "poll"}
    BY <1>0 DEF HxLock
  <2> QED
    BY <1>0, <2>1 DEF HxLock
<1>12. HxSev'
  <2> SUFFICES ASSUME NEW k \in 1 .. Len(sev')
               PROVE  HxRequest(k)' \/ (sev'[k].event = "DISCONNECTED" /\ calive' = FALSE)
    BY DEF HxSev
  <2>1. sev'[k] = sev[k + 1] /\ k + 1 \in 1 .. Len(sev) /\ k + 1 > 1 /\ k \in Nat
    BY <1>1
  <2>2. CASE HxRequest(k + 1)
    <3>1. /\ sev'[k].event = "CONNECT_REQUEST" /\ sev'[k].id = cmain.i /\ HxOpen
          /\ calive = TRUE /\ \A j \in 1 .. n : list[j].id < sev'[k].id
      BY <1>2, <2>1, <2>2 DEF HxRequest
    <3>2. k + 1 = Len(sev) /\ k + 1 <= 2
      BY <2>2 DEF HxRequest
    <3>3. k = Len(sev') /\ k = 1
      BY <1>1, <2>1, <3>2
    <3>4. HxOpen'
      BY <1>0, <3>1 DEF HxOpen
    <3>5. \A j \in 1 .. Len(list') : list'[j].id < sev'[k].id /\ list'[j].st \notin HxPending
      BY <1>6, <1>8, <3>1
    <3>6. k <= 2 /\ ~(k = 2)
      BY <3>3
    <3> QED
      BY <1>0, <3>1, <3>3, <3>4, <3>5, <3>6 DEF HxRequest
  <2>3. CASE ~HxRequest(k + 1)
    BY <1>0, <2>1, <2>3 DEF HxSev
  <2> QED
    BY <2>2, <2>3
<1>13. HxCev'
  <2>1. Len(sev) # 0
    BY <1>1
  <2> QED
    BY <1>0, <2>1 DEF HxCev
<1>14. HxClient'
  <2>1. \A k \in 1 .. n : list'[k].st \notin {"CONNECT_REQ", "CONNECT_REQ_PROC"}
    BY <1>8 DEF HxPending
  <2>2. HxOpen' <=> HxOpen
    BY <1>0 DEF HxOpen
  <2> QED
    BY <1>0, <1>2, <1>6, <2>1, <2>2 DEF HxClient
<1>15. HxQps' /\ HxExchange' /\ HxMemory' /\ HxBuffers' /\ HxCount'
  BY <1>0, <1>1, <1>3, <1>4, <1>5, HxMarkKeeps
<1> QED
  BY <1>9, <1>10, <1>11, <1>12, <1>13, <1>14, <1>15

\* A disconnection that is not the last one is counted.
LEMMA HxScmDisconnects ==
    ASSUME HxOK, HxEngine, HxInv, X!ScmDisconnected, salive'
    PROVE  HxInv'
<1> USE DEF HxInv, HxServer, HxEvents
<1>0. /\ UNCHANGED <<list, cm_list_lock, est, smain, qp_cfg_cnt, hwqp, smem, pa, blind, drv, s2c, c2s,
                     calive, cb, cmain, cdata, cev, done_cnt, cmem, chunk>>
      /\ sev # << >> /\ sev' = Tail(sev) /\ Head(sev).event = "DISCONNECTED"
  BY DEF X!ScmDisconnected, X!ServerExit, X!clientVars
<1>1. /\ sev' \in Seq(HxEvent) /\ Len(sev') = Len(sev) - 1 /\ Len(sev) >= 1 /\ HxFewer
      /\ Len(sev) \in Nat /\ \A k \in 1 .. Len(sev') : sev'[k] = sev[k + 1]
      /\ sev[1].event = "DISCONNECTED"
  BY <1>0, HxSevTail, HxEntries
<1>2. calive = FALSE
  BY <1>1 DEF HxSev, HxRequest
<1>3. HxTypes'
  BY <1>0, <1>1 DEF HxTypes
<1>4. \A k \in 1 .. Len(sev') : sev'[k].event = "DISCONNECTED"
  <2> SUFFICES ASSUME NEW k \in 1 .. Len(sev')
               PROVE  sev'[k].event = "DISCONNECTED"
    OBVIOUS
  <2>1. sev'[k] = sev[k + 1] /\ k + 1 \in 1 .. Len(sev) /\ k + 1 # 1
    BY <1>1
  <2> QED
    BY <1>2, <2>1 DEF HxSev, HxRequest
<1>5. HxSev'
  BY <1>0, <1>2, <1>4 DEF HxSev
<1>6. HxCev'
  <2>1. cmain.pc = "wait"
    BY <1>2 DEF HxClient
  <2> QED
    BY <1>0, <2>1 DEF HxCev, HxOpen
<1>7. HxClient'
  <2>1. HxOpen' <=> HxOpen
    BY <1>0 DEF HxOpen
  <2>2. \A k \in 1 .. Len(list) : list[k].st = "CONNECT_REQ_PROC" => HxOpen /\ list[k].id = cmain.i
    BY <1>1 DEF HxClient
  <2> QED
    BY <1>0, <2>1, <2>2 DEF HxClient
<1>8. HxCount'
  BY <1>0, <1>4 DEF HxCount, HxMade
<1>9. HxBuffers'
  BY <1>0, <1>2 DEF HxBuffers
<1> QED
  BY <1>0, <1>3, <1>5, <1>6, <1>7, <1>8, <1>9, HxKeep

\* There are no more connections than QPs the client has made.
LEMMA HxLength ==
    ASSUME HxOK, HxInv
    PROVE  Len(list) <= ClientQps /\ HxMade \in Nat /\ HxMade <= ClientQps
<1> USE DEF HxInv, HxServer, HxEvents
<1>1. cmain.i \in 1 .. ClientQps + 1 /\ ClientQps \in Nat /\ done_cnt \in Nat
  BY DEF HxTypes, HxOK
<1>2. cmain.pc = "connect" => cmain.i # ClientQps + 1
  BY DEF HxClient
<1>3. HxMade \in Nat /\ HxMade <= ClientQps
  BY <1>1, <1>2 DEF HxMade
<1>4. PICK n : n = Len(list)
  OBVIOUS
<1>5. n \in Nat /\ 2 * n + done_cnt <= 2 * HxMade
  BY <1>4, HxEntries DEF HxCount
<1>6. n <= ClientQps
  BY <1>1, <1>3, <1>5
<1> QED
  BY <1>3, <1>4, <1>6

\* The core gives a QP that is free, and the lowest of them.
LEMMA HxFree ==
    ASSUME HxOK, X!Free # {}
    PROVE  X!LowestFree \in X!Free /\ \A p \in X!Free : X!LowestFree <= p
<1>1. X!Free \subseteq Nat
  BY DEF X!Free, X!Hw
<1>2. \E q \in X!Free : \A p \in X!Free : q <= p
  BY <1>1, LeastElement
<1> QED
  BY <1>2 DEF X!LowestFree

\* Where no other program holds any, the one it gives to the last request is that
\* of its place.
LEMMA HxLowest ==
    ASSUME HxOK, HxInv, Taken = {}, X!Free # {},
           NEW n, n = Len(list), n > 0, list[n].st = "CONNECT_REQ"
    PROVE  X!LowestFree = n
<1> USE DEF HxInv, HxServer, HxEvents
<1>1. PICK q : q = X!LowestFree
  OBVIOUS
<1>2. q \in X!Free /\ \A p \in X!Free : q <= p
  BY <1>1, HxFree
<1>3. q \in X!Hw /\ \A id \in X!Ids : hwqp[id] # q
  BY <1>2 DEF X!Free
<1>4. n \in Nat /\ q \in Nat /\ q >= 1 /\ q <= NumQp /\ NumQp \in Nat
  BY <1>3, HxEntries DEF X!Hw, HxOK
<1>5. ~(q < n)
  <2> SUFFICES ASSUME q < n
               PROVE  FALSE
    OBVIOUS
  <2>1. q \in 1 .. Len(list) /\ q < Len(list) /\ q <= Len(list)
    BY <1>4
  <2>2. list[q].st # "CONNECT_REQ"
    BY <2>1 DEF HxList, HxPending
  <2>3. list[q].id \in X!Ids
    BY <2>1, HxEntries
  <2>4. hwqp[list[q].id] = q
    BY <1>3, <2>1, <2>2, <2>3 DEF HxQps
  <2> QED
    BY <1>3, <2>3, <2>4
<1>6. ~(n < q)
  <2> SUFFICES ASSUME n < q
               PROVE  FALSE
    OBVIOUS
  <2>1. n \in X!Hw
    BY <1>4 DEF X!Hw
  <2>2. \A id \in X!Ids : hwqp[id] # n
    BY <2>1 DEF HxQps
  <2>3. n \in X!Free
    BY <2>1, <2>2 DEF X!Free
  <2> QED
    BY <1>2, <1>4, <2>3
<1> QED
  BY <1>1, <1>4, <1>5, <1>6

\* What est_thread's turn at an entry does besides.
HxTurn(n, p) ==
    /\ n = Len(list) /\ p = est.pos /\ n \in Nat /\ p \in 1 .. n
    /\ UNCHANGED <<cm_list_lock, smain, qp_cfg_cnt, pa, blind, drv, s2c, c2s, sev, calive, cb, cmain,
                   cdata, done_cnt, cmem, chunk>>
    /\ est.pc = "in" /\ smain.pc \notin {"walk", "poll"}
    /\ est' \in [pc : {"out", "in", "done"}, pos : Nat, i : Nat] /\ est'.pos <= n
    /\ est'.pc = "in" /\ cm_list_lock = "est"
    /\ est'.pos = IF p = n THEN 0 ELSE p + 1

LEMMA HxEstTurn ==
    ASSUME HxOK, HxEngine, HxInv, X!EstVisit
    PROVE  HxTurn(Len(list), est.pos)
<1> USE DEF HxInv, HxServer, HxEvents
<1>1. /\ est \in [pc : {"out", "in", "done"}, pos : Nat, i : Nat] /\ est.pos <= Len(list)
      /\ Len(list) \in Nat
  BY HxEntries DEF HxTypes
<1>2. /\ est.pc = "in" /\ est.pos # 0
      /\ est' = [est EXCEPT !.pos = X!NextPos, !.i = @ + 1]
      /\ UNCHANGED <<cm_list_lock, smain, qp_cfg_cnt, pa, blind, drv, s2c, c2s, sev, calive, cb, cmain,
                     cdata, done_cnt, cmem, chunk>>
  BY DEF X!EstVisit
<1>3. cm_list_lock = "est" /\ smain.pc \notin {"walk", "poll"}
  BY <1>2 DEF HxLock
<1>4. X!NextPos \in Nat /\ X!NextPos <= Len(list)
      /\ X!NextPos = IF est.pos = Len(list) THEN 0 ELSE est.pos + 1
  BY <1>1, <1>2 DEF X!NextPos
<1>5. est' = [pc |-> "in", pos |-> X!NextPos, i |-> est.i + 1]
  BY <1>1, <1>2
<1>6. /\ est' \in [pc : {"out", "in", "done"}, pos : Nat, i : Nat] /\ est'.pc = "in"
      /\ est'.pos = X!NextPos
  <2>1. est.i + 1 \in Nat
    BY <1>1
  <2> QED
    BY <1>4, <1>5, <2>1
<1>7. est.pos \in 1 .. Len(list)
  BY <1>1, <1>2
<1> QED
  BY <1>1, <1>2, <1>3, <1>4, <1>6, <1>7 DEF HxTurn

LEMMA HxEstOther ==
    ASSUME HxOK, HxEngine, HxInv, X!EstVisit,
           list[est.pos].st \notin {"CONNECT_REQ", "ESTABLISHED"}
    PROVE  HxInv'
<1> USE DEF HxInv, HxServer, HxEvents
<1>1. PICK n, p : HxTurn(n, p)
  BY HxEstTurn
<1>2. UNCHANGED <<list, hwqp, cev, smem>>
  BY DEF X!EstVisit
<1>3. HxTypes' /\ HxLock'
  BY <1>1, <1>2 DEF HxTypes, HxLock, HxTurn
<1>4. HxList'
  <2>1. ASSUME NEW k \in 1 .. n, k < est'.pos
        PROVE  list[k].st \in HxReady
    <3>1. p < n /\ (k < p \/ k = p)
      BY <1>1, <2>1 DEF HxTurn
    <3>2. list[p].st \in HxStates /\ list[p].st \notin HxPending
      BY <1>1, <3>1, HxEntries DEF HxList, HxTurn
    <3>3. list[p].st \in HxReady
      BY <1>1, <3>2 DEF HxStates, HxTurn
    <3> QED
      BY <1>1, <3>1, <3>3 DEF HxList, HxTurn
  <2> QED
    BY <1>1, <1>2, <2>1 DEF HxList, HxTurn
<1> QED
  BY <1>1, <1>2, <1>3, <1>4, HxKeep DEF HxTurn

LEMMA HxEstReady ==
    ASSUME HxOK, HxEngine, HxInv, X!EstVisit, list[est.pos].st = "ESTABLISHED"
    PROVE  HxInv'
<1> USE DEF HxInv, HxServer, HxEvents
<1>1. PICK n, p : HxTurn(n, p)
  BY HxEstTurn
<1>2. /\ UNCHANGED <<hwqp, cev>> /\ list' = [list EXCEPT ![p].st = "READY"]
      /\ smem' = smem \cup {<<"send", list[p].id>>} /\ list[p].st = "ESTABLISHED"
  BY <1>1 DEF X!EstVisit, X!rping_setup_wr, HxTurn
<1>3. HxMarked(list, list', p, "READY")
  BY <1>1, <1>2, HxMark DEF HxTypes, HxStates, HxReady, HxTurn
<1>4. /\ n \in Nat /\ p \in 1 .. n /\ Len(list) = n /\ Len(list') = n /\ list' \in Seq(HxRec)
      /\ \A k \in 1 .. n : list'[k].id = list[k].id
      /\ \A k \in 1 .. n : k # p => list'[k].st = list[k].st
      /\ list'[p].st = "READY"
  BY <1>1, <1>3 DEF HxMarked, HxTurn
<1>5. HxTypes'
  BY <1>1, <1>2, <1>4 DEF HxTypes, HxTurn
<1>6. HxList'
  <2>1. /\ "READY" \in HxReady /\ "READY" \notin HxDone /\ "READY" \notin HxPending
        /\ "ESTABLISHED" \notin HxReady /\ "ESTABLISHED" \notin HxDone
    BY DEF HxReady, HxDone, HxPending
  <2>2. est.pos = p /\ est'.pos = IF p = n THEN 0 ELSE p + 1
    BY <1>1 DEF HxTurn
  <2>3. \A k \in 1 .. n : k < p => list'[k].st \in HxReady
    BY <1>4, <2>2 DEF HxList
  <2>4. \A i, j \in 1 .. n : i < j => list'[i].id < list'[j].id
    BY <1>4 DEF HxList
  <2>5. \A i \in 1 .. n : i < n => list'[i].st \notin HxPending
    BY <1>4, <2>1 DEF HxList
  <2>6. \A i, j \in 1 .. n : i < j /\ list'[j].st \in HxReady => list'[i].st \in HxReady
    BY <1>4, <2>1, <2>3 DEF HxList
  <2>7. \A k \in 1 .. n : list'[k].st \in HxDone <=> k <= qp_cfg_cnt
    BY <1>2, <1>4, <2>1 DEF HxList
  <2>8. \A k \in 1 .. n : k < est'.pos => list'[k].st \in HxReady
    BY <1>4, <2>1, <2>2, <2>3
  <2>9. UNCHANGED qp_cfg_cnt
    BY <1>1 DEF HxTurn
  <2> QED
    BY <1>4, <2>4, <2>5, <2>6, <2>7, <2>8, <2>9 DEF HxList
<1>7. HxLock'
  BY <1>1 DEF HxLock, HxTurn
<1>8. UNCHANGED <<sev, calive, cb, cmain, cev, done_cnt>>
  BY <1>1, <1>2 DEF HxTurn
<1>9. HxSev' /\ HxCev' /\ HxClient'
  BY <1>2, <1>3, <1>4, <1>8, HxMarkEvents DEF HxPending
<1>13. HxMemory'
  BY <1>1, <1>2, <1>4 DEF HxMemory, HxTurn
<1>14. HxFewer
  BY <1>8, HxEntries DEF HxFewer
<1>15. HxQps' /\ HxExchange' /\ HxBuffers' /\ HxCount'
  BY <1>1, <1>2, <1>3, <1>4, <1>14, HxMarkKeeps DEF HxTurn
<1> QED
  BY <1>5, <1>6, <1>7, <1>9, <1>13, <1>15

\* A request is accepted: it is the last one, its QP is the next one, and the
\* client is waiting for nothing but the answer.
LEMMA HxEstAccept ==
    ASSUME HxOK, HxEngine, HxInv, X!EstVisit, list[est.pos].st = "CONNECT_REQ"
    PROVE  HxInv'
<1> USE DEF HxInv, HxServer, HxEvents
<1>1. PICK n, p : HxTurn(n, p)
  BY HxEstTurn
<1>2. /\ UNCHANGED smem /\ list' = [list EXCEPT ![p].st = "CONNECT_REQ_PROC"]
      /\ hwqp' = [hwqp EXCEPT ![list[p].id] = X!LowestFree]
      /\ cev' = (IF calive THEN Append(cev, X!Event("ESTABLISHED", list[p].id)) ELSE cev)
      /\ list[p].st = "CONNECT_REQ" /\ X!Free # {}
  BY <1>1 DEF X!EstVisit, X!app_req_regions, HxTurn
<1>3. p = n /\ n \in Nat /\ n > 0 /\ n \in 1 .. n /\ n = Len(list) /\ est'.pos = 0
  BY <1>1, <1>2 DEF HxTurn, HxList, HxPending
<1>4. HxMarked(list, list', n, "CONNECT_REQ_PROC")
  BY <1>2, <1>3, HxMark DEF HxTypes, HxStates, HxPending
<1>5. /\ Len(list') = n /\ list' \in Seq(HxRec)
      /\ \A k \in 1 .. n : list'[k].id = list[k].id
      /\ \A k \in 1 .. n : k # n => list'[k].st = list[k].st
      /\ list'[n].st = "CONNECT_REQ_PROC"
  BY <1>3, <1>4 DEF HxMarked
<1>6. PICK id : id = list[n].id
  OBVIOUS
<1>7. id \in X!Ids /\ HxOpen /\ id = cmain.i /\ cmain.pc = "connect"
  BY <1>2, <1>3, <1>6, HxEntries DEF HxClient, HxOpen
<1>8. calive = TRUE
  BY <1>7 DEF HxClient, HxTypes
<1>9. UNCHANGED <<sev, calive, cb, cmain, done_cnt>> /\ (HxOpen' <=> HxOpen)
  BY <1>1 DEF HxTurn, HxOpen
<1>10. Len(sev) = 0 /\ Len(sev') = 0
  <2>1. \A k \in 1 .. Len(sev) : FALSE
    <3> SUFFICES ASSUME NEW k \in 1 .. Len(sev)
                 PROVE  FALSE
      OBVIOUS
    <3>0. Len(sev) \in Nat
      BY HxEntries
    <3>1. ~(sev[k].event = "ESTABLISHED" /\ k = 1) /\ ~(sev[1].event = "ESTABLISHED")
      <4>1. 1 \in 1 .. Len(sev)
        BY <3>0
      <4> QED
        BY <4>1, <1>2, <1>3 DEF HxSev, HxRequest
    <3>2. HxRequest(k)
      BY <1>8, <3>1 DEF HxSev
    <3>3. k = 1
      BY <3>1, <3>2 DEF HxRequest
    <3> QED
      BY <1>2, <1>3, <3>2, <3>3 DEF HxRequest, HxPending
  <2>2. Len(sev) \in Nat
    BY HxEntries
  <2> QED
    BY <1>9, <2>1, <2>2
<1>11. Len(cev) = 0
  <2>0. PICK m : m = Len(cev)
    OBVIOUS
  <2>1. m \in Nat /\ m <= 1
    BY <2>0, HxEntries DEF HxCev
  <2>2. m # 1
    BY <1>2, <1>3, <1>7, <2>0 DEF HxCev
  <2> QED
    BY <2>0, <2>1, <2>2
<1>12. cev' \in Seq(HxEvent) /\ Len(cev') = 1 /\ cev'[1].id = id
       /\ cev'[1].event = "ESTABLISHED"
  <2>1. PICK ev : ev = [event |-> "ESTABLISHED", id |-> id]
    OBVIOUS
  <2>2. ev \in HxEvent /\ ev.event = "ESTABLISHED" /\ ev.id = id
    BY <1>7, <2>1 DEF HxEvent
  <2>3. cev' = Append(cev, ev)
    BY <1>2, <1>3, <1>6, <1>8, <2>1 DEF X!Event
  <2>4. cev' \in Seq(HxEvent) /\ Len(cev') = Len(cev) + 1 /\ cev'[Len(cev) + 1] = ev
    BY <2>2, <2>3 DEF HxTypes
  <2> QED
    BY <1>11, <2>2, <2>4
<1>13. PICK f : f = X!LowestFree /\ f \in 1 .. NumQp /\ (Taken = {} => f = n)
  <2>1. X!LowestFree \in 1 .. NumQp
    BY <1>2, HxFree DEF X!Free, X!Hw
  <2>2. Taken = {} => X!LowestFree = n
    BY <1>2, <1>3, HxLowest
  <2> QED
    BY <2>1, <2>2
<1>14. hwqp' \in [X!Ids -> 0 .. NumQp] /\ hwqp'[id] = f
       /\ \A j \in X!Ids : j # id => hwqp'[j] = hwqp[j]
  <2>1. f \in 0 .. NumQp
    BY <1>13 DEF HxOK
  <2> QED
    BY <2>1, <1>2, <1>3, <1>6, <1>7, <1>13 DEF HxTypes
<1>15. HxTypes'
  BY <1>1, <1>2, <1>5, <1>12, <1>14 DEF HxTypes, HxTurn
<1>16. HxList'
  <2>1. /\ "CONNECT_REQ_PROC" \notin HxReady /\ "CONNECT_REQ_PROC" \notin HxDone
        /\ list[n].st \notin HxReady /\ list[n].st \notin HxDone
    BY <1>2, <1>3 DEF HxReady, HxDone
  <2>2. \A i, j \in 1 .. n : i < j => list'[i].id < list'[j].id
    BY <1>3, <1>5 DEF HxList
  <2>3. \A i \in 1 .. n : i < n => list'[i].st \notin HxPending
    BY <1>3, <1>5 DEF HxList
  <2>4. \A i, j \in 1 .. n : i < j /\ list'[j].st \in HxReady => list'[i].st \in HxReady
    BY <1>3, <1>5, <2>1 DEF HxList
  <2>5. \A k \in 1 .. n : list'[k].st \in HxDone <=> k <= qp_cfg_cnt
    BY <1>3, <1>5, <2>1 DEF HxList
  <2>6. \A k \in 1 .. n : ~(k < est'.pos)
    BY <1>3
  <2>7. UNCHANGED qp_cfg_cnt
    BY <1>1 DEF HxTurn
  <2> QED
    BY <1>3, <1>5, <2>2, <2>3, <2>4, <2>5, <2>6, <2>7 DEF HxList
<1>17. HxQps'
  <2> SUFFICES ASSUME Taken = {}, NEW j \in X!Ids, NEW q \in X!Hw
               PROVE  hwqp'[j] = q <=> q <= n /\ list'[q].id = j /\ list'[q].st # "CONNECT_REQ"
    BY <1>5 DEF HxQps
  <2>0. q \in Nat /\ q >= 1 /\ (q <= n => q \in 1 .. n)
    BY <1>3 DEF X!Hw
  <2>1. hwqp[j] = q <=> q <= n /\ list[q].id = j /\ list[q].st # "CONNECT_REQ"
    BY <1>3 DEF HxQps
  <2>2. \A k \in 1 .. n : list[k].id = id => k = n
    BY <1>3, <1>6, HxPlace
  <2>3. CASE j = id
    BY <1>5, <1>6, <1>13, <1>14, <1>3, <2>0, <2>2, <2>3
  <2>4. CASE j # id
    BY <1>5, <1>6, <1>14, <1>3, <2>0, <2>1, <2>4
  <2> QED
    BY <2>3, <2>4
<1>18. HxLock'
  BY <1>1 DEF HxLock, HxTurn
<1>19. HxSev'
  BY <1>10 DEF HxSev
<1>20. HxCev'
  <2>1. list'[n].id = cmain.i
    BY <1>3, <1>5, <1>6, <1>7
  <2>2. Len(cev') <= 1
    BY <1>12
  <2> QED
    BY <1>3, <1>5, <1>7, <1>9, <1>10, <1>12, <2>1, <2>2 DEF HxCev
<1>21. HxClient'
  <2>1. \A k \in 1 .. n : list'[k].st \in {"CONNECT_REQ", "CONNECT_REQ_PROC"} => k = n
    BY <1>3, <1>5 DEF HxList, HxPending
  <2> QED
    BY <1>3, <1>5, <1>6, <1>7, <1>9, <2>1, ZenonT(30) DEF HxClient
<1>22. HxFewer
  BY <1>9, HxEntries DEF HxFewer
<1>23. HxExchange' /\ HxMemory' /\ HxBuffers' /\ HxCount'
  BY <1>1, <1>2, <1>3, <1>4, <1>22, HxMarkKeeps DEF HxTurn
<1> QED
  BY <1>15, <1>16, <1>17, <1>18, <1>19, <1>20, <1>21, <1>23

\* The next connection of the list is configured.
LEMMA HxMainConfigured ==
    ASSUME HxOK, HxEngine, HxInv, X!MainConfigures
    PROVE  HxInv'
<1> USE DEF HxInv, HxServer, HxEvents
<1>1. PICK n, p, c, id : n = Len(list) /\ p = smain.pos /\ c = qp_cfg_cnt /\ id = list[p].id
  OBVIOUS
<1>2. /\ n \in Nat /\ p \in Nat /\ c \in Nat /\ p >= 1 /\ p <= n /\ list[p].st = "READY"
      /\ smain.pc = "poll" /\ smain \in [pc : HxPcs, pos : Nat] /\ c < qp_cnt
      /\ cm_list_lock = "main" /\ est.pc # "in" /\ p \in 1 .. n /\ HxShape(drv)
      /\ \A k \in 1 .. n : k < p => list[k].st # "READY"
  <2>1. smain.pc = "poll" /\ smain \in [pc : HxPcs, pos : Nat] /\ c \in Nat /\ n \in Nat
    BY <1>1, HxEntries DEF X!MainConfigures, HxEngine
  <2> QED
    BY <1>1, <2>1 DEF HxLock, HxEngine
<1>3. p = c + 1
  <2>1. "READY" \in HxReady /\ "READY" \notin HxDone
    BY DEF HxReady, HxDone
  <2>2. \A k \in 1 .. n : k < p => list[k].st \in HxReady
    BY <1>1, <1>2, <2>1 DEF HxList
  <2>3. \A k \in 1 .. n : k < p => list[k].st \in HxDone
    BY <1>2, <2>2 DEF HxReady
  <2>4. ~(p <= c)
    BY <1>1, <1>2, <2>1 DEF HxList
  <2>5. p > 1 => p - 1 <= c
    BY <1>1, <1>2, <2>3 DEF HxList
  <2> QED
    BY <1>2, <2>4, <2>5
<1>4. /\ UNCHANGED <<sev, est, hwqp, blind, s2c, c2s, calive, cb, cmain, cdata, cev, done_cnt,
                     cmem, chunk>>
      /\ id \in c2s \cup blind /\ qp_cfg_cnt' = c + 1
      /\ drv' = X!hw_hs_qp_cfg(X!QpNum(id), id)
  BY <1>1 DEF X!MainConfigures, X!clientVars, X!rdmatest_poll_cq
<1>5. id \in X!Ids /\ id \in 1 .. ClientQps /\ X!QpNum(id) = p
  BY <1>1, <1>2, HxPlace, HxEntries DEF X!QpNum, X!Ids
<1>6. PICK x : x = IF reuse_buf /\ pa # X!NONE THEN pa ELSE id
  OBVIOUS
<1>7. x \in 0 .. ClientQps /\ x \in Nat
  BY <1>5, <1>6 DEF HxTypes, HxOK
<1>8. drv'.eng = [drv.eng EXCEPT ![p] = id] /\ drv'.data = [drv.data EXCEPT ![p] = x]
  <2>1. drv' = HxSet(drv, p, id, x)
    BY <1>4, <1>5, <1>6 DEF X!hw_hs_qp_cfg, HxSet
  <2>2. HxOneMore(drv, drv', p, id, x)
    BY <1>2, <2>1, HxConfigured
  <2> QED
    BY <2>2 DEF HxOneMore
<1>9. /\ drv'.eng \in [1 .. qp_cnt -> Nat] /\ drv'.data \in [1 .. qp_cnt -> Nat]
      /\ drv'.eng[p] = id /\ drv'.data[p] = x
      /\ \A k \in 1 .. qp_cnt : k # p => drv'.eng[k] = drv.eng[k] /\ drv'.data[k] = drv.data[k]
  <2>1. p \in 1 .. qp_cnt /\ id \in Nat
    BY <1>2, <1>3, <1>5 DEF HxOK
  <2>2. drv.eng \in [1 .. qp_cnt -> Nat] /\ drv.data \in [1 .. qp_cnt -> Nat]
    BY DEF HxTypes
  <2> QED
    BY <1>7, <1>8, <2>1, <2>2
<1>10. /\ pa' = x /\ <<"sq", id>> \in smem' /\ smem \subseteq smem'
       /\ <<"rdma", x>> \in smem'
  <2>1. smem' = smem \cup {<<"sq", id>>}
                    \cup (IF reuse_buf /\ pa # X!NONE THEN {} ELSE {<<"rdma", id>>})
    BY <1>1 DEF X!MainConfigures
  <2>2. pa' = x
    BY <1>1, <1>6 DEF X!MainConfigures
  <2>3. CASE reuse_buf /\ pa # X!NONE
    BY <1>6, <2>1, <2>2, <2>3 DEF HxMemory
  <2>4. CASE ~(reuse_buf /\ pa # X!NONE)
    BY <1>6, <2>1, <2>2, <2>4
  <2> QED
    BY <2>3, <2>4
<1>11. PICK v : v \in HxDone /\ list' = [list EXCEPT ![p].st = v]
  BY <1>1 DEF X!MainConfigures, HxDone
<1>12. v \in HxStates /\ v \in HxReady /\ v \notin HxPending /\ v # "READY" /\ v # "CONNECT_REQ"
  BY <1>11 DEF HxStates, HxReady, HxDone, HxPending
<1>13. HxMarked(list, list', p, v)
  BY <1>1, <1>2, <1>11, <1>12, HxMark DEF HxTypes
<1>14. /\ Len(list') = n /\ list' \in Seq(HxRec)
       /\ \A k \in 1 .. n : list'[k].id = list[k].id
       /\ \A k \in 1 .. n : k # p => list'[k].st = list[k].st
       /\ list'[p].st = v
  BY <1>1, <1>2, <1>13, SMTT(20) DEF HxMarked
<1>15. HxTypes'
  BY <1>1, <1>4, <1>7, <1>9, <1>10, <1>14, ZenonT(30) DEF HxTypes
<1>16. HxList'
  <2>1. "READY" \in HxReady /\ "READY" \notin HxDone /\ "READY" \notin HxPending
    BY DEF HxReady, HxDone, HxPending
  <2>2. \A i, j \in 1 .. n : i < j => list'[i].id < list'[j].id
    BY <1>1, <1>14 DEF HxList
  <2>3. \A i \in 1 .. n : i < n => list'[i].st \notin HxPending
    BY <1>1, <1>12, <1>14 DEF HxList
  <2>4. \A i, j \in 1 .. n : i < j /\ list'[j].st \in HxReady => list'[i].st \in HxReady
    BY <1>1, <1>2, <1>12, <1>14, <2>1 DEF HxList
  <2>5. \A k \in 1 .. n : list'[k].st \in HxDone <=> k <= c + 1
    BY <1>1, <1>2, <1>3, <1>11, <1>14 DEF HxList
  <2>6. \A k \in 1 .. n : k < est.pos => list'[k].st \in HxReady
    BY <1>1, <1>12, <1>14 DEF HxList
  <2>7. c + 1 <= n
    BY <1>2, <1>3
  <2> QED
    BY <1>4, <1>14, <2>2, <2>3, <2>4, <2>5, <2>6, <2>7 DEF HxList
<1>17. HxLock'
  <2>0. \A k \in 1 .. n : k < p + 1 => list'[k].st # "READY"
    BY <1>2, <1>12, <1>14
  <2>1. \/ /\ c + 1 >= qp_cnt /\ smain' = [pc |-> "enable", pos |-> 0]
        \/ /\ ~(c + 1 >= qp_cnt) /\ smain' = [pc |-> "walk", pos |-> p + 1]
           /\ cm_list_lock' = cm_list_lock
    BY <1>1 DEF X!MainConfigures, X!AllConfigured
  <2>2. est'.pc # "in" /\ qp_cnt \in Nat
    BY <1>2, <1>4 DEF HxOK
  <2>3. CASE /\ c + 1 >= qp_cnt /\ smain' = [pc |-> "enable", pos |-> 0]
    <3>1. smain'.pc = "enable" /\ qp_cfg_cnt' = qp_cnt
      BY <1>2, <1>4, <2>2, <2>3
    <3> QED
      BY <2>2, <3>1 DEF HxLock
  <2>4. CASE /\ ~(c + 1 >= qp_cnt) /\ smain' = [pc |-> "walk", pos |-> p + 1]
             /\ cm_list_lock' = cm_list_lock
    <3>1. smain'.pc = "walk" /\ smain'.pos = p + 1 /\ p + 1 >= 1 /\ qp_cfg_cnt' < qp_cnt
          /\ cm_list_lock' = "main"
      BY <1>2, <1>4, <2>2, <2>4
    <3> QED
      BY <1>14, <2>0, <2>2, <3>1 DEF HxLock
  <2> QED
    BY <2>1, <2>3, <2>4
<1>18. HxSev' /\ HxCev' /\ HxClient'
  BY <1>1, <1>2, <1>4, <1>12, <1>13, HxMarkEvents DEF HxPending
<1>19. HxExchange'
  <2>1. blind = {} => \A j \in s2c : j \in c2s
    BY <1>1, <1>4 DEF HxExchange, HxExchanged
  <2>2. blind = {} => \A k \in 1 .. n : k <= c + 1 => list[k].id \in c2s
    BY <1>1, <1>2, <1>3, <1>4 DEF HxExchange, HxExchanged
  <2> QED
    BY <1>4, <1>14, <2>1, <2>2 DEF HxExchange, HxExchanged
<1>20. HxMemory'
  <2>1. ASSUME NEW k \in 1 .. n, k <= c + 1
        PROVE  /\ drv'.eng[k] = list'[k].id /\ <<"sq", list'[k].id>> \in smem'
               /\ <<"rdma", drv'.data[k]>> \in smem'
    <3>1. CASE k = p
      BY <1>1, <1>9, <1>10, <1>14, <3>1
    <3>2. CASE k # p
      <4>1. k <= c /\ k \in 1 .. qp_cnt
        BY <1>2, <1>3, <2>1, <3>2 DEF HxOK
      <4>2. /\ drv.eng[k] = list[k].id /\ <<"sq", list[k].id>> \in smem
            /\ <<"rdma", drv.data[k]>> \in smem
        BY <1>1, <4>1 DEF HxMemory
      <4> QED
        BY <1>9, <1>10, <1>14, <3>2, <4>1, <4>2
    <3> QED
      BY <3>1, <3>2
  <2> QED
    BY <1>4, <1>10, <1>14, <2>1 DEF HxMemory
<1>21. HxFewer
  BY <1>4, HxEntries DEF HxFewer
<1>22. HxQps' /\ HxBuffers' /\ HxCount'
  BY <1>1, <1>2, <1>4, <1>12, <1>13, <1>21, HxMarkKeeps
<1> QED
  BY <1>15, <1>16, <1>17, <1>18, <1>19, <1>20, <1>22
-----------------------------------------------------------------------------
(* The steps of the client. *)

\* What the client does not touch, and what it says of itself.
HxServerRests ==
    UNCHANGED <<list, cm_list_lock, est, smain, qp_cfg_cnt, hwqp, smem, pa, blind, drv, s2c>>

LEMMA HxAt ==
    ASSUME HxOK, HxInv
    PROVE  /\ cmain \in [pc : {"create", "bind", "connect", "wait"}, i : 1 .. ClientQps + 1]
           /\ cmain.i \in Nat /\ cmain.i >= 1 /\ cmain.i <= ClientQps + 1 /\ ClientQps \in Nat
           /\ cmain.pc # "wait" => cmain.i \in X!Ids /\ cmain.i <= ClientQps /\ calive = TRUE
           /\ cb \in [X!Ids -> HxCb] /\ cev \in Seq(HxEvent) /\ sev \in Seq(HxEvent)
           /\ \A id \in X!Ids : cb[id].sem \in Nat
<1> USE DEF HxInv, HxServer, HxEvents
<1>1. /\ cmain \in [pc : {"create", "bind", "connect", "wait"}, i : 1 .. ClientQps + 1]
      /\ cb \in [X!Ids -> HxCb] /\ cev \in Seq(HxEvent) /\ sev \in Seq(HxEvent)
      /\ calive \in BOOLEAN /\ ClientQps \in Nat
  BY DEF HxTypes, HxOK
<1>2. cmain.i \in Nat /\ cmain.i >= 1 /\ cmain.i <= ClientQps + 1
  BY <1>1
<1>3. cmain.pc # "wait" => cmain.i # ClientQps + 1 /\ calive = TRUE
  BY <1>1 DEF HxClient
<1>4. \A id \in X!Ids : cb[id].sem \in Nat
  BY <1>1 DEF HxCb
<1> QED
  BY <1>1, <1>2, <1>3, <1>4 DEF X!Ids

\* While no connection is being set up, the server has no request to answer.
LEMMA HxQuiet ==
    ASSUME HxOK, HxInv, ~HxOpen
    PROVE  /\ \A k \in 1 .. Len(sev) : sev[k].event # "CONNECT_REQUEST"
           /\ \A k \in 1 .. Len(list) :
                 /\ list[k].st # "CONNECT_REQ"
                 /\ list[k].st = "CONNECT_REQ_PROC" => Len(sev) > 0 /\ sev[1].event = "ESTABLISHED"
<1> USE DEF HxInv, HxServer, HxEvents
<1>1. \A k \in 1 .. Len(sev) : sev[k].event # "CONNECT_REQUEST"
  BY DEF HxSev, HxRequest
<1> QED
  BY <1>1 DEF HxClient

LEMMA HxQuietStep ==
    ASSUME HxOK, HxInv, ~HxOpen, ~HxOpen', UNCHANGED <<list, sev, calive>>
    PROVE  HxSev'
<1> USE DEF HxInv, HxServer, HxEvents
<1>1. \A k \in 1 .. Len(sev) : ~HxRequest(k)
  BY HxQuiet DEF HxRequest
<1> QED
  BY <1>1 DEF HxSev

\* At most one event waits for the client.
LEMMA HxCevTail ==
    ASSUME HxOK, HxInv, cev # << >>
    PROVE  Len(cev) = 1 /\ Head(cev) = cev[1] /\ Tail(cev) = << >>
<1> USE DEF HxInv, HxServer, HxEvents
<1>1. PICK n : n = Len(cev)
  OBVIOUS
<1>2. cev \in Seq(HxEvent)
  BY DEF HxTypes
<1>3. n \in Nat /\ n <= 1 /\ n # 0
  BY <1>1, <1>2 DEF HxCev
<1>4. n = 1
  BY <1>3
<1>5. Tail(cev) \in Seq(HxEvent) /\ Len(Tail(cev)) = Len(cev) - 1
  BY <1>2, HeadTailProperties
<1>6. Head(cev) = cev[1]
  BY <1>2
<1>7. PICK t : t = Tail(cev)
  OBVIOUS
<1>8. t \in Seq(HxEvent) /\ Len(t) = 0
  BY <1>1, <1>4, <1>5, <1>7
<1>9. t = << >>
  BY <1>8, EmptySeq
<1> QED
  BY <1>1, <1>4, <1>6, <1>7, <1>9

LEMMA HxNoCev ==
    ASSUME HxOK, HxInv, ~HxOpen, cmain.pc # "bind" \/ cb[cmain.i].sem # 0
    PROVE  Len(cev) = 0 /\ cev = << >>
<1> USE DEF HxInv, HxServer, HxEvents
<1>1. PICK n : n = Len(cev)
  OBVIOUS
<1>2. cev \in Seq(HxEvent)
  BY DEF HxTypes
<1>3. n \in Nat /\ n <= 1
  BY <1>1, <1>2 DEF HxCev
<1>4. n # 1
  BY <1>1 DEF HxCev
<1>5. n = 0
  BY <1>3, <1>4
<1>6. cev = << >>
  BY <1>1, <1>2, <1>5, EmptySeq
<1> QED
  BY <1>1, <1>5, <1>6

LEMMA HxOneEvent ==
    ASSUME NEW e, NEW id, id \in X!Ids, NEW s, s = Append(<< >>, X!Event(e, id)),
           e \in {"CONNECT_REQUEST", "ESTABLISHED", "DISCONNECTED", "ADDR_RESOLVED",
                  "ROUTE_RESOLVED"}
    PROVE  s \in Seq(HxEvent) /\ Len(s) = 1 /\ s[1].event = e /\ s[1].id = id
<1>1. PICK ev : ev = [event |-> e, id |-> id]
  OBVIOUS
<1>2. ev \in HxEvent /\ ev.event = e /\ ev.id = id
  BY <1>1 DEF HxEvent
<1>3. s = Append(<< >>, ev)
  BY <1>1 DEF X!Event
<1>4. s = <<ev>>
  BY <1>3
<1> QED
  BY <1>2, <1>4

\* The client's entry for one QP changes.
HxCbStep(i, r) ==
    /\ r \in HxCb /\ cb' \in [X!Ids -> HxCb] /\ cb'[i] = r
    /\ \A j \in X!Ids : j # i => cb'[j] = cb[j]

LEMMA HxCbOne ==
    ASSUME HxOK, HxInv, NEW i \in X!Ids, NEW r \in HxCb, cb' = [cb EXCEPT ![i] = r]
    PROVE  HxCbStep(i, r)
BY HxAt DEF HxCbStep

\* The steps of main that leave its entry and the events as they are.
LEMMA HxCmainCreates ==
    ASSUME HxOK, HxInv, X!CmainCreate
    PROVE  HxInv'
<1> USE DEF HxInv, HxServer, HxEvents
<1>0. /\ HxServerRests /\ UNCHANGED <<sev, c2s, calive, cb, cdata, done_cnt, cmem, chunk>>
      /\ cmain.pc = "create" /\ cmain' = [cmain EXCEPT !.pc = "bind"]
      /\ cev' = Append(cev, X!Event("ADDR_RESOLVED", cmain.i))
  BY DEF X!CmainCreate, X!ClientAt, X!serverVars, HxServerRests
<1>1. /\ cmain.i \in X!Ids /\ cmain' \in [pc : {"create", "bind", "connect", "wait"},
                                           i : 1 .. ClientQps + 1]
      /\ cmain'.pc = "bind" /\ cmain'.i = cmain.i /\ cmain.i # ClientQps + 1
  BY <1>0, HxAt
<1>2. ~HxOpen /\ ~HxOpen' /\ Len(cev) = 0 /\ cev = << >>
  <2>1. ~HxOpen /\ ~HxOpen'
    BY <1>0, <1>1 DEF HxOpen
  <2> QED
    BY <1>0, <2>1, HxNoCev
<1>3. /\ cev' \in Seq(HxEvent) /\ Len(cev') = 1 /\ cev'[1].event = "ADDR_RESOLVED"
      /\ cev'[1].id = cmain.i
  BY <1>0, <1>1, <1>2, HxOneEvent
<1>4. HxTypes'
  BY <1>0, <1>1, <1>3 DEF HxTypes, HxServerRests
<1>5. HxSev'
  BY <1>0, <1>2, HxQuietStep DEF HxServerRests
<1>6. cb[cmain.i].sem = 0
  BY <1>0, <1>1 DEF HxClient
<1>7. HxCev'
  <2>1. Len(cev') <= 1
    BY <1>3
  <2> QED
    BY <1>0, <1>1, <1>3, <1>6, <2>1 DEF HxCev
<1>8. HxClient'
  <2>1. \A id \in X!Ids : id > cmain.i => cb[id].sem = 0
    BY DEF HxClient
  <2>2. cb[cmain.i].sem <= 1
    BY <1>6
  <2>3. \A k \in 1 .. Len(list) : list[k].id < cmain.i
    BY <1>0 DEF HxClient
  <2>4. calive # FALSE
    BY <1>0, HxAt
  <2> QED
    BY <1>0, <1>1, <1>2, <2>1, <2>2, <2>3, <2>4, HxQuiet DEF HxClient, HxServerRests
<1>9. HxCount'
  <2>1. HxMade' = HxMade
    BY <1>0, <1>1 DEF HxMade
  <2> QED
    BY <1>0, <2>1 DEF HxCount, HxServerRests
<1> QED
  BY <1>0, <1>4, <1>5, <1>7, <1>8, <1>9, HxKeep DEF HxServerRests

LEMMA HxCmainCreateFailed ==
    ASSUME HxOK, HxInv, X!CmainCreateFails
    PROVE  HxInv'
<1> USE DEF HxInv, HxServer, HxEvents
<1>0. /\ HxServerRests /\ UNCHANGED <<sev, c2s, calive, cb, cdata, cev, cmem, chunk>>
      /\ cmain.pc = "create" /\ cmain' = X!NextQp /\ done_cnt' = done_cnt + 2
      /\ "create_id" \in Failures
  BY DEF X!CmainCreateFails, X!ClientAt, X!serverVars, HxServerRests
<1>1. /\ cmain.i \in X!Ids /\ cmain' \in [pc : {"create", "bind", "connect", "wait"},
                                           i : 1 .. ClientQps + 1]
      /\ cmain'.pc \in {"create", "wait"} /\ cmain'.i = cmain.i + 1
      /\ cmain'.pc = "wait" <=> cmain'.i = ClientQps + 1
      /\ cmain.i \in Nat /\ done_cnt \in Nat
  <2>1. /\ cmain.i \in X!Ids /\ cmain.i \in Nat /\ cmain.i >= 1 /\ cmain.i <= ClientQps
        /\ ClientQps \in Nat /\ done_cnt \in Nat
    BY <1>0, HxAt DEF HxTypes
  <2>2. cmain' = [pc |-> IF cmain.i = ClientQps THEN "wait" ELSE "create", i |-> cmain.i + 1]
    BY <1>0 DEF X!NextQp
  <2> QED
    BY <2>1, <2>2
<1>2. ~HxOpen /\ ~HxOpen' /\ Len(cev) = 0 /\ cev = << >>
  <2>1. ~HxOpen /\ ~HxOpen'
    BY <1>0, <1>1 DEF HxOpen
  <2> QED
    BY <1>0, <2>1, HxNoCev
<1>4. HxTypes'
  BY <1>0, <1>1 DEF HxTypes, HxServerRests
<1>5. HxSev'
  BY <1>0, <1>2, HxQuietStep DEF HxServerRests
<1>7. HxCev'
  <2>1. Len(cev') = 0
    BY <1>0, <1>2
  <2> QED
    BY <2>1 DEF HxCev
<1>8. HxClient'
  <2>1. \A id \in X!Ids : id >= cmain.i + 1 => cb[id].sem = 0
    BY <1>1, HxEntries DEF HxClient
  <2>3. \A k \in 1 .. Len(list) : list[k].id < cmain.i + 1
    <3>1. \A k \in 1 .. Len(list) : list[k].id < cmain.i
      BY <1>0 DEF HxClient
    <3>2. \A k \in 1 .. Len(list) : list[k].id \in Nat
      BY HxEntries
    <3> QED
      BY <1>1, <3>1, <3>2
  <2>4. calive # FALSE
    BY <1>0, HxAt
  <2>5. \A id \in X!Ids : id > cmain'.i \/ (id = cmain'.i /\ cmain'.pc = "create")
                             => cb'[id].sem = 0
    BY <1>0, <1>1, <2>1, HxEntries
  <2> QED
    BY <1>0, <1>1, <1>2, <2>3, <2>4, <2>5, HxQuiet DEF HxClient, HxServerRests
<1>9. HxCount'
  <2>1. HxMade' = HxMade + 1 /\ HxMade \in Nat
    BY <1>0, <1>1, HxLength DEF HxMade
  <2>2. \A k \in 1 .. Len(sev) : sev[k].event # "CONNECT_REQUEST"
    BY <1>2, HxQuiet
  <2>3. Len(list) \in Nat /\ 2 * Len(list) + done_cnt <= 2 * HxMade
    BY HxEntries DEF HxCount
  <2>4. 2 * Len(list) + (done_cnt + 2) <= 2 * (HxMade + 1)
    BY <1>1, <2>1, <2>3
  <2> QED
    BY <1>0, <2>1, <2>2, <2>4 DEF HxCount, HxServerRests
<1> QED
  BY <1>0, <1>4, <1>5, <1>7, <1>8, <1>9, HxKeep DEF HxServerRests

\* rdma_connect: the request is the last event on its way to the server.
LEMMA HxCmainConnects ==
    ASSUME HxOK, HxInv, salive, X!CmainConnect
    PROVE  HxInv'
<1> USE DEF HxInv, HxServer, HxEvents
<1>1. PICK i : i = cmain.i
  OBVIOUS
<1>0. /\ HxServerRests /\ UNCHANGED <<c2s, calive, cdata, cev, done_cnt, chunk>>
      /\ cmain.pc = "bind" /\ cb[i].sem > 0 /\ cmain' = [cmain EXCEPT !.pc = "connect"]
      /\ cb' = [cb EXCEPT ![i].sem = @ - 1, ![i].state = "CONNECTING"]
      /\ cmem' = cmem \cup {<<"qp", i>>, <<"send", i>>}
      /\ sev' = Append(sev, X!Event("CONNECT_REQUEST", i))
  BY <1>1 DEF X!CmainConnect, X!ClientAt, X!rping_setup, HxServerRests
<1>2. /\ i \in X!Ids /\ i \in Nat /\ i <= ClientQps /\ calive = TRUE
      /\ cmain' \in [pc : {"create", "bind", "connect", "wait"}, i : 1 .. ClientQps + 1]
      /\ cmain'.pc = "connect" /\ cmain'.i = i /\ i # ClientQps + 1
  BY <1>0, <1>1, HxAt
<1>3. cb[i].sem = 1
  <2>1. cb[i].sem \in Nat /\ cb[i].sem <= 1
    BY <1>0, <1>1, <1>2, HxAt DEF HxClient
  <2> QED
    BY <1>0, <2>1
<1>4. PICK r : r = [cb[i] EXCEPT !.sem = cb[i].sem - 1, !.state = "CONNECTING"]
  OBVIOUS
<1>5. cb[i] \in HxCb
  BY <1>2, HxAt
<1>6. r \in HxCb /\ r.sem = 0 /\ r.state = "CONNECTING" /\ r.test_done = cb[i].test_done
  <2>1. cb[i].sem - 1 = 0
    BY <1>3
  <2>2. r = [cb[i] EXCEPT !.sem = 0, !.state = "CONNECTING"]
    BY <1>4, <2>1
  <2> QED
    BY <1>5, <2>2 DEF HxCb
<1>7. HxCbStep(i, r)
  <2>1. cb' = [cb EXCEPT ![i] = r]
    BY <1>0, <1>2, <1>4, HxAt DEF HxCb
  <2> QED
    BY <1>2, <1>6, <2>1, HxCbOne
<1>8. /\ cb' \in [X!Ids -> HxCb] /\ cb'[i] = r /\ \A j \in X!Ids : j # i => cb'[j] = cb[j]
      /\ \A j \in X!Ids : cb'[j].test_done = cb[j].test_done
  BY <1>6, <1>7 DEF HxCbStep
<1>9. ~HxOpen /\ HxOpen' /\ Len(cev) = 0
  <2>1. ~HxOpen /\ HxOpen'
    BY <1>0, <1>2, <1>6, <1>8 DEF HxOpen
  <2> QED
    BY <1>0, <1>1, <1>3, <2>1, HxNoCev
<1>10. PICK m : m = Len(sev)
  OBVIOUS
<1>11. /\ m \in Nat /\ sev' \in Seq(HxEvent) /\ Len(sev') = m + 1
       /\ \A k \in 1 .. m : sev'[k] = sev[k]
       /\ sev'[m + 1].event = "CONNECT_REQUEST" /\ sev'[m + 1].id = i
  <2>1. PICK ev : ev = [event |-> "CONNECT_REQUEST", id |-> i]
    OBVIOUS
  <2>2. ev \in HxEvent /\ ev.event = "CONNECT_REQUEST" /\ ev.id = i
    BY <1>2, <2>1 DEF HxEvent
  <2>3. sev' = Append(sev, ev) /\ sev \in Seq(HxEvent)
    BY <1>0, <2>1, HxAt DEF X!Event
  <2>4. /\ m \in Nat /\ sev' \in Seq(HxEvent) /\ Len(sev') = m + 1 /\ sev'[m + 1] = ev
        /\ \A k \in 1 .. m : sev'[k] = sev[k]
    BY <1>10, <2>2, <2>3
  <2> QED
    BY <2>2, <2>4
<1>12. \A k \in 1 .. m : sev[k].event = "ESTABLISHED" /\ k = 1
  BY <1>2, <1>9, <1>10 DEF HxSev, HxRequest
<1>13. m <= 1
  BY <1>11, <1>12
<1>14. HxTypes'
  BY <1>0, <1>2, <1>8, <1>11 DEF HxTypes, HxServerRests
<1>15. \A j \in 1 .. Len(list) : list[j].id < i
  BY <1>0, <1>1 DEF HxClient
<1>16. HxSev'
  <2> SUFFICES ASSUME NEW k \in 1 .. Len(sev')
               PROVE  \/ HxRequest(k)'
                      \/ /\ sev'[k].event = "ESTABLISHED" /\ k = 1 /\ Len(list) > 0
                         /\ sev'[k].id = list[Len(list)].id
                         /\ list[Len(list)].st = "CONNECT_REQ_PROC"
    BY <1>0 DEF HxSev, HxServerRests
  <2>1. CASE k = m + 1
    <3>1. k = Len(sev') /\ k <= 2
      BY <1>11, <1>13, <2>1
    <3>2. k = 1 => \A j \in 1 .. Len(list) : list[j].st \notin HxPending
      <4>1. k = 1 => m = 0
        BY <1>11, <2>1
      <4>2. m = 0 => \A j \in 1 .. Len(list) : list[j].st \notin HxPending
        BY <1>9, <1>10, HxQuiet DEF HxPending
      <4> QED
        BY <4>1, <4>2
    <3>3. k = 2 => sev'[1].event = "ESTABLISHED"
      <4>1. k = 2 => 1 \in 1 .. m
        BY <1>11, <2>1
      <4> QED
        BY <1>11, <1>12, <4>1
    <3> QED
      BY <1>0, <1>2, <1>9, <1>11, <1>15, <2>1, <3>1, <3>2, <3>3 DEF HxRequest, HxServerRests
  <2>2. CASE k # m + 1
    <3>1. k \in 1 .. m
      BY <1>11, <2>2
    <3>2. sev'[k] = sev[k] /\ sev[k].event = "ESTABLISHED" /\ k = 1
      BY <1>11, <1>12, <3>1
    <3> QED
      BY <1>10, <3>1, <3>2 DEF HxSev, HxRequest
  <2> QED
    BY <2>1, <2>2
<1>17. HxCev'
  <2>1. Len(cev') = 0
    BY <1>0, <1>9
  <2> QED
    BY <2>1 DEF HxCev
<1>18. HxClient'
  <2>1. \A id \in X!Ids : id > i => cb'[id].sem = 0
    BY <1>1, <1>2, <1>8, HxEntries DEF HxClient
  <2>2. \A k \in 1 .. Len(list) : list[k].st # "CONNECT_REQ"
    BY <1>9, HxQuiet
  <2>3. \A k \in 1 .. Len(list) : list[k].st = "CONNECT_REQ_PROC" =>
           Len(sev') > 0 /\ sev'[1].event = "ESTABLISHED"
    <3>1. m > 0 => 1 \in 1 .. m
      BY <1>11
    <3>2. m + 1 > 0
      BY <1>11
    <3> QED
      BY <1>9, <1>10, <1>11, <3>1, <3>2, HxQuiet
  <2> QED
    BY <1>0, <1>2, <1>9, <1>15, <2>1, <2>2, <2>3 DEF HxClient, HxServerRests
<1>19. HxCount'
  <2>1. HxMade' = i /\ HxMade = i - 1
    BY <1>0, <1>1, <1>2 DEF HxMade
  <2>2. Len(list) \in Nat /\ 2 * Len(list) + done_cnt <= 2 * (i - 1) /\ done_cnt \in Nat
    BY <2>1, HxEntries DEF HxCount, HxTypes
  <2>3. 2 * Len(list) + 2 + done_cnt <= 2 * i /\ 2 * Len(list) + done_cnt <= 2 * i
    BY <1>2, <2>2
  <2> QED
    BY <1>0, <2>1, <2>3 DEF HxCount, HxServerRests
<1>20. HxExchange'
  <2>1. cdata.i \in X!Ids
    BY DEF HxTypes
  <2> QED
    BY <1>0, <1>8, <2>1 DEF HxExchange, HxExchanged, HxServerRests, HxTypes
<1>21. HxBuffers'
  <2>1. \A k \in 1 .. Len(sev') : sev'[k].event = "CONNECT_REQUEST" => k = m + 1
    BY <1>11, <1>12
  <2> QED
    BY <1>0, <1>11, <2>1 DEF HxBuffers, HxServerRests
<1> QED
  BY <1>0, <1>14, <1>16, <1>17, <1>18, <1>19, <1>20, <1>21, HxKeep DEF HxServerRests

\* rping_connect_client wakes up: the server has answered.
LEMMA HxCmainIsConnected ==
    ASSUME HxOK, HxInv, X!CmainConnected
    PROVE  HxInv'
<1> USE DEF HxInv, HxServer, HxEvents
<1>1. PICK i : i = cmain.i
  OBVIOUS
<1>2. cmain.pc = "connect" /\ cb[i].sem > 0
  BY <1>1 DEF X!CmainConnected, X!ClientAt
<1>3. /\ i \in X!Ids /\ i \in Nat /\ i >= 1 /\ i <= ClientQps /\ calive = TRUE /\ ClientQps \in Nat
      /\ cb[i] \in HxCb /\ cb[i].sem \in Nat
  BY <1>1, <1>2, HxAt
<1>4. ~HxOpen /\ cb[i].state = "CONNECTED"
  <2>1. cb[i].sem # 0
    BY <1>2, <1>3
  <2> QED
    BY <1>1, <1>2, <2>1 DEF HxClient, HxOpen
<1>0. /\ HxServerRests /\ UNCHANGED <<sev, c2s, calive, cdata, cev, cmem, chunk, done_cnt>>
      /\ cb' = [cb EXCEPT ![i].sem = @ - 1, ![i].est = TRUE] /\ cmain' = X!NextQp
  BY <1>1, <1>4 DEF X!CmainConnected, X!serverVars, HxServerRests
<1>5. /\ cmain' \in [pc : {"create", "bind", "connect", "wait"}, i : 1 .. ClientQps + 1]
      /\ cmain'.pc \in {"create", "wait"} /\ cmain'.i = i + 1
      /\ cmain'.pc = "wait" <=> cmain'.i = ClientQps + 1
  <2>1. cmain' = [pc |-> IF i = ClientQps THEN "wait" ELSE "create", i |-> i + 1]
    BY <1>0, <1>1 DEF X!NextQp
  <2> QED
    BY <1>3, <2>1
<1>6. PICK r : r = [cb[i] EXCEPT !.sem = cb[i].sem - 1, !.est = TRUE]
  OBVIOUS
<1>7. r \in HxCb /\ r.test_done = cb[i].test_done
  <2>1. cb[i].sem - 1 \in Nat
    BY <1>2, <1>3
  <2> QED
    BY <1>3, <1>6, <2>1 DEF HxCb
<1>8. /\ cb' \in [X!Ids -> HxCb] /\ cb'[i] = r /\ \A j \in X!Ids : j # i => cb'[j] = cb[j]
      /\ \A j \in X!Ids : cb'[j].test_done = cb[j].test_done
  <2>1. cb' = [cb EXCEPT ![i] = r]
    BY <1>0, <1>3, <1>6, HxAt DEF HxCb
  <2>2. HxCbStep(i, r)
    BY <1>3, <1>7, <2>1, HxCbOne
  <2> QED
    BY <1>7, <2>2 DEF HxCbStep
<1>9. ~HxOpen' /\ Len(cev) = 0
  <2>1. ~HxOpen'
    BY <1>5 DEF HxOpen
  <2> QED
    BY <1>2, <1>4, <2>1, HxNoCev
<1>10. HxTypes'
  BY <1>0, <1>5, <1>8 DEF HxTypes, HxServerRests
<1>11. HxSev'
  BY <1>0, <1>4, <1>9, HxQuietStep DEF HxServerRests
<1>12. HxCev'
  <2>1. Len(cev') = 0
    BY <1>0, <1>9
  <2> QED
    BY <2>1 DEF HxCev
<1>13. HxClient'
  <2>1. \A id \in X!Ids : id >= i + 1 => cb'[id].sem = 0
    <3>1. \A id \in X!Ids : id >= i + 1 => id > i /\ id # i
      BY <1>3, HxEntries
    <3>2. \A id \in X!Ids : id > i => cb[id].sem = 0
      BY <1>1 DEF HxClient
    <3> QED
      BY <1>8, <3>1, <3>2
  <2>2. \A k \in 1 .. Len(list) : list[k].id < i + 1
    BY <1>1, <1>3, HxEntries DEF HxClient
  <2>3. \A id \in X!Ids : id > cmain'.i \/ (id = cmain'.i /\ cmain'.pc = "create")
                             => cb'[id].sem = 0
    BY <1>3, <1>5, <2>1, HxEntries
  <2>4. calive' # FALSE
    BY <1>0, <1>3
  <2> QED
    BY <1>0, <1>4, <1>5, <1>9, <2>2, <2>3, <2>4, HxQuiet DEF HxClient, HxServerRests
<1>14. HxCount'
  <2>1. HxMade' = HxMade
    BY <1>1, <1>2, <1>3, <1>5 DEF HxMade
  <2> QED
    BY <1>0, <2>1 DEF HxCount, HxServerRests
<1>15. HxExchange'
  BY <1>0, <1>8 DEF HxExchange, HxExchanged, HxServerRests, HxTypes
<1> QED
  BY <1>0, <1>10, <1>11, <1>12, <1>13, <1>14, <1>15, HxKeep DEF HxServerRests

\* The client ends: every QP it has made is done.
LEMMA HxCmainEnded ==
    ASSUME HxOK, HxInv, X!CmainEnds
    PROVE  HxInv'
<1> USE DEF HxInv, HxServer, HxEvents
<1>0. /\ HxServerRests /\ UNCHANGED <<c2s, cb, cmain, cdata, cev, chunk, done_cnt>>
      /\ cmain.pc = "wait" /\ done_cnt >= ClientQps /\ calive' = FALSE
  BY DEF X!CmainEnds, X!ClientExit, X!ClientAt, X!AllDone, HxServerRests
<1>1. PICK d \in X!FromServer(X!Standing, "DISCONNECTED") : sev' = sev \o d
  BY DEF X!CmainEnds, X!ClientExit
<1>2. PICK m : m = Cardinality(X!Standing)
  OBVIOUS
<1>3. m \in Nat
  <2>1. IsFiniteSet(X!Ids)
    BY FS_Interval DEF X!Ids, HxOK
  <2>2. X!Standing \subseteq X!Ids
    BY DEF X!Standing
  <2> QED
    BY <1>2, <2>1, <2>2, FS_Subset, FS_CardinalityType
<1>4. d \in [1 .. m -> [event : {"DISCONNECTED"}, id : X!Standing]]
  <2>1. X!Cardinality(X!Standing) = Cardinality(X!Standing)
    BY DEF Cardinality, X!Cardinality, IsFiniteSet, X!IsFiniteSet
  <2> QED
    BY <1>1, <1>2, <2>1 DEF X!FromServer
<1>5. d \in Seq(HxEvent) /\ Len(d) = m /\ \A k \in 1 .. m : d[k].event = "DISCONNECTED"
  <2>1. \A k \in 1 .. m : d[k] \in HxEvent /\ d[k].event = "DISCONNECTED"
    BY <1>4 DEF HxEvent, X!Standing
  <2>2. d \in [1 .. m -> HxEvent]
    BY <1>4, <2>1
  <2> QED
    BY <1>3, <2>1, <2>2
<1>6. PICK n : n = Len(sev)
  OBVIOUS
<1>7. n \in Nat /\ sev \in Seq(HxEvent)
  BY <1>6, HxAt
<1>8. /\ sev' \in Seq(HxEvent) /\ Len(sev') = n + m
      /\ \A k \in 1 .. n + m : sev'[k] = IF k <= n THEN sev[k] ELSE d[k - n]
  BY <1>1, <1>5, <1>6, <1>7, ConcatProperties
<1>9. /\ \A k \in 1 .. n : sev'[k] = sev[k]
      /\ \A k \in 1 .. n + m : k \in 1 .. n \/ sev'[k].event = "DISCONNECTED"
  <2>1. \A k \in 1 .. n + m : k \notin 1 .. n => ~(k <= n) /\ k - n \in 1 .. m
    BY <1>3, <1>7
  <2>2. \A k \in 1 .. n : k \in 1 .. n + m /\ k <= n
    BY <1>3, <1>7
  <2> QED
    BY <1>5, <1>8, <2>1, <2>2
<1>10. ~HxOpen /\ ~HxOpen' /\ Len(cev) = 0
  <2>1. ~HxOpen /\ ~HxOpen'
    BY <1>0 DEF HxOpen
  <2> QED
    BY <1>0, <2>1, HxNoCev
<1>11. HxTypes'
  BY <1>0, <1>8 DEF HxTypes, HxServerRests
<1>12. HxSev'
  <2> SUFFICES ASSUME NEW k \in 1 .. n + m
               PROVE  \/ /\ sev'[k].event = "ESTABLISHED" /\ k = 1 /\ Len(list) > 0
                         /\ sev'[k].id = list[Len(list)].id
                         /\ list[Len(list)].st = "CONNECT_REQ_PROC"
                      \/ sev'[k].event = "DISCONNECTED"
    BY <1>0, <1>8 DEF HxSev, HxServerRests
  <2>1. CASE k \in 1 .. n
    <3>1. ~HxRequest(k)
      BY <1>10 DEF HxRequest
    <3> QED
      BY <1>6, <1>9, <2>1, <3>1 DEF HxSev
  <2> QED
    BY <1>9, <2>1
<1>13. HxCev'
  <2>1. Len(cev') = 0
    BY <1>0, <1>10
  <2> QED
    BY <2>1 DEF HxCev
<1>14. HxClient'
  <2>1. n > 0 => Len(sev') > 0 /\ 1 \in 1 .. n
    BY <1>3, <1>7, <1>8
  <2>2. \A k \in 1 .. Len(list) :
           /\ list[k].st # "CONNECT_REQ"
           /\ list[k].st = "CONNECT_REQ_PROC" => Len(sev') > 0 /\ sev'[1].event = "ESTABLISHED"
    BY <1>6, <1>9, <1>10, <2>1, HxQuiet
  <2> QED
    BY <1>0, <1>10, <2>2 DEF HxClient, HxServerRests
<1>15. HxCount'
  <2>1. \A k \in 1 .. n + m : sev'[k].event # "CONNECT_REQUEST"
    BY <1>6, <1>9, <1>10, HxQuiet
  <2>2. HxMade' = HxMade
    BY <1>0 DEF HxMade
  <2> QED
    BY <1>0, <1>8, <2>1, <2>2 DEF HxCount, HxServerRests
<1>16. HxBuffers'
  BY <1>0 DEF HxBuffers
<1> QED
  BY <1>0, <1>11, <1>12, <1>13, <1>14, <1>15, <1>16, HxKeep DEF HxServerRests

\* The address or the route of a connection is resolved.
LEMMA HxCcmResolves ==
    ASSUME HxOK, HxInv, X!CcmEvent, cmain.pc = "bind"
    PROVE  HxInv'
<1> USE DEF HxInv, HxServer, HxEvents
<1>1. PICK i : i = cmain.i
  OBVIOUS
<1>2. cev # << >> /\ Len(cev) = 1 /\ Head(cev) = cev[1] /\ Tail(cev) = << >>
  BY HxCevTail DEF X!CcmEvent
<1>3. /\ cev[1].id = i /\ cev[1].event \in {"ADDR_RESOLVED", "ROUTE_RESOLVED"}
      /\ cb[i].sem = 0
  BY <1>1, <1>2 DEF HxCev, HxOpen
<1>4. i \in X!Ids /\ cb[i] \in HxCb /\ calive = TRUE /\ i \in Nat
  BY <1>1, HxAt
<1>0. /\ HxServerRests /\ UNCHANGED <<sev, c2s, calive, cmain, cdata, cmem, chunk, done_cnt>>
      /\ \/ /\ cb' = [cb EXCEPT ![i].state = "ADDR_RESOLVED"]
            /\ cev' = Append(<< >>, X!Event("ROUTE_RESOLVED", i))
         \/ /\ cb' = [cb EXCEPT ![i].state = "ROUTE_RESOLVED", ![i].sem = @ + 1]
            /\ cev' = << >>
  <2>1. CASE cev[1].event = "ADDR_RESOLVED"
    BY <1>2, <1>3, <2>1 DEF X!CcmEvent, HxServerRests
  <2>2. CASE cev[1].event = "ROUTE_RESOLVED"
    BY <1>2, <1>3, <2>2 DEF X!CcmEvent, HxServerRests
  <2> QED
    BY <1>3, <2>1, <2>2
<1>5. PICK r : /\ HxCbStep(i, r) /\ r.test_done = cb[i].test_done
               /\ \/ /\ r.sem = 0 /\ cev' = Append(<< >>, X!Event("ROUTE_RESOLVED", i))
                  \/ /\ r.sem = 1 /\ cev' = << >>
  <2>1. CASE /\ cb' = [cb EXCEPT ![i].state = "ADDR_RESOLVED"]
             /\ cev' = Append(<< >>, X!Event("ROUTE_RESOLVED", i))
    <3>1. PICK r : r = [cb[i] EXCEPT !.state = "ADDR_RESOLVED"]
      OBVIOUS
    <3>2. r \in HxCb /\ r.sem = 0 /\ r.test_done = cb[i].test_done
      BY <1>3, <1>4, <3>1 DEF HxCb
    <3>3. cb' = [cb EXCEPT ![i] = r]
      BY <2>1, <3>1
    <3> QED
      BY <1>4, <2>1, <3>2, <3>3, HxCbOne
  <2>2. CASE /\ cb' = [cb EXCEPT ![i].state = "ROUTE_RESOLVED", ![i].sem = @ + 1]
             /\ cev' = << >>
    <3>1. PICK r : r = [cb[i] EXCEPT !.state = "ROUTE_RESOLVED", !.sem = cb[i].sem + 1]
      OBVIOUS
    <3>2. r = [cb[i] EXCEPT !.state = "ROUTE_RESOLVED", !.sem = 1]
      BY <1>3, <3>1
    <3>3. r \in HxCb /\ r.sem = 1 /\ r.test_done = cb[i].test_done
      BY <1>4, <3>2 DEF HxCb
    <3>4. cb' = [cb EXCEPT ![i] = r]
      BY <1>4, <2>2, <3>1, HxAt DEF HxCb
    <3> QED
      BY <1>4, <2>2, <3>3, <3>4, HxCbOne
  <2> QED
    BY <1>0, <2>1, <2>2
<1>6. /\ cb' \in [X!Ids -> HxCb] /\ cb'[i] = r /\ \A j \in X!Ids : j # i => cb'[j] = cb[j]
      /\ \A j \in X!Ids : cb'[j].test_done = cb[j].test_done
  BY <1>5 DEF HxCbStep
<1>7. ~HxOpen /\ ~HxOpen'
  BY <1>0 DEF HxOpen
<1>8. \/ /\ r.sem = 0 /\ cev' \in Seq(HxEvent) /\ Len(cev') = 1
         /\ cev'[1].event = "ROUTE_RESOLVED" /\ cev'[1].id = i
      \/ r.sem = 1 /\ cev' \in Seq(HxEvent) /\ Len(cev') = 0
  <2>1. << >> \in Seq(HxEvent) /\ Len(<< >>) = 0
    BY EmptySeq
  <2>2. CASE r.sem = 0 /\ cev' = Append(<< >>, X!Event("ROUTE_RESOLVED", i))
    BY <1>4, <2>2, HxOneEvent
  <2>3. CASE r.sem = 1 /\ cev' = << >>
    BY <2>1, <2>3
  <2> QED
    BY <1>5, <2>2, <2>3
<1>9. HxTypes'
  BY <1>0, <1>6, <1>8 DEF HxTypes, HxServerRests
<1>10. HxSev'
  BY <1>0, <1>7, HxQuietStep DEF HxServerRests
<1>11. HxCev'
  <2>1. CASE /\ r.sem = 0 /\ Len(cev') = 1
             /\ cev'[1].event = "ROUTE_RESOLVED" /\ cev'[1].id = i
    <3>1. Len(cev') <= 1
      BY <2>1
    <3> QED
      BY <1>0, <1>1, <1>6, <2>1, <3>1 DEF HxCev
  <2>2. CASE Len(cev') = 0
    BY <2>2 DEF HxCev
  <2> QED
    BY <1>8, <2>1, <2>2
<1>12. HxClient'
  <2>1. \A id \in X!Ids : id > i => cb'[id].sem = 0
    <3>1. \A id \in X!Ids : id > i => cb[id].sem = 0 /\ id # i
      BY <1>1, <1>4, HxEntries DEF HxClient
    <3> QED
      BY <1>6, <3>1
  <2>2. cb'[i].sem <= 1
    BY <1>6, <1>8
  <2> QED
    BY <1>0, <1>1, <1>7, <2>1, <2>2, HxQuiet DEF HxClient, HxServerRests
<1>13. HxExchange'
  BY <1>0, <1>6 DEF HxExchange, HxExchanged, HxServerRests, HxTypes
<1> QED
  BY <1>0, <1>9, <1>10, <1>11, <1>12, <1>13, HxKeep DEF HxServerRests

\* The client takes the server's answer; its own answer is the only event on its
\* way to the server.
LEMMA HxCcmEstablished ==
    ASSUME HxOK, HxInv, salive, X!CcmEvent, cmain.pc # "bind"
    PROVE  HxInv'
<1> USE DEF HxInv, HxServer, HxEvents
<1>1. PICK i : i = cmain.i
  OBVIOUS
<1>2. cev # << >> /\ Len(cev) = 1 /\ Head(cev) = cev[1] /\ Tail(cev) = << >>
  BY HxCevTail DEF X!CcmEvent
<1>3. /\ cev[1].id = i /\ cev[1].event = "ESTABLISHED" /\ HxOpen /\ Len(sev) = 0
      /\ Len(list) > 0 /\ list[Len(list)].id = i /\ list[Len(list)].st = "CONNECT_REQ_PROC"
  BY <1>1, <1>2 DEF HxCev
<1>4. i \in X!Ids /\ cb[i] \in HxCb /\ calive = TRUE /\ i \in Nat /\ cmain.pc = "connect"
      /\ cb[i].sem = 0
  BY <1>1, <1>3, HxAt DEF HxOpen
<1>0. /\ HxServerRests /\ UNCHANGED <<c2s, calive, cmain, cdata, cmem, chunk, done_cnt>>
      /\ cb' = [cb EXCEPT ![i].state = "CONNECTED", ![i].sem = @ + 1]
      /\ cev' = << >> /\ sev' = Append(sev, X!Event("ESTABLISHED", i))
  BY <1>2, <1>3 DEF X!CcmEvent, HxServerRests
<1>5. PICK r : r = [cb[i] EXCEPT !.state = "CONNECTED", !.sem = cb[i].sem + 1]
  OBVIOUS
<1>6. r \in HxCb /\ r.state = "CONNECTED" /\ r.test_done = cb[i].test_done
  <2>1. r = [cb[i] EXCEPT !.state = "CONNECTED", !.sem = 1]
    BY <1>4, <1>5
  <2> QED
    BY <1>4, <2>1 DEF HxCb
<1>7. /\ cb' \in [X!Ids -> HxCb] /\ cb'[i] = r /\ \A j \in X!Ids : j # i => cb'[j] = cb[j]
      /\ \A j \in X!Ids : cb'[j].test_done = cb[j].test_done
  <2>1. cb' = [cb EXCEPT ![i] = r]
    BY <1>0, <1>4, <1>5, HxAt DEF HxCb
  <2>2. HxCbStep(i, r)
    BY <1>4, <1>6, <2>1, HxCbOne
  <2> QED
    BY <1>6, <2>2 DEF HxCbStep
<1>8. sev' \in Seq(HxEvent) /\ Len(sev') = 1 /\ sev'[1].event = "ESTABLISHED" /\ sev'[1].id = i
  <2>1. sev = << >>
    BY <1>3, EmptySeq, HxAt
  <2> QED
    BY <1>0, <1>4, <2>1, HxOneEvent
<1>9. cev' \in Seq(HxEvent) /\ Len(cev') = 0
  BY <1>0, EmptySeq
<1>10. HxTypes'
  BY <1>0, <1>7, <1>8, <1>9 DEF HxTypes, HxServerRests
<1>11. HxSev'
  <2>1. \A k \in 1 .. Len(sev') : k = 1
    BY <1>8
  <2> QED
    BY <1>0, <1>3, <1>8, <2>1 DEF HxSev, HxServerRests
<1>12. HxCev'
  BY <1>9 DEF HxCev
<1>13. HxClient'
  <2>1. \A id \in X!Ids : id > i => cb'[id].sem = 0
    <3>1. \A id \in X!Ids : id > i => cb[id].sem = 0 /\ id # i
      BY <1>1, <1>4, HxEntries DEF HxClient
    <3> QED
      BY <1>7, <3>1
  <2>2. \A k \in 1 .. Len(list) : list[k].st # "CONNECT_REQ"
    <3>1. Len(list) \in Nat
      BY HxEntries
    <3>2. \A k \in 1 .. Len(list) : k < Len(list) \/ k = Len(list)
      BY <3>1
    <3> QED
      BY <1>3, <3>2 DEF HxList, HxPending
  <2>3. Len(sev') > 0
    BY <1>8
  <2>4. cb'[cmain.i].state = "CONNECTED"
    BY <1>1, <1>6, <1>7
  <2> QED
    BY <1>0, <1>1, <1>4, <1>8, <2>1, <2>2, <2>3, <2>4 DEF HxClient, HxServerRests
<1>14. HxCount'
  <2>1. \A k \in 1 .. Len(sev') : sev'[k].event # "CONNECT_REQUEST"
    BY <1>8
  <2>2. HxMade' = HxMade
    BY <1>0 DEF HxMade
  <2> QED
    BY <1>0, <2>1, <2>2 DEF HxCount, HxServerRests
<1>15. HxExchange'
  BY <1>0, <1>7 DEF HxExchange, HxExchanged, HxServerRests, HxTypes
<1>16. HxBuffers'
  <2>1. \A k \in 1 .. Len(sev') : sev'[k].event # "CONNECT_REQUEST"
    BY <1>8
  <2> QED
    BY <1>0, <2>1 DEF HxBuffers, HxServerRests
<1> QED
  BY <1>0, <1>10, <1>11, <1>12, <1>13, <1>14, <1>15, <1>16, HxKeep DEF HxServerRests

\* data_thread looks for a connection whose exchange is open.
LEMMA HxCdataLooks ==
    ASSUME HxOK, HxInv, X!CdataLook
    PROVE  HxInv'
<1> USE DEF HxInv, HxServer, HxEvents
<1>0. /\ HxServerRests /\ UNCHANGED <<sev, c2s, calive, cb, cmain, cev, done_cnt, cmem, chunk>>
      /\ cdata.pc = "look"
  BY DEF X!CdataLook, X!serverVars, HxServerRests
<1>2. /\ cdata \in [pc : {"look", "poll"}, i : X!Ids] /\ cdata.i \in X!Ids
      /\ cdata.i \in Nat /\ cdata.i >= 1 /\ cdata.i <= ClientQps
      /\ ClientQps \in Nat /\ ClientQps > 0
  <2>1. cdata \in [pc : {"look", "poll"}, i : X!Ids] /\ ClientQps \in Nat /\ ClientQps > 0
    BY DEF HxTypes, HxOK
  <2> QED
    BY <2>1 DEF X!Ids
<1>4. cdata' \in [pc : {"look", "poll"}, i : X!Ids]
      /\ (cdata'.pc = "poll" => ~cb[cdata'.i].test_done)
  <2>1. CASE X!CdataReady(cdata.i)
    <3>1. cdata' = [cdata EXCEPT !.pc = "poll"]
      BY <2>1 DEF X!CdataLook
    <3> QED
      BY <1>2, <2>1, <3>1 DEF X!CdataReady
  <2>2. CASE ~X!CdataReady(cdata.i)
    <3>1. cdata' = X!CdataNext
      BY <2>2 DEF X!CdataLook
    <3>2. cdata.i % ClientQps \in 0 .. ClientQps - 1
      BY <1>2, DivMod
    <3>3. (cdata.i % ClientQps) + 1 \in X!Ids
      BY <1>2, <3>2 DEF X!Ids
    <3> QED
      BY <3>1, <3>3 DEF X!CdataNext
  <2> QED
    BY <2>1, <2>2
<1>5. cdata'.pc = "poll" => cb[cdata'.i].test_done = FALSE
  BY <1>4 DEF HxTypes, HxCb
<1>6. HxTypes'
  BY <1>0, <1>4 DEF HxTypes, HxServerRests
<1>7. HxExchange'
  BY <1>0, <1>5 DEF HxExchange, HxExchanged, HxServerRests
<1> QED
  BY <1>0, <1>6, <1>7, HxKeep DEF HxServerRests

\* data_thread ends an exchange, with the answer or without: it is the one
\* exchange that is open.
LEMMA HxCdataEnds ==
    ASSUME HxOK, HxInv, X!CdataExchange \/ X!CdataFails
    PROVE  HxInv'
<1> USE DEF HxInv, HxServer, HxEvents
<1>1. PICK i : i = cdata.i
  OBVIOUS
<1>0. /\ HxServerRests /\ UNCHANGED <<sev, calive, cmain, cev, done_cnt>>
      /\ cdata.pc = "poll" /\ i \in s2c /\ cb' = [cb EXCEPT ![i].test_done = TRUE]
      /\ cdata' = X!CdataNext
      /\ chunk' = IF common_buf /\ chunk # X!NONE THEN chunk ELSE i
  BY <1>1 DEF X!CdataExchange, X!CdataFails, X!poll_cq, X!serverVars, HxServerRests
<1>2. i \in X!Ids /\ i \in Nat /\ i >= 1 /\ i <= ClientQps /\ ClientQps \in Nat /\ ClientQps > 0
      /\ i # X!NONE /\ i \in 0 .. ClientQps
  <2>1. cdata.i \in X!Ids /\ ClientQps \in Nat /\ ClientQps > 0
    BY DEF HxTypes, HxOK
  <2> QED
    BY <1>1, <2>1 DEF X!Ids, X!NONE
<1>3. PICK r : r = [cb[i] EXCEPT !.test_done = TRUE]
  OBVIOUS
<1>4. cb[i] \in HxCb /\ r \in HxCb /\ r.state = cb[i].state /\ r.sem = cb[i].sem
      /\ r.test_done = TRUE
  <2>1. cb[i] \in HxCb
    BY <1>2, HxAt
  <2> QED
    BY <1>3, <2>1 DEF HxCb
<1>5. /\ cb' \in [X!Ids -> HxCb] /\ cb'[i] = r /\ \A j \in X!Ids : j # i => cb'[j] = cb[j]
      /\ \A j \in X!Ids : cb'[j].sem = cb[j].sem /\ cb'[j].state = cb[j].state
  <2>1. cb' = [cb EXCEPT ![i] = r]
    BY <1>0, <1>3
  <2>2. HxCbStep(i, r)
    BY <1>2, <1>4, <2>1, HxCbOne
  <2> QED
    BY <1>4, <2>2 DEF HxCbStep
<1>6. cdata' \in [pc : {"look", "poll"}, i : X!Ids] /\ cdata'.pc = "look"
  <2>1. cdata.i % ClientQps \in 0 .. ClientQps - 1
    BY <1>1, <1>2, DivMod
  <2>2. (cdata.i % ClientQps) + 1 \in X!Ids
    BY <1>2, <2>1 DEF X!Ids
  <2> QED
    BY <1>0, <2>2 DEF X!CdataNext
<1>7. /\ c2s \subseteq c2s' /\ c2s' \in SUBSET X!Ids /\ cmem \subseteq cmem'
      /\ \/ c2s' = c2s
         \/ /\ c2s' = c2s \cup {i}
            /\ cmem' = IF common_buf /\ chunk # X!NONE THEN cmem ELSE cmem \cup {<<"rdma", i>>}
  <2>1. CASE X!CdataExchange
    <3>1. /\ c2s' = c2s \cup {i}
          /\ cmem' = IF common_buf /\ chunk # X!NONE THEN cmem ELSE cmem \cup {<<"rdma", i>>}
      BY <1>1, <2>1 DEF X!CdataExchange
    <3> QED
      BY <1>2, <3>1 DEF HxTypes
  <2>2. CASE X!CdataFails
    BY <2>2 DEF X!CdataFails, HxTypes
  <2> QED
    BY <2>1, <2>2
<1>8. HxTypes'
  <2>1. chunk' \in 0 .. ClientQps
    BY <1>0, <1>2 DEF HxTypes
  <2> QED
    BY <1>0, <1>5, <1>6, <1>7, <2>1 DEF HxTypes, HxServerRests
<1>9. HxOpen' <=> HxOpen
  <2>1. cmain.pc = "connect" => cmain.i \in X!Ids
    BY HxAt
  <2> QED
    BY <1>0, <1>5, <2>1 DEF HxOpen
<1>10. HxSev'
  BY <1>0, <1>9 DEF HxSev, HxRequest, HxServerRests
<1>11. \A j \in X!Ids : cb'[j].sem = cb[j].sem /\ cb'[j].state = cb[j].state
  BY <1>5
<1>12. HxCev'
  <2>1. cmain.pc = "bind" => cb'[cmain.i].sem = cb[cmain.i].sem
    BY <1>11, HxAt
  <2> QED
    BY <1>0, <1>9, <2>1 DEF HxCev, HxServerRests
<1>13. HxClient'
  <2>1. cmain.pc # "wait" => /\ cb'[cmain.i].sem = cb[cmain.i].sem
                             /\ cb'[cmain.i].state = cb[cmain.i].state
    BY <1>11, HxAt
  <2> QED
    BY <1>0, <1>9, <1>11, <2>1 DEF HxClient, HxServerRests
<1>14. HxExchange'
  <2> SUFFICES ASSUME blind = {}
               PROVE  HxExchanged'
    BY <1>0, <1>6 DEF HxExchange, HxServerRests
  <2>1. \A id \in s2c' : id \in c2s' \/ (smain'.pc = "poll" /\ id = list'[smain'.pos].id)
    BY <1>0, <1>7 DEF HxExchange, HxExchanged, HxServerRests
  <2>2. \A k \in 1 .. Len(list') : k <= qp_cfg_cnt' => list'[k].id \in c2s'
    BY <1>0, <1>7 DEF HxExchange, HxExchanged, HxServerRests
  <2>3. \E id \in s2c' : cb'[id].test_done = TRUE
    BY <1>0, <1>4, <1>5 DEF HxServerRests
  <2> QED
    BY <2>1, <2>2, <2>3 DEF HxExchanged
<1>15. HxBuffers'
  <2> SUFFICES ASSUME calive = TRUE
               PROVE  HxBuffers'
    BY <1>0 DEF HxBuffers
  <2>1. ASSUME blind = {}, ~common_buf, NEW id \in c2s'
        PROVE  <<"rdma", id>> \in cmem'
    <3>1. CASE id \in c2s
      BY <1>7, <2>1, <3>1 DEF HxBuffers
    <3>2. CASE id \notin c2s
      BY <1>7, <2>1, <3>2
    <3> QED
      BY <3>1, <3>2
  <2>2. ASSUME blind = {}, common_buf, c2s' # {}
        PROVE  chunk' # X!NONE /\ <<"rdma", chunk'>> \in cmem'
    <3>1. CASE c2s # {}
      BY <1>0, <1>7, <2>2, <3>1 DEF HxBuffers
    <3>2. CASE c2s = {}
      <4>1. /\ c2s' = c2s \cup {i}
            /\ cmem' = IF common_buf /\ chunk # X!NONE THEN cmem ELSE cmem \cup {<<"rdma", i>>}
        BY <1>7, <2>2, <3>2
      <4>2. chunk = X!NONE
        <5> SUFFICES ASSUME chunk # X!NONE
                     PROVE  FALSE
          OBVIOUS
        <5>1. PICK id \in s2c : cb[id].test_done = TRUE
          BY <2>2, <3>2 DEF HxExchange, HxExchanged
        <5>2. cb[i].test_done = FALSE
          BY <1>0, <1>1 DEF HxExchange, HxExchanged
        <5>3. id = list[smain.pos].id /\ i = list[smain.pos].id
          BY <1>0, <2>2, <3>2 DEF HxExchange, HxExchanged
        <5> QED
          BY <5>1, <5>2, <5>3
      <4> QED
        BY <1>0, <1>2, <2>2, <4>1, <4>2
    <3> QED
      BY <3>1, <3>2
  <2>3. \A k \in 1 .. Len(list') : <<"qp", list'[k].id>> \in cmem'
    BY <1>0, <1>7 DEF HxBuffers, HxServerRests
  <2>4. \A k \in 1 .. Len(sev') : sev'[k].event = "CONNECT_REQUEST" => <<"qp", sev'[k].id>> \in cmem'
    BY <1>0, <1>7 DEF HxBuffers
  <2> QED
    BY <1>0, <2>1, <2>2, <2>3, <2>4 DEF HxBuffers, HxServerRests
<1> QED
  BY <1>0, <1>8, <1>10, <1>12, <1>13, <1>14, <1>15, HxKeep DEF HxServerRests
-----------------------------------------------------------------------------
\* The server never comes back to life, and leaves the clean up only by its end.
LEMMA HxLiveBefore ==
    ASSUME HxEngine, [X!Next]_(X!vars), HxLive'
    PROVE  HxLive
<1>1. ~X!ServerExit
  BY DEF X!ServerExit, HxLive
<1>2. CASE UNCHANGED <<salive, smain>>
  BY <1>2 DEF HxLive
<1>3. CASE UNCHANGED X!vars \/ X!Ended
  BY <1>2, <1>3 DEF X!vars, X!serverVars, X!Ended
<1>4. CASE X!ServerCm \/ X!ServerEst
  BY <1>1, <1>2, <1>4 DEF X!ServerCm, X!ServerEst, X!ScmListEvent, X!ScmDisconnected, X!ScmCheck,
                          X!EstLock, X!EstVisit, X!EstUnlock
<1>5. CASE X!MainClean
  <2>1. smain.pc = "clean" /\ smain' = [smain EXCEPT !.pos = @ + 1]
    BY <1>5 DEF X!MainClean
  <2>2. smain'.pc = "clean"
    BY <2>1 DEF HxEngine
  <2> QED
    BY <2>2 DEF HxLive
<1>6. CASE X!MainLock \/ X!MainVisit \/ X!MainConfigures \/ X!MainUnlock \/ X!MainEnable
           \/ X!MainReset
  <2>1. salive /\ smain.pc \in {"scan", "walk", "poll", "enable", "test"}
    BY <1>6 DEF X!MainLock, X!MainVisit, X!MainConfigures, X!MainUnlock, X!MainEnable, X!MainReset
  <2> QED
    BY <2>1 DEF HxLive
<1>7. CASE X!MainReturns \/ X!MainConfigFails \/ X!ServerKilled \/ X!EstFails
  BY <1>1, <1>7, SMTT(20) DEF X!MainReturns, X!MainConfigFails, X!ServerKilled, X!EstFails
<1>8. CASE X!CcmEvent \/ X!MainPollFails
  BY <1>2, <1>8 DEF X!CcmEvent, X!MainPollFails
<1>9. CASE X!ClientMain \/ X!CmainCreateFails \/ X!ClientData \/ X!CdataFails \/ X!HwTestDone
  BY <1>2, <1>9 DEF X!ClientMain, X!CmainCreate, X!CmainConnect, X!CmainConnected, X!CmainEnds,
                    X!CmainCreateFails, X!ClientData, X!CdataLook, X!CdataExchange, X!CdataFails,
                    X!HwTestDone, X!serverVars
<1> QED
  BY <1>3, <1>4, <1>5, <1>6, <1>7, <1>8, <1>9 DEF X!Next, X!ServerMain, X!MainStep

LEMMA HxStep ==
    ASSUME HxOK, HxEngine, HxLive => HxInv, [X!Next]_(X!vars), HxLive'
    PROVE  HxInv'
<1>0. HxLive /\ HxInv /\ salive /\ smain.pc # "clean"
  BY HxLiveBefore DEF HxLive
<1>1. ~X!ServerExit
  BY DEF X!ServerExit, HxLive
<1>2. CASE UNCHANGED X!vars
  BY <1>0, <1>2, HxStutters DEF X!vars, X!serverVars
<1>3. CASE X!ScmListEvent
  <2>1. sev[1].event \in {"CONNECT_REQUEST", "ESTABLISHED"}
    <3>1. sev # << >> /\ Head(sev).event \in {"CONNECT_REQUEST", "ESTABLISHED"}
      BY <1>3 DEF X!ScmListEvent
    <3>2. Head(sev) = sev[1]
      BY <1>0, <3>1 DEF HxInv, HxServer, HxTypes
    <3> QED
      BY <3>1, <3>2
  <2> QED
    BY <1>0, <1>3, <2>1, HxScmRequest, HxScmEstablished
<1>4. CASE X!ScmDisconnected
  BY <1>0, <1>4, HxScmDisconnects DEF HxLive
<1>5. CASE X!ScmCheck
  BY <1>0, <1>5, HxStutters DEF X!ScmCheck, X!clientVars
<1>6. CASE X!ServerEst
  BY <1>0, <1>6, HxEstLockStep, HxEstOther, HxEstReady, HxEstAccept DEF X!ServerEst
<1>7. CASE X!ServerMain
  <2>1. CASE X!MainLock \/ X!MainVisit \/ X!MainUnlock
    BY <1>0, <2>1, HxMainWalks
  <2>2. CASE X!MainConfigures
    BY <1>0, <2>2, HxMainConfigured
  <2>3. CASE X!MainEnable
    BY <1>0, <2>3, HxMainEnables
  <2>4. CASE X!MainReset
    BY <2>4 DEF X!MainReset, HxLive
  <2>5. CASE X!MainClean \/ X!MainReturns
    BY <1>0, <2>5 DEF X!MainClean, X!MainReturns
  <2> QED
    BY <1>7, <2>1, <2>2, <2>3, <2>4, <2>5 DEF X!ServerMain, X!MainStep
<1>8. CASE X!MainConfigFails \/ X!ServerKilled \/ X!EstFails
  BY <1>1, <1>8 DEF X!MainConfigFails, X!ServerKilled, X!EstFails
<1>14. CASE X!MainPollFails
  BY <1>0, <1>14, HxMainPollFailed
<1>9. CASE X!CcmEvent
  BY <1>0, <1>9, HxCcmResolves, HxCcmEstablished
<1>10. CASE X!ClientMain \/ X!CmainCreateFails
  BY <1>0, <1>10, HxCmainCreates, HxCmainCreateFailed, HxCmainConnects, HxCmainIsConnected,
     HxCmainEnded DEF X!ClientMain
<1>11. CASE X!ClientData \/ X!CdataFails
  BY <1>0, <1>11, HxCdataLooks, HxCdataEnds DEF X!ClientData
<1>12. CASE X!HwTestDone
  BY <1>0, <1>12, HxMainEnables
<1>13. CASE X!Ended
  BY <1>0, <1>13 DEF X!Ended
<1> QED
  BY <1>2, <1>3, <1>4, <1>5, <1>6, <1>7, <1>8, <1>9, <1>10, <1>11, <1>12, <1>13,
     <1>14 DEF X!Next, X!ServerCm

\* With a QP in the handshake the test runs, and then the client does too: it has
\* not done as many QPs as it would have to.
LEMMA HxEngineOwns ==
    ASSUME HxOK, HxEngine, HxLive => HxInv
    PROVE  X!EngineMemoryLive
<1> SUFFICES ASSUME NEW q \in drv.hsk
             PROVE  /\ drv.eng[q] # X!NONE
                    /\ <<"sq", drv.eng[q]>> \in smem /\ <<"rdma", drv.data[q]>> \in smem
                    /\ Taken = {} => hwqp[drv.eng[q]] = q
                    /\ blind = {} =>
                          /\ <<"rdma", IF common_buf THEN chunk ELSE drv.eng[q]>> \in cmem
                          /\ <<"qp", drv.eng[q]>> \in cmem
  BY DEF X!EngineMemoryLive
<1> USE DEF HxInv, HxServer, HxEvents
<1>1. salive /\ smain.pc = "test" /\ q \in 1 .. qp_cnt
  BY DEF HxEngine
<1>2. HxInv
  BY <1>1 DEF HxLive
<1>3. PICK n : n = Len(list)
  OBVIOUS
<1>4. /\ qp_cfg_cnt = qp_cnt /\ qp_cnt <= n /\ n \in Nat /\ qp_cnt \in Nat /\ qp_cnt > 0
      /\ n <= ClientQps /\ qp_cnt <= NumQp
  <2>1. qp_cfg_cnt = qp_cnt /\ qp_cfg_cnt <= Len(list)
    BY <1>1, <1>2 DEF HxLock, HxList
  <2>2. Len(list) \in Nat /\ Len(list) <= ClientQps
    BY <1>2, HxLength, HxEntries
  <2>3. qp_cnt \in Nat /\ qp_cnt > 0 /\ qp_cnt <= NumQp
    BY <1>2 DEF HxOK, HxTypes
  <2> QED
    BY <1>3, <2>1, <2>2, <2>3
<1>5. q \in 1 .. n /\ q <= qp_cfg_cnt /\ q \in X!Hw
  BY <1>1, <1>4 DEF X!Hw, HxOK
<1>6. drv.eng[q] = list[q].id /\ <<"sq", list[q].id>> \in smem /\ <<"rdma", drv.data[q]>> \in smem
  BY <1>2, <1>3, <1>5 DEF HxMemory
<1>7. list[q].id \in X!Ids /\ list[q].id # X!NONE
  BY <1>2, <1>3, <1>5, HxEntries DEF X!NONE
<1>8. Taken = {} => hwqp[list[q].id] = q
  <2>1. list[q].st \in HxDone
    BY <1>2, <1>3, <1>5 DEF HxList
  <2>2. list[q].st # "CONNECT_REQ"
    BY <2>1 DEF HxDone
  <2>3. q <= Len(list)
    BY <1>3, <1>5
  <2> QED
    BY <1>2, <1>5, <1>7, <2>2, <2>3 DEF HxQps
<1>9. calive = TRUE
  <2> SUFFICES ASSUME calive = FALSE
               PROVE  FALSE
    BY <1>2 DEF HxTypes
  <2>1. done_cnt >= ClientQps /\ done_cnt \in Nat /\ ClientQps \in Nat \ {0}
    BY <1>2 DEF HxClient, HxTypes, HxOK
  <2>2. 2 * n + done_cnt <= 2 * HxMade /\ HxMade \in Nat /\ HxMade <= ClientQps
    BY <1>2, <1>3, HxLength DEF HxCount
  <2>3. CASE "create_id" \in Failures
    <3>1. ClientQps < 2 * qp_cnt
      BY <2>3 DEF HxOK
    <3> QED
      BY <1>4, <2>1, <2>2, <3>1
  <2>4. CASE "create_id" \notin Failures
    BY <1>2, <2>1, <2>4 DEF HxCount
  <2> QED
    BY <2>3, <2>4
<1>10. blind = {} => list[q].id \in c2s
  BY <1>2, <1>3, <1>5 DEF HxExchange, HxExchanged
<1>11. /\ <<"qp", list[q].id>> \in cmem
       /\ blind = {} => <<"rdma", IF common_buf THEN chunk ELSE list[q].id>> \in cmem
  BY <1>2, <1>3, <1>5, <1>9, <1>10 DEF HxBuffers
<1> QED
  BY <1>6, <1>7, <1>8, <1>11

\* While the engine of the handshake test works on a QP, its ring and the memory
\* it reads are allocated; where no other program holds QPs of the board, the QP
\* belongs to the connection it was configured for; where every poll found its
\* message, the client's QP and the buffer it writes to are there.  So it is for
\* any numbers of QPs, whatever QPs other programs hold, and whatever polls or
\* allocations fail; if identifiers cannot be created, only where the server waits
\* for more than half of the client's QPs (hw_hs_qp_cfg, reset_hw_hsk, main of the
\* client).
THEOREM ConsumerEngineMemoryLive ==
    ASSUME HxOK
    PROVE  ConsumerSpec => []EngineMemoryLive
<1> DEFINE Inv == program = "hw_hs" => HxEngine /\ (HxLive => HxInv)
<1>0. qp_cnt \in Nat
  BY DEF HxOK
<1>1. ConsumerInit => Inv
  BY <1>0, HxEngineInit, HxInit DEF ConsumerInit
<1>2. Inv /\ [ConsumerNext]_consumerVars => Inv'
  BY <1>0, HxSteps, HxEngineStep, HxStep
<1>3. Inv => EngineMemoryLive
  BY HxEngineOwns DEF EngineMemoryLive
<1> QED
  BY <1>1, <1>2, <1>3, PTL DEF ConsumerSpec
-----------------------------------------------------------------------------
(* The ping test, for any number of QPs and of pings, however many connection *)
(* attempts and polls of the server fail.                                     *)

RpOK == ClientQps \in Nat \ {0} /\ count \in Nat

RpRec == [id : R!Ids, state : {"CONNECT_REQ", "CONNECT_REQ_PROC", "ESTABLISHED",
                               "READY_FOR_DATA_TRANSFER", "INVALID_STATE"}]
RpEvent == [event : {"CONNECT_REQUEST", "ESTABLISHED", "DISCONNECTED", "ADDR_RESOLVED",
                     "ROUTE_RESOLVED", "ERROR"},
            id : R!Ids]
RpCb == [state : {"IDLE", "ADDR_RESOLVED", "ROUTE_RESOLVED", "CONNECTED", "RDMA_READ_ADV",
                  "RDMA_WRITE_ADV", "RDMA_WRITE_COMPLETE"},
         sem : Nat, sem_data : Nat, cm_chnl_en : BOOLEAN, cm_fail : BOOLEAN,
         cm_established : BOOLEAN, test_done : BOOLEAN]
RpSdata == [pc : {"out", "in", "done"}, pos : Nat, i : Nat]
RpSmain == [pc : {"scan", "walk", "key", "read", "go", "tell", "over"}, pos : Nat, i : Nat,
            iter_cnt : Nat, cnt : Nat]
RpCmain == [pc : {"create", "bind", "connect", "end"}, i : 1 .. ClientQps + 1, ret : {0, -1}]
RpCdata == [pc : {"look", "ping", "adv", "complete"}, i : R!Ids, ping : Nat]

RpServerTypes ==
    /\ list \in Seq(RpRec) /\ sev \in Seq(RpEvent)
    /\ sdata \in RpSdata /\ sdata.pos <= Len(list) /\ smain \in RpSmain
    /\ sbuf \in [R!Ids -> Int] /\ s2c \in [R!Ids -> Nat] /\ c2s \in [R!Ids -> Nat]
RpClientTypes ==
    /\ cev \in Seq(RpEvent) /\ calive \in BOOLEAN /\ cb \in [R!Ids -> RpCb]
    /\ cmain \in RpCmain /\ cdata \in RpCdata /\ ccm \in 0 .. ClientQps /\ ccq \in 0 .. ClientQps
    /\ rdma_buf \in [R!Ids -> Int] /\ crecv \in [R!Ids -> Nat]

\* Who holds cm_list_lock, and what main is at.
RpLock ==
    /\ sdata.pc = "in" => cm_list_lock = "data"
    /\ smain.pc # "scan" => cm_list_lock = "main" /\ smain.pos >= 1
    /\ smain.pc \notin {"scan", "walk"} =>
          smain.pos <= Len(list) /\ list[smain.pos].state = "READY_FOR_DATA_TRANSFER"

\* The connection the client is setting up.
RpOpen == cmain.pc = "connect" /\ cb[cmain.i].state = "ROUTE_RESOLVED" /\ cb[cmain.i].sem = 0

\* The list: identifiers in the order of the table.
RpList ==
    /\ \A i, j \in 1 .. Len(list) : i < j => list[i].id < list[j].id
    /\ \A k \in 1 .. Len(list) :
          list[k].id < cmain.i \/ (list[k].id = cmain.i /\ cmain.pc = "connect")
    /\ \A k \in 1 .. Len(list) : list[k].state = "CONNECT_REQ" =>
          RpOpen /\ list[k].id = cmain.i /\ Len(cev) = 0

\* The events on their way to the server.
RpSev ==
    \A k \in 1 .. Len(sev) :
       \/ /\ sev[k].event = "CONNECT_REQUEST" /\ sev[k].id = cmain.i /\ RpOpen /\ Len(cev) = 0
          /\ \A j \in 1 .. Len(list) : list[j].id < sev[k].id
          /\ \A j \in 1 .. Len(sev) : j # k => sev[j].event # "CONNECT_REQUEST"
       \/ /\ sev[k].event = "ESTABLISHED"
          /\ sev[k].id < cmain.i \/ (sev[k].id = cmain.i /\ cb[cmain.i].state = "CONNECTED")
          /\ \E j \in 1 .. Len(list) :
                list[j].id = sev[k].id /\ list[j].state = "CONNECT_REQ_PROC"
          /\ \A j \in 1 .. Len(sev) :
                j # k /\ sev[j].event = "ESTABLISHED" => sev[j].id # sev[k].id
       \/ sev[k].event = "DISCONNECTED"

\* The event on its way to the client.
RpCev ==
    /\ Len(cev) <= 1
    /\ Len(cev) = 1 =>
          /\ cev[1].id = cmain.i /\ cb[cmain.i].sem = 0
          /\ \/ cev[1].event \in {"ADDR_RESOLVED", "ROUTE_RESOLVED"} /\ cmain.pc = "bind"
             \/ /\ cev[1].event = "ESTABLISHED" /\ RpOpen
                /\ \E j \in 1 .. Len(list) :
                      list[j].id = cmain.i /\ list[j].state = "CONNECT_REQ_PROC"
             \/ cev[1].event = "ERROR" /\ (cmain.pc = "bind" \/ RpOpen)

\* The QPs the client has not got to, and the one it sets up.
RpClient ==
    /\ cmain.pc = "end" <=> cmain.i = ClientQps + 1
    /\ calive = FALSE => cmain.pc = "end"
    /\ \A id \in R!Ids : cb[id].cm_established = TRUE \/ cb[id].test_done = TRUE
                            => id < cmain.i
    /\ \A id \in R!Ids : id # cmain.i \/ cmain.pc = "create" => cb[id].sem = 0
    /\ cmain.pc \in {"bind", "connect"} => cb[cmain.i].sem <= 1

\* The receives of the client.
RpRecv ==
    /\ \A id \in R!Ids : id > cmain.i \/ (id = cmain.i /\ cmain.pc # "connect") => crecv[id] = 0
    /\ cmain.pc = "connect" => crecv[cmain.i] = 1
    /\ \A id \in R!Ids : cb[id].cm_established = TRUE \/ cb[id].test_done = TRUE
                            => crecv[id] = IF ccq = id THEN 0 ELSE 1

\* What main of the server, at s with the list l, has done of the pings of id:
\* it has ended them, after the last one or a failing poll, or it has done none
\* or p of them.  It is at pc in the ping after p.
RpServed(l, s, id) ==
    \E k \in 1 .. Len(l) : /\ l[k].id = id
                           /\ l[k].state = "INVALID_STATE" \/ (s.pc = "over" /\ s.pos = k)
RpFresh(l, s, id) ==
    \A k \in 1 .. Len(l) : l[k].id = id =>
        /\ l[k].state # "INVALID_STATE"
        /\ s.pc \notin {"scan", "walk"} /\ s.pos = k => s.pc = "key" /\ s.i = 0
RpAt(l, s, id, pc, p) == s.pc = pc /\ l[s.pos].id = id /\ s.i = p /\ s.iter_cnt = count
RpBefore(l, s, id, p) ==
    \/ p = 0 /\ RpFresh(l, s, id)
    \/ p > 0 /\ p < count /\ RpAt(l, s, id, "key", p)
    \/ RpServed(l, s, id)

\* A QP the client does not ping at the moment has no message on its way.
RpRests ==
    \A id \in R!Ids : cdata.pc = "look" \/ cdata.i # id =>
        /\ c2s[id] = 0 /\ s2c[id] = 0 /\ ccq # id /\ cb[id].sem_data = 0
        /\ RpFresh(list, smain, id) \/ RpServed(list, smain, id)
        /\ cb[id].test_done = TRUE => RpServed(list, smain, id)

\* The ping under way: its one token is a message, a completion or a wake-up.
RpSent ==
    /\ c2s[cdata.i] = 1 /\ s2c[cdata.i] = 0 /\ ccq = 0 /\ cb[cdata.i].sem_data = 0
RpTaken ==
    /\ c2s[cdata.i] = 0 /\ s2c[cdata.i] = 0 /\ ccq = 0 /\ cb[cdata.i].sem_data = 0
RpAnswered ==
    /\ c2s[cdata.i] = 0 /\ s2c[cdata.i] = 1 /\ ccq = 0 /\ cb[cdata.i].sem_data = 0
RpComplete ==
    /\ c2s[cdata.i] = 0 /\ s2c[cdata.i] = 0 /\ ccq = cdata.i /\ cb[cdata.i].sem_data = 0
RpWoken ==
    /\ c2s[cdata.i] = 0 /\ s2c[cdata.i] = 0 /\ ccq = 0 /\ cb[cdata.i].sem_data = 1

RpPinged ==
    cdata.pc # "look" =>
       /\ cb[cdata.i].cm_established = TRUE /\ cb[cdata.i].test_done = FALSE
       /\ cdata.pc # "ping" => cdata.ping >= 1
       /\ cdata.pc = "ping" => cdata.ping = 0 \/ cdata.ping < count
       /\ cdata.pc # "ping" => cdata.ping = 1 \/ cdata.ping <= count

\* The key of the buffer is sent, the server reads, and answers.  A server that
\* has ended the pings does no more of it.
RpGone == RpServed(list, smain, cdata.i)
RpPing ==
    cdata.pc = "ping" => RpTaken /\ RpBefore(list, smain, cdata.i, cdata.ping)
RpAdv ==
    cdata.pc = "adv" =>
       \/ /\ RpSent /\ RpBefore(list, smain, cdata.i, cdata.ping - 1)
          /\ rdma_buf[cdata.i] = cdata.ping /\ cb[cdata.i].state = "RDMA_READ_ADV"
       \/ /\ RpTaken /\ (RpAt(list, smain, cdata.i, "read", cdata.ping - 1) \/ RpGone)
          /\ rdma_buf[cdata.i] = cdata.ping /\ cb[cdata.i].state = "RDMA_READ_ADV"
       \/ /\ \/ /\ RpAt(list, smain, cdata.i, "go", cdata.ping - 1)
                /\ sbuf[cdata.i] = cdata.ping
             \/ RpGone
          /\ \/ RpAnswered /\ cb[cdata.i].state = "RDMA_READ_ADV"
             \/ (RpComplete \/ RpWoken) /\ cb[cdata.i].state = "RDMA_WRITE_ADV"

\* The buffer is wiped, the server writes it, and says so.
RpDone ==
    cdata.pc = "complete" =>
       \/ /\ RpSent /\ cb[cdata.i].state = "RDMA_WRITE_ADV"
          /\ \/ /\ RpAt(list, smain, cdata.i, "go", cdata.ping - 1)
                /\ sbuf[cdata.i] = cdata.ping
             \/ RpGone
       \/ /\ RpTaken /\ cb[cdata.i].state = "RDMA_WRITE_ADV"
          /\ \/ /\ RpAt(list, smain, cdata.i, "tell", cdata.ping - 1)
                /\ rdma_buf[cdata.i] = cdata.ping
             \/ RpGone
       \/ /\ RpBefore(list, smain, cdata.i, cdata.ping) /\ rdma_buf[cdata.i] = cdata.ping
          /\ \/ RpAnswered /\ cb[cdata.i].state = "RDMA_WRITE_ADV"
             \/ (RpComplete \/ RpWoken) /\ cb[cdata.i].state = "RDMA_WRITE_COMPLETE"

RpTypes == RpServerTypes /\ RpClientTypes
RpConn == RpLock /\ RpList /\ RpSev /\ RpCev /\ RpClient
RpPings == RpRests /\ RpPinged /\ RpPing /\ RpAdv /\ RpDone
RpInv == RpTypes /\ RpConn /\ RpRecv /\ RpPings
-----------------------------------------------------------------------------
LEMMA RpInit ==
    ASSUME RpOK, R!Init
    PROVE  RpInv
<1> USE DEF R!Init, R!ServerInit, R!ClientInit, RpOK
<1>1. RpServerTypes
  <2>1. list \in Seq(RpRec) /\ sev \in Seq(RpEvent) /\ Len(list) = 0
    OBVIOUS
  <2>2. sdata \in RpSdata /\ sdata.pos <= Len(list)
    BY <2>1 DEF RpSdata
  <2>3. smain \in RpSmain
    BY DEF RpSmain
  <2>4. sbuf \in [R!Ids -> Int] /\ s2c \in [R!Ids -> Nat] /\ c2s \in [R!Ids -> Nat]
    BY DEF R!NoBuf
  <2> QED
    BY <2>1, <2>2, <2>3, <2>4 DEF RpServerTypes
<1>2. RpClientTypes
  <2>1. cev \in Seq(RpEvent)
    OBVIOUS
  <2>2. cb \in [R!Ids -> RpCb]
    BY DEF RpCb
  <2>3. cmain \in RpCmain /\ cdata \in RpCdata
    BY DEF RpCmain, RpCdata, R!Ids
  <2>4. ccm \in 0 .. ClientQps /\ ccq \in 0 .. ClientQps
    OBVIOUS
  <2>5. rdma_buf \in [R!Ids -> Int] /\ crecv \in [R!Ids -> Nat]
    BY DEF R!NoBuf
  <2> QED
    BY <2>1, <2>2, <2>3, <2>4, <2>5 DEF RpClientTypes
<1>3. RpLock /\ RpList /\ RpSev /\ RpCev
  BY DEF RpLock, RpList, RpSev, RpCev
<1>4. \A id \in R!Ids : /\ cb[id].sem = 0 /\ cb[id].sem_data = 0 /\ cb[id].cm_established = FALSE
                        /\ cb[id].test_done = FALSE
  OBVIOUS
<1>5. RpClient
  BY <1>4 DEF RpClient
<1>6. RpRecv
  BY <1>4 DEF RpRecv
<1>7. RpRests
  BY <1>4 DEF RpRests, RpFresh, R!Ids
<1>8. RpPinged /\ RpPing /\ RpAdv /\ RpDone
  BY DEF RpPinged, RpPing, RpAdv, RpDone
<1> QED
  BY <1>1, <1>2, <1>3, <1>5, <1>6, <1>7, <1>8 DEF RpInv, RpTypes, RpConn, RpPings

\* What the types say of the entries.
LEMMA RpEntries ==
    ASSUME RpOK, RpTypes
    PROVE  /\ Len(list) \in Nat /\ Len(sev) \in Nat /\ Len(cev) \in Nat
           /\ \A k \in 1 .. Len(list) : list[k] \in RpRec /\ list[k].id \in R!Ids
                                       /\ list[k].id \in Nat
           /\ \A k \in 1 .. Len(sev) : sev[k] \in RpEvent /\ sev[k].id \in R!Ids
                                      /\ sev[k].id \in Nat
           /\ \A k \in 1 .. Len(cev) : cev[k] \in RpEvent /\ cev[k].id \in R!Ids
           /\ \A id \in R!Ids : id \in Nat /\ id > 0 /\ id <= ClientQps
           /\ \A id \in R!Ids : /\ cb[id] \in RpCb /\ cb[id].sem \in Nat /\ cb[id].sem_data \in Nat
                                /\ cb[id].test_done \in BOOLEAN
                                /\ cb[id].cm_established \in BOOLEAN
           /\ cmain.i \in Nat /\ cmain.i >= 1 /\ cmain.i <= ClientQps + 1 /\ ClientQps \in Nat
           /\ cdata.i \in R!Ids /\ cdata.ping \in Nat /\ smain.pos \in Nat /\ smain.i \in Nat
<1> USE DEF RpTypes, RpServerTypes, RpClientTypes
<1>1. \A id \in R!Ids : id \in Nat /\ id > 0 /\ id <= ClientQps
  BY DEF RpOK, R!Ids
<1>2. \A k \in 1 .. Len(list) : list[k] \in RpRec
  OBVIOUS
<1>3. \A r \in RpRec : r.id \in R!Ids
  BY DEF RpRec
<1>4. \A k \in 1 .. Len(sev) : sev[k] \in RpEvent
  OBVIOUS
<1>5. \A k \in 1 .. Len(cev) : cev[k] \in RpEvent
  OBVIOUS
<1>6. \A r \in RpEvent : r.id \in R!Ids
  BY DEF RpEvent
<1>7. \A id \in R!Ids : cb[id] \in RpCb
  OBVIOUS
<1>8. \A r \in RpCb : r.sem \in Nat /\ r.sem_data \in Nat /\ r.test_done \in BOOLEAN
                      /\ r.cm_established \in BOOLEAN
  BY DEF RpCb
<1>9. cmain.i \in Nat /\ cmain.i >= 1 /\ cmain.i <= ClientQps + 1 /\ ClientQps \in Nat
  BY DEF RpCmain, RpOK
<1>10. cdata.i \in R!Ids /\ cdata.ping \in Nat
  BY DEF RpCdata
<1>11. smain.pos \in Nat /\ smain.i \in Nat
  BY DEF RpSmain
<1>12. Len(list) \in Nat /\ Len(sev) \in Nat /\ Len(cev) \in Nat
  OBVIOUS
<1> QED
  BY <1>1, <1>2, <1>3, <1>4, <1>5, <1>6, <1>7, <1>8, <1>9, <1>10, <1>11, <1>12

\* An identifier stands in the list once.
LEMMA RpOnce ==
    ASSUME RpOK, RpTypes, RpList, NEW i \in 1 .. Len(list), NEW j \in 1 .. Len(list),
           list[i].id = list[j].id
    PROVE  i = j
<1>1. list[i].id \in Nat /\ list[j].id \in Nat /\ Len(list) \in Nat
  BY RpEntries
<1>2. (i < j => list[i].id < list[j].id) /\ (j < i => list[j].id < list[i].id)
  BY DEF RpList
<1> QED
  BY <1>1, <1>2

LEMMA RpPlace ==
    ASSUME RpOK, RpTypes, RpList, NEW k \in 1 .. Len(list)
    PROVE  R!Place(list[k].id) = k
BY RpOnce DEF R!Place

\* What a part of the invariant is about: it holds on while that stays.
LEMMA RpKeep ==
    ASSUME RpInv
    PROVE  /\ UNCHANGED <<list, sdata, smain, cm_list_lock>> => RpLock'
           /\ UNCHANGED <<list, cev, cb, cmain>> => RpList'
           /\ UNCHANGED <<list, sev, cev, cb, cmain>> => RpSev'
           /\ UNCHANGED <<list, cev, cb, cmain>> => RpCev'
           /\ UNCHANGED <<cb, cmain, calive>> => RpClient'
           /\ UNCHANGED <<cb, cmain, crecv, ccq>> => RpRecv'
           /\ UNCHANGED <<list, smain, c2s, s2c, ccq, cb, cdata, sbuf, rdma_buf>> => RpPings'
<1> USE DEF RpInv, RpConn
<1>1. UNCHANGED <<list, sdata, smain, cm_list_lock>> => RpLock'
  BY DEF RpLock
<1>2. UNCHANGED <<list, cev, cb, cmain>> => RpList'
  BY DEF RpList, RpOpen
<1>3. UNCHANGED <<list, sev, cev, cb, cmain>> => RpSev'
  BY DEF RpSev, RpOpen
<1>4. UNCHANGED <<list, cev, cb, cmain>> => RpCev'
  BY DEF RpCev, RpOpen
<1>5. UNCHANGED <<cb, cmain, calive>> => RpClient'
  BY DEF RpClient
<1>6. UNCHANGED <<cb, cmain, crecv, ccq>> => RpRecv'
  BY DEF RpRecv
<1>7. ASSUME UNCHANGED <<list, smain, c2s, s2c, ccq, cb, cdata, sbuf, rdma_buf>>
      PROVE  RpPings'
  <2>1. RpRests' /\ RpPinged'
    BY <1>7 DEF RpPings, RpRests, RpPinged
  <2>2. RpPing' /\ RpAdv' /\ RpDone'
    BY <1>7 DEF RpPings, RpPing, RpAdv, RpDone, RpGone, RpSent, RpTaken, RpAnswered, RpComplete,
                RpWoken
  <2> QED
    BY <2>1, <2>2 DEF RpPings
<1> QED
  BY <1>1, <1>2, <1>3, <1>4, <1>5, <1>6, <1>7

\* What main of the server has done of the pings stays.
RpServerStays ==
    \A id \in R!Ids :
        /\ RpFresh(list, smain, id) => RpFresh(list', smain', id)
        /\ RpServed(list, smain, id) => RpServed(list', smain', id)
        /\ \A pc \in {"key", "read", "go", "tell"} : \A p \in Nat :
              RpAt(list, smain, id, pc, p) => RpAt(list', smain', id, pc, p)
\* So does the client's part of them.
RpClientStays ==
    /\ UNCHANGED <<c2s, s2c, ccq, cdata>>
    /\ \A id \in R!Ids : cb'[id].sem_data = cb[id].sem_data /\ cb'[id].test_done = cb[id].test_done
    /\ cdata.pc # "look" =>
          /\ cb'[cdata.i].state = cb[cdata.i].state
          /\ cb'[cdata.i].cm_established = cb[cdata.i].cm_established
          /\ rdma_buf'[cdata.i] = rdma_buf[cdata.i]

LEMMA RpPingsStay ==
    ASSUME RpOK, RpInv, RpServerStays, RpClientStays,
           cdata.pc # "look" /\ smain.pc = "go" => sbuf'[cdata.i] = sbuf[cdata.i]
    PROVE  RpPings'
<1> USE DEF RpInv, RpPings
<1>0. cdata.i \in R!Ids /\ cdata.ping \in Nat /\ cdata' = cdata
  BY RpEntries DEF RpClientStays
<1>1. RpRests'
  BY DEF RpRests, RpServerStays, RpClientStays
<1>2. RpPinged'
  BY <1>0 DEF RpPinged, RpClientStays
<1>3. \A p \in Nat : RpBefore(list, smain, cdata.i, p) => RpBefore(list', smain', cdata.i, p)
  BY <1>0 DEF RpServerStays, RpBefore
<1>4. \A p \in Nat : \A pc \in {"key", "read", "go", "tell"} :
         RpAt(list, smain, cdata.i, pc, p) => RpAt(list', smain', cdata.i, pc, p)
  BY <1>0 DEF RpServerStays
<1>5. /\ (RpSent => RpSent') /\ (RpTaken => RpTaken') /\ (RpAnswered => RpAnswered')
      /\ (RpComplete => RpComplete') /\ (RpWoken => RpWoken')
  BY <1>0 DEF RpSent, RpTaken, RpAnswered, RpComplete, RpWoken, RpClientStays
<1>6. RpPing'
  BY <1>0, <1>3, <1>5 DEF RpPing
<1>7. cdata.pc \in {"adv", "complete"} =>
         /\ cdata.ping - 1 \in Nat /\ cb'[cdata.i].state = cb[cdata.i].state
         /\ rdma_buf'[cdata.i] = rdma_buf[cdata.i]
  BY <1>0 DEF RpPinged, RpClientStays
<1>8. \A p \in Nat : RpAt(list, smain, cdata.i, "go", p) => smain.pc = "go"
  BY DEF RpAt
<1>9. RpGone => RpGone'
  BY <1>0 DEF RpGone, RpServerStays
<1>10. RpAdv'
  BY <1>0, <1>3, <1>4, <1>5, <1>7, <1>8, <1>9 DEF RpAdv
<1>11. RpDone'
  BY <1>0, <1>3, <1>4, <1>5, <1>7, <1>8, <1>9 DEF RpDone
<1> QED
  BY <1>1, <1>2, <1>6, <1>10, <1>11
-----------------------------------------------------------------------------
(* The server: cm_thread and data_thread. *)

\* One entry of the list gets another state.
RpMarked(l, m, p, v) ==
    /\ m \in Seq(RpRec) /\ Len(m) = Len(l)
    /\ \A k \in 1 .. Len(l) : m[k].id = l[k].id /\ m[k].state = IF k = p THEN v ELSE l[k].state

LEMMA RpMark ==
    ASSUME NEW l, NEW m, NEW p, NEW v, l \in Seq(RpRec), p \in 1 .. Len(l),
           v \in {"CONNECT_REQ", "CONNECT_REQ_PROC", "ESTABLISHED", "READY_FOR_DATA_TRANSFER",
                  "INVALID_STATE"},
           m = [l EXCEPT ![p].state = v]
    PROVE  RpMarked(l, m, p, v)
<1>1. l[p] \in RpRec /\ \A k \in 1 .. Len(l) : l[k] \in RpRec
  OBVIOUS
<1>2. PICK r : r = [l[p] EXCEPT !.state = v]
  OBVIOUS
<1>3. r \in RpRec /\ r.id = l[p].id /\ r.state = v
  BY <1>1, <1>2 DEF RpRec
<1>4. m = [l EXCEPT ![p] = r]
  BY <1>2
<1>5. m \in Seq(RpRec) /\ Len(m) = Len(l)
      /\ \A k \in 1 .. Len(l) : m[k] = IF k = p THEN r ELSE l[k]
  BY <1>3, <1>4
<1> QED
  BY <1>3, <1>5 DEF RpMarked

\* A request is added at the end.
RpAppended(l, m, id) ==
    /\ m \in Seq(RpRec) /\ Len(m) = Len(l) + 1
    /\ \A k \in 1 .. Len(l) : m[k] = l[k]
    /\ m[Len(l) + 1].id = id /\ m[Len(l) + 1].state = "CONNECT_REQ"

LEMMA RpAppend ==
    ASSUME NEW l, NEW m, NEW id, l \in Seq(RpRec), id \in R!Ids,
           m = Append(l, [id |-> id, state |-> "CONNECT_REQ"])
    PROVE  RpAppended(l, m, id)
<1>1. PICK r : r = [id |-> id, state |-> "CONNECT_REQ"]
  OBVIOUS
<1>2. r \in RpRec /\ r.id = id /\ r.state = "CONNECT_REQ"
  BY <1>1 DEF RpRec
<1>3. m = Append(l, r)
  BY <1>1
<1>4. m \in Seq(RpRec) /\ Len(m) = Len(l) + 1 /\ m[Len(l) + 1] = r
      /\ \A k \in 1 .. Len(l) : m[k] = l[k]
  BY <1>2, <1>3
<1> QED
  BY <1>2, <1>4 DEF RpAppended

\* While main does not look at the list, the others may change it.
LEMMA RpListGrows ==
    ASSUME RpOK, RpInv, smain.pc = "scan", smain' = smain,
           \A k \in 1 .. Len(list) :
              /\ k \in 1 .. Len(list') /\ list'[k].id = list[k].id
              /\ list'[k].state = "INVALID_STATE" <=> list[k].state = "INVALID_STATE",
           \A k \in 1 .. Len(list') : k \in 1 .. Len(list) \/ list'[k].state # "INVALID_STATE"
    PROVE  RpServerStays
BY DEF RpServerStays, RpFresh, RpServed, RpAt

\* The events that are left after the first.
LEMMA RpSevTail ==
    ASSUME RpOK, RpTypes, sev # << >>, sev' = Tail(sev)
    PROVE  /\ sev' \in Seq(RpEvent) /\ Len(sev) >= 1 /\ Len(sev') \in Nat
           /\ \A k \in 1 .. Len(sev') : sev'[k] = sev[k + 1] /\ k + 1 \in 1 .. Len(sev) /\ k + 1 # 1
           /\ Head(sev) = sev[1] /\ 1 \in 1 .. Len(sev)
<1>1. /\ sev' \in Seq(RpEvent) /\ Len(sev') = Len(sev) - 1 /\ Len(sev) \in Nat /\ Len(sev) >= 1
      /\ \A k \in 1 .. Len(sev') : sev'[k] = sev[k + 1]
      /\ Head(sev) = sev[1]
  BY DEF RpTypes, RpServerTypes
<1>2. PICK n : n = Len(sev)
  OBVIOUS
<1>3. \A k \in 1 .. n - 1 : k + 1 \in 1 .. n /\ k + 1 # 1
  BY <1>1, <1>2
<1> QED
  BY <1>1, <1>2, <1>3

RpServerRests == UNCHANGED <<s2c, c2s, calive, cb, cmain, ccm, cdata, ccq, rdma_buf, crecv>>

LEMMA RpClientRests ==
    ASSUME RpServerRests
    PROVE  RpClientStays /\ (RpOpen' <=> RpOpen)
BY DEF RpServerRests, RpClientStays, RpOpen

\* A request joins the list.
LEMMA RpScmRequest ==
    ASSUME RpOK, RpInv, R!ScmListEvent, sev[1].event = "CONNECT_REQUEST"
    PROVE  RpInv'
<1> USE DEF RpInv, RpConn
<1>0. /\ RpServerRests /\ UNCHANGED <<cm_list_lock, sdata, smain, sbuf, cev>>
      /\ cm_list_lock = "free" /\ sev # << >> /\ sev' = Tail(sev)
  BY DEF R!ScmListEvent, R!threadVars, R!clientVars, RpServerRests
<1>1. /\ sev' \in Seq(RpEvent) /\ Head(sev) = sev[1] /\ 1 \in 1 .. Len(sev)
      /\ \A k \in 1 .. Len(sev') : sev'[k] = sev[k + 1] /\ k + 1 \in 1 .. Len(sev) /\ k + 1 # 1
  BY <1>0, RpSevTail
<1>2. /\ sev[1].id = cmain.i /\ RpOpen /\ Len(cev) = 0
      /\ \A j \in 1 .. Len(list) : list[j].id < sev[1].id
      /\ \A j \in 1 .. Len(sev) : j # 1 => sev[j].event # "CONNECT_REQUEST"
  BY <1>1 DEF RpSev
<1>3. sev[1].id \in R!Ids
  BY <1>1, RpEntries
<1>4. PICK n : n = Len(list)
  OBVIOUS
<1>5. n \in Nat /\ list \in Seq(RpRec)
  BY <1>4, RpEntries DEF RpTypes, RpServerTypes
<1>6. RpAppended(list, list', sev[1].id)
  <2>1. list' = Append(list, [id |-> sev[1].id, state |-> "CONNECT_REQ"])
    BY <1>1 DEF R!ScmListEvent
  <2> QED
    BY <1>3, <1>5, <2>1, RpAppend
<1>7. /\ list' \in Seq(RpRec) /\ Len(list') = n + 1 /\ \A k \in 1 .. n : list'[k] = list[k]
      /\ list'[n + 1].id = cmain.i /\ list'[n + 1].state = "CONNECT_REQ"
  BY <1>2, <1>4, <1>6 DEF RpAppended
<1>8. \A k \in 1 .. n + 1 : k \in 1 .. n \/ k = n + 1
  BY <1>5
<1>9. \A k \in 1 .. n : k \in 1 .. n + 1
  BY <1>5
<1>10. smain.pc = "scan" /\ sdata.pc # "in"
  BY <1>0 DEF RpLock
<1>11. RpTypes'
  <2>1. sdata.pos <= n + 1
    <3>1. sdata.pos \in Nat /\ sdata.pos <= n
      BY <1>4 DEF RpTypes, RpServerTypes, RpSdata
    <3> QED
      BY <1>5, <3>1
  <2> QED
    BY <1>0, <1>1, <1>7, <2>1 DEF RpTypes, RpServerTypes, RpClientTypes, RpServerRests
<1>12. RpLock'
  BY <1>0, <1>10 DEF RpLock
<1>13. RpOpen' /\ cmain' = cmain /\ cb' = cb /\ Len(cev') = 0
  BY <1>0, <1>2, RpClientRests DEF RpServerRests
<1>14. RpList'
  <2>1. \A i, j \in 1 .. n + 1 : i < j => list'[i].id < list'[j].id
    <3> SUFFICES ASSUME NEW i \in 1 .. n + 1, NEW j \in 1 .. n + 1, i < j
                 PROVE  list'[i].id < list'[j].id
      OBVIOUS
    <3>1. i \in 1 .. n
      BY <1>5
    <3>2. CASE j \in 1 .. n
      BY <1>4, <1>7, <3>1, <3>2 DEF RpList
    <3>3. CASE j = n + 1
      BY <1>2, <1>4, <1>7, <3>1, <3>3
    <3> QED
      BY <1>8, <3>2, <3>3
  <2>2. \A k \in 1 .. n + 1 : list'[k].id < cmain.i \/ (list'[k].id = cmain.i /\ cmain.pc = "connect")
    BY <1>2, <1>4, <1>7, <1>8 DEF RpList, RpOpen
  <2>3. \A k \in 1 .. n + 1 : list'[k].state = "CONNECT_REQ" => list'[k].id = cmain.i
    BY <1>4, <1>7, <1>8 DEF RpList
  <2> QED
    BY <1>7, <1>13, <2>1, <2>2, <2>3 DEF RpList
<1>15. RpSev'
  <2> SUFFICES ASSUME NEW k \in 1 .. Len(sev')
               PROVE \/ /\ sev'[k].event = "ESTABLISHED"
                        /\ sev'[k].id < cmain.i \/ (sev'[k].id = cmain.i /\ cb[cmain.i].state = "CONNECTED")
                        /\ \E j \in 1 .. Len(list') :
                              list'[j].id = sev'[k].id /\ list'[j].state = "CONNECT_REQ_PROC"
                        /\ \A j \in 1 .. Len(sev') :
                              j # k /\ sev'[j].event = "ESTABLISHED" => sev'[j].id # sev'[k].id
                     \/ sev'[k].event = "DISCONNECTED"
    BY <1>13 DEF RpSev
  <2>1. sev'[k] = sev[k + 1] /\ k + 1 \in 1 .. Len(sev) /\ k + 1 # 1
    BY <1>1
  <2>2. CASE sev[k + 1].event = "ESTABLISHED"
    <3>1. /\ sev[k + 1].id < cmain.i \/ (sev[k + 1].id = cmain.i /\ cb[cmain.i].state = "CONNECTED")
          /\ \E j \in 1 .. Len(list) :
                list[j].id = sev[k + 1].id /\ list[j].state = "CONNECT_REQ_PROC"
          /\ \A j \in 1 .. Len(sev) :
                j # k + 1 /\ sev[j].event = "ESTABLISHED" => sev[j].id # sev[k + 1].id
      BY <2>1, <2>2 DEF RpSev
    <3>2. \A j \in 1 .. Len(sev') :
                j # k /\ sev'[j].event = "ESTABLISHED" => sev'[j].id # sev'[k].id
      <4>1. \A j \in 1 .. Len(sev') : j # k => j + 1 # k + 1
        OBVIOUS
      <4> QED
        BY <1>1, <2>1, <3>1, <4>1
    <3>3. \E j \in 1 .. Len(list') :
                list'[j].id = sev'[k].id /\ list'[j].state = "CONNECT_REQ_PROC"
      BY <1>4, <1>7, <1>9, <2>1, <3>1
    <3> QED
      BY <2>1, <2>2, <3>1, <3>2, <3>3
  <2>3. sev[k + 1].event \in {"ESTABLISHED", "DISCONNECTED"}
    BY <1>2, <2>1 DEF RpSev
  <2> QED
    BY <2>1, <2>2, <2>3
<1>16. RpCev'
  BY <1>13 DEF RpCev
<1>17. RpServerStays
  BY <1>0, <1>4, <1>7, <1>8, <1>9, <1>10, RpListGrows
<1>18. RpPings'
  BY <1>0, <1>10, <1>17, RpPingsStay, RpClientRests
<1> QED
  BY <1>0, <1>11, <1>12, <1>14, <1>15, <1>16, <1>18, RpKeep DEF RpServerRests

LEMMA RpMarkList ==
    ASSUME RpOK, RpInv, NEW p \in 1 .. Len(list), NEW v, RpMarked(list, list', p, v),
           v # "CONNECT_REQ", UNCHANGED <<cmain, cb, cev>>
    PROVE  RpList'
<1> USE DEF RpInv, RpConn
<1>1. Len(list') = Len(list)
      /\ \A k \in 1 .. Len(list) : list'[k].id = list[k].id
           /\ list'[k].state = IF k = p THEN v ELSE list[k].state
  BY DEF RpMarked
<1>2. \A k \in 1 .. Len(list) : list'[k].state = "CONNECT_REQ" => list[k].state = "CONNECT_REQ"
  BY <1>1
<1>3. RpOpen' <=> RpOpen
  BY DEF RpOpen
<1> QED
  BY <1>1, <1>2, <1>3 DEF RpList

\* An established connection is marked.
LEMMA RpScmEstablished ==
    ASSUME RpOK, RpInv, R!ScmListEvent, sev[1].event = "ESTABLISHED"
    PROVE  RpInv'
<1> USE DEF RpInv, RpConn
<1>0. /\ RpServerRests /\ UNCHANGED <<cm_list_lock, sdata, smain, sbuf, cev>>
      /\ cm_list_lock = "free" /\ sev # << >> /\ sev' = Tail(sev)
  BY DEF R!ScmListEvent, R!threadVars, R!clientVars, RpServerRests
<1>1. /\ sev' \in Seq(RpEvent) /\ Head(sev) = sev[1] /\ 1 \in 1 .. Len(sev)
      /\ \A k \in 1 .. Len(sev') : sev'[k] = sev[k + 1] /\ k + 1 \in 1 .. Len(sev) /\ k + 1 # 1
  BY <1>0, RpSevTail
<1>2. /\ sev[1].id < cmain.i \/ (sev[1].id = cmain.i /\ cb[cmain.i].state = "CONNECTED")
      /\ \A j \in 1 .. Len(sev) : j # 1 /\ sev[j].event = "ESTABLISHED" => sev[j].id # sev[1].id
  BY <1>1 DEF RpSev
<1>3. PICK p \in 1 .. Len(list) : list[p].id = sev[1].id /\ list[p].state = "CONNECT_REQ_PROC"
  BY <1>1 DEF RpSev
<1>4. RpMarked(list, list', p, "ESTABLISHED")
  <2>1. list' = R!update_ctx_entry(sev[1].id)
    BY <1>1 DEF R!ScmListEvent
  <2>2. R!Place(sev[1].id) = p
    BY <1>3, RpPlace
  <2>3. list' = [list EXCEPT ![p].state = "ESTABLISHED"]
    BY <2>1, <2>2 DEF R!update_ctx_entry
  <2> QED
    BY <2>3, RpMark DEF RpTypes, RpServerTypes
<1>5. /\ list' \in Seq(RpRec) /\ Len(list') = Len(list)
      /\ \A k \in 1 .. Len(list) : list'[k].id = list[k].id
           /\ list'[k].state = IF k = p THEN "ESTABLISHED" ELSE list[k].state
  BY <1>4 DEF RpMarked
<1>6. smain.pc = "scan" /\ sdata.pc # "in"
  BY <1>0 DEF RpLock
<1>7. RpTypes'
  BY <1>0, <1>1, <1>5 DEF RpTypes, RpServerTypes, RpClientTypes, RpServerRests
<1>8. RpLock'
  BY <1>0, <1>6 DEF RpLock
<1>9. (RpOpen' <=> RpOpen) /\ UNCHANGED <<cmain, cb, cev>>
  BY <1>0, RpClientRests DEF RpServerRests
<1>10. RpList'
  BY <1>4, <1>9, RpMarkList
<1>11. \A j \in 1 .. Len(list) : list[j].id # sev[1].id => list'[j].state = list[j].state
  BY <1>3, <1>5
<1>12. RpSev'
  <2> SUFFICES ASSUME NEW k \in 1 .. Len(sev')
               PROVE \/ /\ sev'[k].event = "CONNECT_REQUEST" /\ sev'[k].id = cmain.i /\ RpOpen
                        /\ Len(cev) = 0
                        /\ \A j \in 1 .. Len(list') : list'[j].id < sev'[k].id
                        /\ \A j \in 1 .. Len(sev') : j # k => sev'[j].event # "CONNECT_REQUEST"
                     \/ /\ sev'[k].event = "ESTABLISHED"
                        /\ \/ sev'[k].id < cmain.i
                           \/ sev'[k].id = cmain.i /\ cb[cmain.i].state = "CONNECTED"
                        /\ \E j \in 1 .. Len(list') :
                              list'[j].id = sev'[k].id /\ list'[j].state = "CONNECT_REQ_PROC"
                        /\ \A j \in 1 .. Len(sev') :
                              j # k /\ sev'[j].event = "ESTABLISHED" => sev'[j].id # sev'[k].id
                     \/ sev'[k].event = "DISCONNECTED"
    BY <1>9 DEF RpSev
  <2>1. sev'[k] = sev[k + 1] /\ k + 1 \in 1 .. Len(sev) /\ k + 1 # 1
    BY <1>1
  <2>2. \A j \in 1 .. Len(sev') : j # k => j + 1 # k + 1
    OBVIOUS
  <2>3. CASE sev[k + 1].event = "ESTABLISHED"
    <3>1. /\ sev[k + 1].id < cmain.i \/ (sev[k + 1].id = cmain.i /\ cb[cmain.i].state = "CONNECTED")
          /\ \E j \in 1 .. Len(list) :
                list[j].id = sev[k + 1].id /\ list[j].state = "CONNECT_REQ_PROC"
          /\ \A j \in 1 .. Len(sev) :
                j # k + 1 /\ sev[j].event = "ESTABLISHED" => sev[j].id # sev[k + 1].id
      BY <2>1, <2>3 DEF RpSev
    <3>2. \A j \in 1 .. Len(sev') :
                j # k /\ sev'[j].event = "ESTABLISHED" => sev'[j].id # sev'[k].id
      BY <1>1, <2>1, <2>2, <3>1
    <3>3. \E j \in 1 .. Len(list') :
                list'[j].id = sev'[k].id /\ list'[j].state = "CONNECT_REQ_PROC"
      <4>1. sev[k + 1].id # sev[1].id
        BY <1>2, <2>1, <2>3
      <4> QED
        BY <1>5, <1>11, <2>1, <3>1, <4>1
    <3> QED
      BY <2>1, <2>3, <3>1, <3>2, <3>3
  <2>4. CASE sev[k + 1].event = "CONNECT_REQUEST"
    <3>1. /\ sev[k + 1].id = cmain.i /\ RpOpen /\ Len(cev) = 0
          /\ \A j \in 1 .. Len(list) : list[j].id < sev[k + 1].id
          /\ \A j \in 1 .. Len(sev) : j # k + 1 => sev[j].event # "CONNECT_REQUEST"
      BY <2>1, <2>4 DEF RpSev
    <3>2. \A j \in 1 .. Len(sev') : j # k => sev'[j].event # "CONNECT_REQUEST"
      BY <1>1, <2>2, <3>1
    <3> QED
      BY <1>5, <2>1, <2>4, <3>1, <3>2
  <2>5. sev[k + 1].event \in {"ESTABLISHED", "DISCONNECTED", "CONNECT_REQUEST"}
    BY <2>1 DEF RpSev
  <2> QED
    BY <2>1, <2>3, <2>4, <2>5
<1>13. RpCev'
  <2>1. RpOpen => cmain.i # sev[1].id
    <3>1. sev[1].id \in Nat /\ cmain.i \in Nat
      BY <1>1, RpEntries
    <3> QED
      BY <1>2, <3>1 DEF RpOpen
  <2>2. ASSUME RpOpen, NEW j \in 1 .. Len(list), list[j].id = cmain.i,
               list[j].state = "CONNECT_REQ_PROC"
        PROVE  list'[j].id = cmain.i /\ list'[j].state = "CONNECT_REQ_PROC"
    BY <1>5, <1>11, <2>1, <2>2
  <2> QED
    BY <1>5, <1>9, <2>2 DEF RpCev
<1>14. RpServerStays
  <2>1. p \in 1 .. Len(list) /\ list[p].state # "INVALID_STATE"
    BY <1>3
  <2> QED
    BY <1>0, <1>5, <1>6, <2>1, RpListGrows
<1>15. RpPings'
  BY <1>0, <1>6, <1>14, RpPingsStay, RpClientRests
<1> QED
  BY <1>0, <1>7, <1>8, <1>10, <1>12, <1>13, <1>15, RpKeep DEF RpServerRests

\* A disconnection is counted.
LEMMA RpScmDisconnects ==
    ASSUME RpOK, RpInv, R!ScmDisconnected
    PROVE  RpInv'
<1> USE DEF RpInv, RpConn
<1>0. /\ RpServerRests /\ UNCHANGED <<list, cm_list_lock, sdata, smain, sbuf, cev>>
      /\ sev # << >> /\ sev' = Tail(sev)
  BY DEF R!ScmDisconnected, R!threadVars, R!clientVars, RpServerRests
<1>1. /\ sev' \in Seq(RpEvent)
      /\ \A k \in 1 .. Len(sev') : sev'[k] = sev[k + 1] /\ k + 1 \in 1 .. Len(sev) /\ k + 1 # 1
  BY <1>0, RpSevTail
<1>2. RpTypes'
  BY <1>0, <1>1 DEF RpTypes, RpServerTypes, RpClientTypes, RpServerRests
<1>3. (RpOpen' <=> RpOpen) /\ UNCHANGED <<list, cmain, cb, cev>>
  BY <1>0, RpClientRests DEF RpServerRests
<1>4. RpSev'
  <2> SUFFICES ASSUME NEW k \in 1 .. Len(sev')
               PROVE \/ /\ sev'[k].event = "CONNECT_REQUEST" /\ sev'[k].id = cmain.i /\ RpOpen
                        /\ Len(cev) = 0
                        /\ \A j \in 1 .. Len(list) : list[j].id < sev'[k].id
                        /\ \A j \in 1 .. Len(sev') : j # k => sev'[j].event # "CONNECT_REQUEST"
                     \/ /\ sev'[k].event = "ESTABLISHED"
                        /\ \/ sev'[k].id < cmain.i
                           \/ sev'[k].id = cmain.i /\ cb[cmain.i].state = "CONNECTED"
                        /\ \E j \in 1 .. Len(list) :
                              list[j].id = sev'[k].id /\ list[j].state = "CONNECT_REQ_PROC"
                        /\ \A j \in 1 .. Len(sev') :
                              j # k /\ sev'[j].event = "ESTABLISHED" => sev'[j].id # sev'[k].id
                     \/ sev'[k].event = "DISCONNECTED"
    BY <1>3 DEF RpSev
  <2>1. sev'[k] = sev[k + 1] /\ k + 1 \in 1 .. Len(sev)
    BY <1>1
  <2>2. \A j \in 1 .. Len(sev') : j # k => j + 1 # k + 1
    OBVIOUS
  <2>3. CASE sev[k + 1].event = "ESTABLISHED"
    <3>1. /\ sev[k + 1].id < cmain.i \/ (sev[k + 1].id = cmain.i /\ cb[cmain.i].state = "CONNECTED")
          /\ \E j \in 1 .. Len(list) :
                list[j].id = sev[k + 1].id /\ list[j].state = "CONNECT_REQ_PROC"
          /\ \A j \in 1 .. Len(sev) :
                j # k + 1 /\ sev[j].event = "ESTABLISHED" => sev[j].id # sev[k + 1].id
      BY <2>1, <2>3 DEF RpSev
    <3>2. \A j \in 1 .. Len(sev') :
                j # k /\ sev'[j].event = "ESTABLISHED" => sev'[j].id # sev'[k].id
      BY <1>1, <2>1, <2>2, <3>1
    <3> QED
      BY <2>1, <2>3, <3>1, <3>2
  <2>4. CASE sev[k + 1].event = "CONNECT_REQUEST"
    <3>1. /\ sev[k + 1].id = cmain.i /\ RpOpen /\ Len(cev) = 0
          /\ \A j \in 1 .. Len(list) : list[j].id < sev[k + 1].id
          /\ \A j \in 1 .. Len(sev) : j # k + 1 => sev[j].event # "CONNECT_REQUEST"
      BY <2>1, <2>4 DEF RpSev
    <3>2. \A j \in 1 .. Len(sev') : j # k => sev'[j].event # "CONNECT_REQUEST"
      BY <1>1, <2>2, <3>1
    <3> QED
      BY <2>1, <2>4, <3>1, <3>2
  <2>5. sev[k + 1].event \in {"ESTABLISHED", "DISCONNECTED", "CONNECT_REQUEST"}
    BY <2>1 DEF RpSev
  <2> QED
    BY <2>1, <2>3, <2>4, <2>5
<1> QED
  BY <1>0, <1>2, <1>4, RpKeep DEF RpServerRests

LEMMA RpSdataLocks ==
    ASSUME RpOK, RpInv, R!SdataLock \/ R!SdataUnlock
    PROVE  RpInv'
<1> USE DEF RpInv, RpConn
<1>0. /\ RpServerRests /\ UNCHANGED <<list, smain, sbuf, cev, sev>>
  BY DEF R!SdataLock, R!SdataUnlock, R!clientVars, RpServerRests
<1>1. list \in Seq(RpRec) /\ Len(list) \in Nat /\ sdata \in RpSdata /\ sdata.pos <= Len(list)
  BY DEF RpTypes, RpServerTypes
<1>2. /\ sdata' \in RpSdata /\ sdata'.pos <= Len(list) /\ smain.pc = "scan"
      /\ sdata'.pc = "in" => cm_list_lock' = "data"
  <2>1. CASE R!SdataLock
    <3>1. PICK q : q = IF sdata.pos = 0 /\ list # << >> THEN 1 ELSE sdata.pos
      OBVIOUS
    <3>2. sdata' = [sdata EXCEPT !.pc = "in", !.pos = q] /\ cm_list_lock = "free" /\ cm_list_lock' = "data"
      BY <2>1, <3>1 DEF R!SdataLock
    <3>3. list # << >> => Len(list) >= 1
      BY <1>1
    <3>4. q \in Nat /\ q <= Len(list)
      BY <1>1, <3>1, <3>3 DEF RpSdata
    <3>5. smain.pc = "scan"
      BY <3>2 DEF RpLock
    <3> QED
      BY <1>1, <3>2, <3>4, <3>5 DEF RpSdata
  <2>2. CASE R!SdataUnlock
    <3>1. PICK p : /\ sdata' = [sdata EXCEPT !.i = 0, !.pc = p] /\ p \in {"out", "done"}
                   /\ cm_list_lock' = "free" /\ sdata.pc = "in"
      BY <2>2 DEF R!SdataUnlock
    <3>2. smain.pc = "scan"
      BY <3>1 DEF RpLock
    <3> QED
      BY <1>1, <3>1, <3>2 DEF RpSdata
  <2> QED
    BY <2>1, <2>2
<1>3. RpTypes'
  BY <1>0, <1>2 DEF RpTypes, RpServerTypes, RpClientTypes, RpServerRests
<1>4. RpLock'
  BY <1>0, <1>2 DEF RpLock
<1> QED
  BY <1>0, <1>3, <1>4, RpKeep DEF RpServerRests

\* What data_thread's turn at an entry does besides.
RpTurn(p) ==
    /\ p = sdata.pos /\ p \in 1 .. Len(list) /\ smain.pc = "scan"
    /\ UNCHANGED <<cm_list_lock, smain, c2s, s2c, sev, calive, cb, cmain, ccm, cdata, ccq,
                   rdma_buf, crecv>>
    /\ sdata' \in RpSdata /\ sdata'.pos <= Len(list) /\ cm_list_lock = "data"

LEMMA RpSdataTurn ==
    ASSUME RpOK, RpInv, R!SdataVisit
    PROVE  RpTurn(sdata.pos) /\ RpServerRests
<1> USE DEF RpInv, RpConn
<1>1. list \in Seq(RpRec) /\ sdata \in RpSdata /\ sdata.pos <= Len(list)
  BY DEF RpTypes, RpServerTypes
<1>2. PICK n : n = Len(list)
  OBVIOUS
<1>3. PICK q : q = IF sdata.pos = n THEN 0 ELSE sdata.pos + 1
  OBVIOUS
<1>4. /\ UNCHANGED <<cm_list_lock, smain, c2s, s2c, sev, calive, cb, cmain, ccm, cdata, ccq,
                     rdma_buf, crecv>>
      /\ sdata.pc = "in" /\ sdata.pos # 0 /\ sdata' = [sdata EXCEPT !.pos = q, !.i = @ + 1]
  BY <1>2, <1>3 DEF R!SdataVisit
<1>5. n \in Nat /\ sdata.pos \in Nat /\ sdata.pos <= n
  BY <1>1, <1>2 DEF RpSdata
<1>6. q \in Nat /\ q <= n /\ sdata.pos \in 1 .. n
  BY <1>3, <1>4, <1>5
<1>7. sdata' \in RpSdata /\ sdata'.pos = q
  <2>1. PICK i : i = sdata.i + 1
    OBVIOUS
  <2>2. i \in Nat
    BY <1>1, <2>1 DEF RpSdata
  <2>3. sdata' = [sdata EXCEPT !.pos = q, !.i = i]
    BY <1>4, <2>1
  <2> QED
    BY <1>1, <1>6, <2>2, <2>3 DEF RpSdata
<1>8. cm_list_lock = "data"
  BY <1>4 DEF RpLock
<1>9. smain.pc = "scan"
  BY <1>8 DEF RpLock
<1> QED
  BY <1>2, <1>4, <1>6, <1>7, <1>8, <1>9 DEF RpTurn, RpServerRests

\* A request is accepted: the client is told.
LEMMA RpSdataAccepts ==
    ASSUME RpOK, RpInv, R!SdataVisit, list[sdata.pos].state = "CONNECT_REQ"
    PROVE  RpInv'
<1> USE DEF RpInv, RpConn
<1>1. PICK p : p = sdata.pos
  OBVIOUS
<1>2. RpTurn(p) /\ RpServerRests
  BY <1>1, RpSdataTurn
<1>3. RpOpen /\ list[p].id = cmain.i /\ Len(cev) = 0 /\ p \in 1 .. Len(list)
  BY <1>1, <1>2 DEF RpTurn, RpList
<1>4. calive = TRUE
  BY <1>3 DEF RpClient, RpOpen, RpTypes, RpClientTypes
<1>5. /\ list' = [list EXCEPT ![p].state = "CONNECT_REQ_PROC"]
      /\ cev' = Append(cev, R!Event("ESTABLISHED", list[p].id)) /\ sbuf' = sbuf
  BY <1>1, <1>4 DEF R!SdataVisit
<1>6. cev = << >>
  BY <1>3, EmptySeq DEF RpTypes, RpClientTypes
<1>7. cev' \in Seq(RpEvent) /\ Len(cev') = 1 /\ cev'[1].event = "ESTABLISHED" /\ cev'[1].id = cmain.i
  <2>1. PICK ev : ev = [event |-> "ESTABLISHED", id |-> cmain.i]
    OBVIOUS
  <2>2. ev \in RpEvent /\ ev.event = "ESTABLISHED" /\ ev.id = cmain.i
    <3>1. cmain.i \in R!Ids
      BY <1>3, RpEntries
    <3> QED
      BY <2>1, <3>1 DEF RpEvent
  <2>3. cev' = <<ev>>
    BY <1>3, <1>5, <1>6, <2>1 DEF R!Event
  <2> QED
    BY <2>2, <2>3
<1>8. RpMarked(list, list', p, "CONNECT_REQ_PROC")
  BY <1>3, <1>5, RpMark DEF RpTypes, RpServerTypes
<1>9. /\ list' \in Seq(RpRec) /\ Len(list') = Len(list)
      /\ \A k \in 1 .. Len(list) : list'[k].id = list[k].id
           /\ list'[k].state = IF k = p THEN "CONNECT_REQ_PROC" ELSE list[k].state
  BY <1>8 DEF RpMarked
<1>10. RpTypes'
  BY <1>2, <1>5, <1>7, <1>9 DEF RpTypes, RpServerTypes, RpClientTypes, RpTurn
<1>11. RpLock'
  BY <1>2, <1>9 DEF RpLock, RpTurn
<1>12. RpOpen' /\ cmain' = cmain /\ cb' = cb
  BY <1>2, <1>3, RpClientRests DEF RpServerRests
<1>13. RpList'
  <2>1. \A k \in 1 .. Len(list) : list'[k].state # "CONNECT_REQ"
    <3> SUFFICES ASSUME NEW k \in 1 .. Len(list), list'[k].state = "CONNECT_REQ"
                 PROVE  FALSE
      OBVIOUS
    <3>1. k # p /\ list[k].state = "CONNECT_REQ"
      BY <1>9
    <3>2. list[k].id = list[p].id
      BY <1>3, <3>1 DEF RpList
    <3> QED
      BY <1>3, <3>1, <3>2, RpOnce
  <2> QED
    BY <1>9, <1>12, <2>1 DEF RpList
<1>14. RpSev'
  <2> SUFFICES ASSUME NEW k \in 1 .. Len(sev)
               PROVE \/ /\ sev[k].event = "ESTABLISHED"
                        /\ \/ sev[k].id < cmain.i
                           \/ sev[k].id = cmain.i /\ cb[cmain.i].state = "CONNECTED"
                        /\ \E j \in 1 .. Len(list') :
                              list'[j].id = sev[k].id /\ list'[j].state = "CONNECT_REQ_PROC"
                        /\ \A j \in 1 .. Len(sev) :
                              j # k /\ sev[j].event = "ESTABLISHED" => sev[j].id # sev[k].id
                     \/ sev[k].event = "DISCONNECTED"
    BY <1>2, <1>12 DEF RpSev, RpTurn
  <2>1. sev[k].event # "CONNECT_REQUEST"
    <3>1. cmain.i \in Nat
      BY RpEntries
    <3>2. ~(list[p].id < cmain.i)
      BY <1>3, <3>1
    <3> QED
      BY <1>3, <3>2 DEF RpSev
  <2>2. \A j \in 1 .. Len(list) : list[j].state = "CONNECT_REQ_PROC" => list'[j].state = "CONNECT_REQ_PROC"
    BY <1>9
  <2> QED
    BY <1>9, <2>1, <2>2 DEF RpSev
<1>15. RpCev'
  <2>1. cb[cmain.i].sem = 0
    BY <1>3 DEF RpOpen
  <2> QED
    BY <1>3, <1>7, <1>9, <1>12, <2>1 DEF RpCev
<1>16. RpServerStays
  <2>1. list[p].state # "INVALID_STATE"
    BY <1>1
  <2> QED
    BY <1>2, <1>9, <2>1, RpListGrows DEF RpTurn
<1>17. RpPings'
  <2>1. smain.pc # "go"
    BY <1>2 DEF RpTurn
  <2> QED
    BY <1>2, <1>16, <2>1, RpPingsStay, RpClientRests
<1> QED
  BY <1>2, <1>10, <1>11, <1>13, <1>14, <1>15, <1>17, RpKeep DEF RpServerRests

\* An established connection gets its buffers.
LEMMA RpSdataReady ==
    ASSUME RpOK, RpInv, R!SdataVisit, list[sdata.pos].state = "ESTABLISHED"
    PROVE  RpInv'
<1> USE DEF RpInv, RpConn
<1>1. PICK p : p = sdata.pos
  OBVIOUS
<1>2. RpTurn(p) /\ RpServerRests /\ p \in 1 .. Len(list)
  BY <1>1, RpSdataTurn DEF RpTurn
<1>3. /\ list' = [list EXCEPT ![p].state = "READY_FOR_DATA_TRANSFER"] /\ cev' = cev
      /\ sbuf' = [sbuf EXCEPT ![list[p].id] = R!Blank]
  BY <1>1 DEF R!SdataVisit, R!rping_setup_buffers_server
<1>4. RpMarked(list, list', p, "READY_FOR_DATA_TRANSFER")
  BY <1>2, <1>3, RpMark DEF RpTypes, RpServerTypes
<1>5. /\ list' \in Seq(RpRec) /\ Len(list') = Len(list)
      /\ \A k \in 1 .. Len(list) : list'[k].id = list[k].id
           /\ list'[k].state = IF k = p THEN "READY_FOR_DATA_TRANSFER" ELSE list[k].state
  BY <1>4 DEF RpMarked
<1>6. RpTypes'
  <2>1. sbuf' \in [R!Ids -> Int]
    <3>1. sbuf \in [R!Ids -> Int] /\ R!Blank \in Int
      BY DEF RpTypes, RpServerTypes, R!Blank
    <3> QED
      BY <1>3, <3>1
  <2> QED
    BY <1>2, <1>3, <1>5, <2>1 DEF RpTypes, RpServerTypes, RpClientTypes, RpTurn
<1>7. RpLock'
  BY <1>2, <1>5 DEF RpLock, RpTurn
<1>8. (RpOpen' <=> RpOpen) /\ UNCHANGED <<cmain, cb, cev, sev>>
  BY <1>2, <1>3, RpClientRests DEF RpServerRests, RpTurn
<1>9. RpList'
  BY <1>2, <1>4, <1>8, RpMarkList
<1>10. \A j \in 1 .. Len(list) : list[j].state = "CONNECT_REQ_PROC" => list'[j].state = "CONNECT_REQ_PROC"
  BY <1>1, <1>5
<1>11. RpSev'
  BY <1>5, <1>8, <1>10 DEF RpSev
<1>12. RpCev'
  BY <1>5, <1>8, <1>10 DEF RpCev
<1>13. RpServerStays
  <2>1. list[p].state # "INVALID_STATE"
    BY <1>1
  <2> QED
    BY <1>2, <1>5, <2>1, RpListGrows DEF RpTurn
<1>14. RpPings'
  <2>1. smain.pc # "go"
    BY <1>2 DEF RpTurn
  <2> QED
    BY <1>2, <1>13, <2>1, RpPingsStay, RpClientRests
<1> QED
  BY <1>2, <1>6, <1>7, <1>9, <1>11, <1>12, <1>14, RpKeep DEF RpServerRests

LEMMA RpSdataOther ==
    ASSUME RpOK, RpInv, R!SdataVisit, list[sdata.pos].state \notin {"CONNECT_REQ", "ESTABLISHED"}
    PROVE  RpInv'
<1> USE DEF RpInv, RpConn
<1>1. RpTurn(sdata.pos) /\ RpServerRests
  BY RpSdataTurn
<1>2. UNCHANGED <<list, cev, sbuf>>
  BY DEF R!SdataVisit
<1>3. RpTypes'
  BY <1>1, <1>2 DEF RpTypes, RpServerTypes, RpClientTypes, RpTurn
<1>4. RpLock'
  BY <1>1, <1>2 DEF RpLock, RpTurn
<1> QED
  BY <1>1, <1>2, <1>3, <1>4, RpKeep DEF RpTurn
-----------------------------------------------------------------------------
(* The server: main. *)

LEMMA RpMainWalks ==
    ASSUME RpOK, RpInv, R!MainLock \/ R!MainUnlock \/ R!MainVisit
    PROVE  RpInv'
<1> USE DEF RpInv, RpConn
<1>0. /\ RpServerRests /\ UNCHANGED <<list, sdata, sbuf, cev, sev>>
      /\ smain.pc \in {"scan", "walk"}
  BY DEF R!MainLock, R!MainUnlock, R!MainVisit, R!ServerAt, R!clientVars, RpServerRests
<1>1. smain \in RpSmain /\ smain.pos \in Nat /\ Len(list) \in Nat
  BY RpEntries DEF RpTypes, RpServerTypes
<1>2. /\ smain' \in RpSmain /\ RpLock'
      /\ smain'.pc \in {"scan", "walk"} \/ (smain'.pc = "key" /\ smain'.i = 0)
  <2>1. CASE R!MainLock
    <3>1. /\ cm_list_lock = "free" /\ cm_list_lock' = "main"
          /\ smain' = [smain EXCEPT !.pc = "walk", !.pos = 1]
      BY <2>1 DEF R!MainLock
    <3>2. smain' \in RpSmain /\ smain'.pc = "walk" /\ smain'.pos = 1
      BY <1>1, <3>1 DEF RpSmain
    <3>3. sdata.pc # "in"
      BY <3>1 DEF RpLock
    <3> QED
      BY <1>0, <3>1, <3>2, <3>3 DEF RpLock
  <2>2. CASE R!MainUnlock
    <3>1. /\ cm_list_lock' = "free" /\ smain.pc = "walk"
          /\ smain' = [smain EXCEPT !.pc = "scan", !.pos = 0]
      BY <2>2 DEF R!MainUnlock, R!ServerAt
    <3>2. smain' \in RpSmain /\ smain'.pc = "scan"
      BY <1>1, <3>1 DEF RpSmain
    <3>3. sdata.pc # "in"
      BY <3>1 DEF RpLock
    <3> QED
      BY <1>0, <3>1, <3>2, <3>3 DEF RpLock
  <2>3. CASE R!MainVisit
    <3>1. smain.pc = "walk" /\ smain.pos <= Len(list) /\ cm_list_lock' = cm_list_lock
      BY <2>3 DEF R!MainVisit, R!ServerAt
    <3>2. cm_list_lock = "main" /\ smain.pos >= 1
      BY <3>1 DEF RpLock
    <3>3. CASE list[smain.pos].state = "READY_FOR_DATA_TRANSFER"
      <4>1. smain' = [smain EXCEPT !.pc = "key", !.i = 0, !.iter_cnt = 1]
        BY <2>3, <3>3 DEF R!MainVisit
      <4>2. /\ smain' \in RpSmain /\ smain'.pc = "key" /\ smain'.pos = smain.pos
            /\ smain'.i = 0
        BY <1>1, <4>1 DEF RpSmain
      <4> QED
        BY <1>0, <3>1, <3>2, <3>3, <4>2 DEF RpLock
    <3>4. CASE list[smain.pos].state # "READY_FOR_DATA_TRANSFER"
      <4>1. PICK q : q = smain.pos + 1
        OBVIOUS
      <4>2. smain' = [smain EXCEPT !.pos = q]
        BY <2>3, <3>4, <4>1 DEF R!MainVisit
      <4>3. q \in Nat /\ q >= 1
        BY <1>1, <4>1
      <4>4. smain' \in RpSmain /\ smain'.pc = "walk" /\ smain'.pos = q
        BY <1>1, <3>1, <4>2, <4>3 DEF RpSmain
      <4> QED
        BY <1>0, <3>1, <3>2, <4>3, <4>4 DEF RpLock
    <3> QED
      BY <3>3, <3>4
  <2> QED
    BY <2>1, <2>2, <2>3
<1>3. RpTypes'
  BY <1>0, <1>2 DEF RpTypes, RpServerTypes, RpClientTypes, RpServerRests
<1>4. RpServerStays
  BY <1>0, <1>2 DEF RpServerStays, RpFresh, RpServed, RpAt
<1>5. RpPings'
  BY <1>0, <1>4, RpPingsStay, RpClientRests
<1> QED
  BY <1>0, <1>2, <1>3, <1>5, RpKeep DEF RpServerRests

\* The connection that main serves.
RpServes == smain.pc \in {"key", "read", "go", "tell"}

LEMMA RpServing ==
    ASSUME RpOK, RpInv, RpServes
    PROVE  /\ smain.pos \in 1 .. Len(list) /\ R!Serving \in R!Ids /\ R!Serving = list[smain.pos].id
           /\ list[smain.pos].state = "READY_FOR_DATA_TRANSFER"
           /\ ~RpServed(list, smain, R!Serving)
           /\ RpFresh(list, smain, R!Serving) => smain.pc = "key" /\ smain.i = 0
           /\ smain \in RpSmain /\ cm_list_lock = "main"
<1> USE DEF RpInv, RpConn
<1>1. PICK n : n = Len(list)
  OBVIOUS
<1>2. /\ n \in Nat /\ smain.pos \in Nat /\ smain.pos >= 1 /\ smain.pos <= n
      /\ list[smain.pos].state = "READY_FOR_DATA_TRANSFER" /\ cm_list_lock = "main"
  BY <1>1, RpEntries DEF RpLock, RpServes
<1>3. smain.pos \in 1 .. Len(list)
  BY <1>1, <1>2
<1>4. R!Serving = list[smain.pos].id /\ R!Serving \in R!Ids
  BY <1>3, RpEntries DEF R!Serving
<1>5. ~RpServed(list, smain, R!Serving)
  <2> SUFFICES ASSUME NEW k \in 1 .. Len(list), list[k].id = R!Serving,
                      list[k].state = "INVALID_STATE" \/ (smain.pc = "over" /\ smain.pos = k)
               PROVE  FALSE
    BY DEF RpServed
  <2>1. k = smain.pos
    BY <1>3, <1>4, RpOnce
  <2> QED
    BY <1>2, <2>1 DEF RpServes
<1>6. RpFresh(list, smain, R!Serving) => smain.pc = "key" /\ smain.i = 0
  BY <1>3, <1>4 DEF RpFresh, RpServes
<1>7. smain \in RpSmain
  BY DEF RpTypes, RpServerTypes
<1> QED
  BY <1>2, <1>3, <1>4, <1>5, <1>6, <1>7

\* The other connections are as far as they were.
LEMMA RpOthersStay ==
    ASSUME RpOK, RpInv, RpServes, Len(list') = Len(list),
           \A k \in 1 .. Len(list) :
              /\ list'[k].id = list[k].id
              /\ k # smain.pos => list'[k].state = list[k].state,
           smain'.pc \notin {"scan", "walk"} => smain'.pos = smain.pos,
           NEW id \in R!Ids, id # R!Serving
    PROVE  /\ RpFresh(list, smain, id) => RpFresh(list', smain', id)
           /\ RpServed(list, smain, id) => RpServed(list', smain', id)
<1>1. smain.pos \in 1 .. Len(list) /\ R!Serving = list[smain.pos].id
  BY RpServing
<1>2. \A k \in 1 .. Len(list) : list[k].id = id => k # smain.pos
  BY <1>1
<1>3. RpFresh(list, smain, id) => RpFresh(list', smain', id)
  BY <1>2 DEF RpFresh
<1>4. RpServed(list, smain, id) => RpServed(list', smain', id)
  BY <1>2 DEF RpServed, RpServes
<1> QED
  BY <1>3, <1>4

\* What the step of a ping at the server leaves alone.
RpServerPings ==
    /\ RpServes /\ cdata.pc # "look" /\ cdata.i = R!Serving
    /\ UNCHANGED <<sev, sdata, cm_list_lock, calive, cb, cmain, cdata, ccm, ccq, cev, crecv>>
    /\ smain' \in RpSmain
    /\ sbuf' \in [R!Ids -> Int] /\ rdma_buf' \in [R!Ids -> Int]
    /\ c2s' \in [R!Ids -> Nat] /\ s2c' \in [R!Ids -> Nat]
    /\ \A j \in R!Ids : j # cdata.i => c2s'[j] = c2s[j] /\ s2c'[j] = s2c[j]

LEMMA RpServerPinged ==
    ASSUME RpOK, RpInv, RpServerPings, Len(list') = Len(list),
           \A k \in 1 .. Len(list) :
              /\ list'[k].id = list[k].id
              /\ k # smain.pos => list'[k].state = list[k].state,
           smain'.pc \notin {"scan", "walk"} => smain'.pos = smain.pos
    PROVE  RpRests' /\ RpPinged'
<1>1. RpPinged'
  BY DEF RpInv, RpPings, RpPinged, RpServerPings
<1>2. RpRests'
  <2> SUFFICES ASSUME NEW id \in R!Ids, cdata.i # id
               PROVE  /\ c2s'[id] = 0 /\ s2c'[id] = 0 /\ ccq # id /\ cb[id].sem_data = 0
                      /\ RpFresh(list', smain', id) \/ RpServed(list', smain', id)
                      /\ cb[id].test_done = TRUE => RpServed(list', smain', id)
    BY DEF RpRests, RpServerPings
  <2>1. /\ RpFresh(list, smain, id) => RpFresh(list', smain', id)
        /\ RpServed(list, smain, id) => RpServed(list', smain', id)
    BY RpOthersStay DEF RpServerPings
  <2> QED
    BY <2>1 DEF RpServerPings, RpInv, RpPings, RpRests
<1> QED
  BY <1>1, <1>2

LEMMA RpServerPingKept ==
    ASSUME RpOK, RpInv, RpServerPings, list' = list, smain'.pos = smain.pos,
           smain'.pc \in {"key", "read", "go", "tell", "over"}, RpPing', RpAdv', RpDone'
    PROVE  RpInv'
<1> USE DEF RpInv, RpConn
<1>1. RpTypes'
  BY DEF RpTypes, RpServerTypes, RpClientTypes, RpServerPings
<1>2. RpLock'
  BY DEF RpLock, RpServerPings, RpServes
<1>3. RpRests' /\ RpPinged'
  BY RpServerPinged
<1> QED
  BY <1>1, <1>2, <1>3, RpKeep DEF RpPings, RpServerPings

\* A ping that main has begun is one the client has under way.
LEMMA RpAtWork ==
    ASSUME RpOK, RpInv, RpServes, smain.pc # "key"
    PROVE  /\ cdata.pc \in {"adv", "complete"} /\ cdata.i = R!Serving
           /\ \A p \in Nat : ~RpBefore(list, smain, cdata.i, p)
           /\ ~RpGone
           /\ cdata.ping \in Nat /\ cdata.ping >= 1 /\ cdata.ping - 1 \in Nat
<1> USE DEF RpInv, RpPings
<1>1. R!Serving \in R!Ids /\ ~RpServed(list, smain, R!Serving) /\ ~RpFresh(list, smain, R!Serving)
  BY RpServing
<1>2. \A p \in Nat : ~RpBefore(list, smain, R!Serving, p)
  BY <1>1 DEF RpBefore, RpAt
<1>3. cdata.pc # "look" /\ cdata.i = R!Serving
  BY <1>1 DEF RpRests
<1>4. cdata.ping \in Nat /\ cdata \in RpCdata
  BY RpEntries DEF RpTypes, RpClientTypes
<1>5. cdata.pc # "ping"
  BY <1>2, <1>3, <1>4 DEF RpPing
<1>6. cdata.pc \in {"adv", "complete"}
  BY <1>3, <1>4, <1>5 DEF RpCdata
<1>7. cdata.ping >= 1
  BY <1>6 DEF RpPinged
<1>8. ~RpGone
  BY <1>1, <1>3 DEF RpGone
<1> QED
  BY <1>2, <1>3, <1>4, <1>6, <1>7, <1>8

\* The server has the key of the ping that comes next.
LEMMA RpPingKeyed ==
    ASSUME RpOK, RpInv, R!PingKey
    PROVE  RpInv'
<1> USE DEF RpInv, RpPings
<1>0. /\ UNCHANGED <<list, cm_list_lock, sev, sdata, sbuf, s2c, calive, cb, cmain, ccm, cdata, ccq,
                     cev, rdma_buf, crecv>>
      /\ smain.pc = "key" /\ c2s[R!Serving] > 0
      /\ c2s' = [c2s EXCEPT ![R!Serving] = @ - 1]
      /\ smain' = [smain EXCEPT !.pc = "read", !.iter_cnt = R!IterCnt(smain.i)]
  BY DEF R!PingKey, R!ServerAt, R!rdmatest_poll_cq, R!clientVars
<1>1. RpServes
  BY <1>0 DEF RpServes
<1>2. /\ R!Serving \in R!Ids /\ R!Serving = list[smain.pos].id /\ smain \in RpSmain
      /\ ~RpServed(list, smain, R!Serving)
      /\ RpFresh(list, smain, R!Serving) => smain.i = 0
  BY <1>1, RpServing
<1>3. c2s \in [R!Ids -> Nat] /\ s2c \in [R!Ids -> Nat] /\ cdata \in RpCdata /\ cdata.ping \in Nat
  BY RpEntries DEF RpTypes, RpServerTypes, RpClientTypes
<1>4. c2s[R!Serving] # 0
  BY <1>0, <1>2, <1>3
<1>5. cdata.pc # "look" /\ cdata.i = R!Serving
  BY <1>2, <1>4 DEF RpRests
<1>6. /\ cdata.pc = "adv" /\ RpSent /\ RpBefore(list, smain, cdata.i, cdata.ping - 1)
      /\ rdma_buf[cdata.i] = cdata.ping /\ cb[cdata.i].state = "RDMA_READ_ADV"
  <2>1. ~RpTaken /\ ~RpAnswered /\ ~RpComplete /\ ~RpWoken
    BY <1>4, <1>5 DEF RpTaken, RpAnswered, RpComplete, RpWoken
  <2>2. cdata.pc # "ping"
    BY <2>1 DEF RpPing
  <2>3. ~RpGone /\ \A p : ~RpAt(list, smain, cdata.i, "go", p)
    BY <1>0, <1>2, <1>5 DEF RpAt, RpGone
  <2>4. cdata.pc # "complete"
    BY <2>1, <2>3 DEF RpDone
  <2>5. cdata.pc = "adv"
    BY <1>3, <1>5, <2>2, <2>4 DEF RpCdata
  <2> QED
    BY <2>1, <2>3, <2>5 DEF RpAdv
<1>7. PICK p : p = cdata.ping - 1
  OBVIOUS
<1>8. p \in Nat /\ cdata.ping = p + 1
  BY <1>3, <1>6, <1>7 DEF RpPinged
<1>9. smain.i = p /\ R!IterCnt(smain.i) = count
  <2>1. CASE p = 0
    BY <1>2, <1>5, <1>6, <1>7, <2>1 DEF RpBefore, R!IterCnt
  <2>2. CASE p > 0
    BY <1>2, <1>5, <1>6, <1>7, <2>2 DEF RpBefore, RpAt, R!IterCnt
  <2> QED
    BY <1>8, <2>1, <2>2
<1>10. /\ smain' \in RpSmain /\ smain'.pc = "read" /\ smain'.pos = smain.pos /\ smain'.i = p
       /\ smain'.iter_cnt = count
  BY <1>0, <1>2, <1>8, <1>9 DEF RpSmain, RpOK
<1>11. /\ c2s' \in [R!Ids -> Nat] /\ c2s'[cdata.i] = 0
       /\ \A j \in R!Ids : j # cdata.i => c2s'[j] = c2s[j]
  <2>1. c2s[R!Serving] = 1
    BY <1>5, <1>6 DEF RpSent
  <2>2. c2s' = [c2s EXCEPT ![R!Serving] = 0]
    BY <1>0, <2>1
  <2> QED
    BY <1>2, <1>3, <1>5, <2>2
<1>12. RpServerPings
  BY <1>0, <1>1, <1>3, <1>5, <1>10, <1>11 DEF RpServerPings, RpTypes, RpServerTypes, RpClientTypes
<1>13. RpTaken'
  BY <1>0, <1>6, <1>11 DEF RpSent, RpTaken
<1>14. RpAt(list', smain', cdata.i, "read", p)
  BY <1>0, <1>2, <1>5, <1>10 DEF RpAt
<1>15. RpAdv'
  BY <1>0, <1>6, <1>7, <1>13, <1>14 DEF RpAdv
<1>16. RpPing' /\ RpDone'
  BY <1>0, <1>6 DEF RpPing, RpDone
<1> QED
  BY <1>0, <1>10, <1>12, <1>15, <1>16, RpServerPingKept

\* It has read the buffer.
LEMMA RpPingHasRead ==
    ASSUME RpOK, RpInv, R!PingRead
    PROVE  RpInv'
<1> USE DEF RpInv, RpPings
<1>0. /\ UNCHANGED <<list, cm_list_lock, sev, sdata, c2s, calive, cb, cmain, ccm, cdata, ccq,
                     cev, rdma_buf, crecv>>
      /\ smain.pc = "read" /\ sbuf' = [sbuf EXCEPT ![R!Serving] = rdma_buf[R!Serving]]
      /\ s2c' = [s2c EXCEPT ![R!Serving] = @ + 1]
      /\ smain' = [smain EXCEPT !.pc = "go"]
  BY DEF R!PingRead, R!ServerAt, R!clientVars
<1>1. RpServes
  BY <1>0 DEF RpServes
<1>2. R!Serving \in R!Ids /\ R!Serving = list[smain.pos].id /\ smain \in RpSmain
  BY <1>1, RpServing
<1>3. /\ cdata.pc \in {"adv", "complete"} /\ cdata.i = R!Serving
      /\ \A q \in Nat : ~RpBefore(list, smain, cdata.i, q)
      /\ ~RpGone /\ cdata.ping \in Nat /\ cdata.ping - 1 \in Nat
  BY <1>0, <1>1, RpAtWork
<1>4. PICK p : p = cdata.ping - 1
  OBVIOUS
<1>5. ~RpAt(list, smain, cdata.i, "go", p) /\ ~RpAt(list, smain, cdata.i, "tell", p)
  BY <1>0 DEF RpAt
<1>6. /\ cdata.pc = "adv" /\ RpTaken /\ RpAt(list, smain, cdata.i, "read", p)
      /\ rdma_buf[cdata.i] = cdata.ping /\ cb[cdata.i].state = "RDMA_READ_ADV"
  <2>1. cdata.pc # "complete"
    BY <1>3, <1>4, <1>5 DEF RpDone
  <2> QED
    BY <1>3, <1>4, <1>5, <2>1 DEF RpAdv
<1>7. /\ smain' \in RpSmain /\ smain'.pc = "go" /\ smain'.pos = smain.pos /\ smain'.i = p
      /\ smain'.iter_cnt = count
  BY <1>0, <1>2, <1>6 DEF RpSmain, RpAt
<1>8. /\ s2c \in [R!Ids -> Nat] /\ c2s \in [R!Ids -> Nat] /\ sbuf \in [R!Ids -> Int]
      /\ rdma_buf \in [R!Ids -> Int]
  BY DEF RpTypes, RpServerTypes, RpClientTypes
<1>9. /\ s2c' \in [R!Ids -> Nat] /\ s2c'[cdata.i] = 1
      /\ \A j \in R!Ids : j # cdata.i => s2c'[j] = s2c[j]
  <2>1. s2c[R!Serving] = 0
    BY <1>3, <1>6 DEF RpTaken
  <2>2. s2c' = [s2c EXCEPT ![R!Serving] = 1]
    BY <1>0, <2>1
  <2> QED
    BY <1>2, <1>3, <1>8, <2>2
<1>10. sbuf' \in [R!Ids -> Int] /\ sbuf'[cdata.i] = cdata.ping
  BY <1>0, <1>2, <1>3, <1>6, <1>8
<1>11. RpServerPings
  BY <1>0, <1>1, <1>3, <1>7, <1>8, <1>9, <1>10 DEF RpServerPings
<1>12. RpAnswered'
  BY <1>0, <1>6, <1>9 DEF RpTaken, RpAnswered
<1>13. RpAt(list', smain', cdata.i, "go", p)
  BY <1>0, <1>2, <1>3, <1>7 DEF RpAt
<1>14. RpAdv'
  BY <1>0, <1>4, <1>6, <1>10, <1>12, <1>13 DEF RpAdv
<1>15. RpPing' /\ RpDone'
  BY <1>0, <1>6 DEF RpPing, RpDone
<1> QED
  BY <1>0, <1>7, <1>11, <1>14, <1>15, RpServerPingKept

\* It has written what it read.
LEMMA RpPingHasWritten ==
    ASSUME RpOK, RpInv, R!PingWrite
    PROVE  RpInv'
<1> USE DEF RpInv, RpPings
<1>0. /\ UNCHANGED <<list, cm_list_lock, sev, sdata, sbuf, s2c, calive, cb, cmain, ccm, cdata, ccq,
                     cev, crecv>>
      /\ smain.pc = "go" /\ c2s[R!Serving] > 0
      /\ c2s' = [c2s EXCEPT ![R!Serving] = IF @ > 0 THEN @ - 1 ELSE 0]
      /\ rdma_buf' = [rdma_buf EXCEPT ![R!Serving] = sbuf[R!Serving]]
      /\ smain' = [smain EXCEPT !.pc = "tell"]
  BY DEF R!PingWrite, R!ServerAt, R!GoReceived, R!rdmatest_poll_cq
<1>1. RpServes
  BY <1>0 DEF RpServes
<1>2. R!Serving \in R!Ids /\ R!Serving = list[smain.pos].id /\ smain \in RpSmain
  BY <1>1, RpServing
<1>3. /\ cdata.pc \in {"adv", "complete"} /\ cdata.i = R!Serving
      /\ \A q \in Nat : ~RpBefore(list, smain, cdata.i, q)
      /\ ~RpGone /\ cdata.ping \in Nat /\ cdata.ping - 1 \in Nat
  BY <1>0, <1>1, RpAtWork
<1>4. /\ s2c \in [R!Ids -> Nat] /\ c2s \in [R!Ids -> Nat] /\ sbuf \in [R!Ids -> Int]
      /\ rdma_buf \in [R!Ids -> Int]
  BY DEF RpTypes, RpServerTypes, RpClientTypes
<1>5. PICK p : p = cdata.ping - 1
  OBVIOUS
<1>6. ~RpTaken /\ ~RpAnswered /\ ~RpComplete /\ ~RpWoken
  <2>1. c2s[cdata.i] # 0
    BY <1>0, <1>2, <1>3, <1>4
  <2> QED
    BY <2>1 DEF RpTaken, RpAnswered, RpComplete, RpWoken
<1>7. /\ cdata.pc = "complete" /\ RpSent /\ RpAt(list, smain, cdata.i, "go", p)
      /\ sbuf[cdata.i] = cdata.ping /\ cb[cdata.i].state = "RDMA_WRITE_ADV"
  <2>1. cdata.pc # "adv"
    BY <1>3, <1>5, <1>6 DEF RpAdv
  <2> QED
    BY <1>3, <1>5, <1>6, <2>1 DEF RpDone
<1>8. /\ smain' \in RpSmain /\ smain'.pc = "tell" /\ smain'.pos = smain.pos /\ smain'.i = p
      /\ smain'.iter_cnt = count
  BY <1>0, <1>2, <1>7 DEF RpSmain, RpAt
<1>9. /\ c2s' \in [R!Ids -> Nat] /\ c2s'[cdata.i] = 0
      /\ \A j \in R!Ids : j # cdata.i => c2s'[j] = c2s[j]
  <2>1. c2s[R!Serving] = 1
    BY <1>3, <1>7 DEF RpSent
  <2>2. c2s' = [c2s EXCEPT ![R!Serving] = 0]
    BY <1>0, <2>1
  <2> QED
    BY <1>2, <1>3, <1>4, <2>2
<1>10. rdma_buf' \in [R!Ids -> Int] /\ rdma_buf'[cdata.i] = cdata.ping
  BY <1>0, <1>2, <1>3, <1>4, <1>7
<1>11. RpServerPings
  BY <1>0, <1>1, <1>3, <1>4, <1>8, <1>9, <1>10 DEF RpServerPings
<1>12. RpTaken'
  BY <1>0, <1>7, <1>9 DEF RpTaken, RpSent
<1>13. RpAt(list', smain', cdata.i, "tell", p)
  BY <1>0, <1>2, <1>3, <1>8 DEF RpAt
<1>14. RpDone'
  BY <1>0, <1>5, <1>7, <1>10, <1>12, <1>13 DEF RpDone
<1>15. RpPing' /\ RpAdv'
  BY <1>0, <1>7 DEF RpPing, RpAdv
<1> QED
  BY <1>0, <1>8, <1>11, <1>14, <1>15, RpServerPingKept

\* The connection counts as tested: it is marked, or it is the last one of all.
\* The others are as far as they were.
LEMMA RpIsTested ==
    ASSUME RpOK, RpInv, RpServes, R!Tested, s2c' \in [R!Ids -> Nat],
           UNCHANGED <<cm_list_lock, sev, sdata, sbuf, c2s, calive, cb, cmain, ccm, cdata, ccq,
                       cev, rdma_buf, crecv>>
    PROVE  /\ RpTypes' /\ RpConn' /\ RpRecv' /\ RpServed(list', smain', R!Serving)
           /\ \A id \in R!Ids : RpServed(list, smain, id) => RpServed(list', smain', id)
           /\ \A id \in R!Ids : id # R!Serving /\ RpFresh(list, smain, id)
                                  => RpFresh(list', smain', id)
<1> USE DEF RpInv, RpConn
<1>1. /\ R!Serving \in R!Ids /\ R!Serving = list[smain.pos].id /\ smain \in RpSmain
      /\ smain.pos \in 1 .. Len(list) /\ cm_list_lock = "main"
      /\ list[smain.pos].state = "READY_FOR_DATA_TRANSFER"
      /\ ~RpServed(list, smain, R!Serving) /\ smain.pos \in Nat
  BY RpServing, RpEntries
<1>2. PICK c : c = smain.cnt + 1
  OBVIOUS
<1>3. c \in Nat
  BY <1>1, <1>2 DEF RpSmain
<1>4. CASE c >= rx_test_qp_cnt
  <2>1. smain' = [smain EXCEPT !.pc = "over", !.cnt = c] /\ list' = list
    BY <1>2, <1>4 DEF R!Tested
  <2>2. smain' \in RpSmain /\ smain'.pc = "over" /\ smain'.pos = smain.pos
    BY <1>1, <1>3, <2>1 DEF RpSmain
  <2>3. RpServed(list', smain', R!Serving)
    BY <1>1, <2>1, <2>2 DEF RpServed
  <2>4. \A id \in R!Ids : id # R!Serving =>
           /\ RpServed(list, smain, id) => RpServed(list', smain', id)
           /\ RpFresh(list, smain, id) => RpFresh(list', smain', id)
    BY <2>1, <2>2, RpOthersStay
  <2>5. RpTypes'
    BY <2>1, <2>2 DEF RpTypes, RpServerTypes, RpClientTypes
  <2>6. RpLock'
    BY <1>1, <2>1, <2>2 DEF RpLock
  <2> QED
    BY <1>1, <2>1, <2>3, <2>4, <2>5, <2>6, RpKeep
<1>5. CASE ~(c >= rx_test_qp_cnt)
  <2>0. PICK q : q = smain.pos + 1
    OBVIOUS
  <2>1. /\ smain' = [smain EXCEPT !.pc = "walk", !.pos = q, !.cnt = c]
        /\ list' = [list EXCEPT ![smain.pos].state = "INVALID_STATE"]
    BY <1>2, <1>5, <2>0 DEF R!Tested
  <2>2. q \in Nat /\ q >= 1
    BY <1>1, <2>0
  <2>3. smain' \in RpSmain /\ smain'.pc = "walk" /\ smain'.pos = q
    BY <1>1, <1>3, <2>1, <2>2 DEF RpSmain
  <2>4. RpMarked(list, list', smain.pos, "INVALID_STATE")
    BY <1>1, <2>1, RpMark DEF RpTypes, RpServerTypes
  <2>5. /\ list' \in Seq(RpRec) /\ Len(list') = Len(list)
        /\ \A k \in 1 .. Len(list) : list'[k].id = list[k].id
             /\ list'[k].state = IF k = smain.pos THEN "INVALID_STATE" ELSE list[k].state
    BY <2>4 DEF RpMarked
  <2>6. RpServed(list', smain', R!Serving)
    BY <1>1, <2>5 DEF RpServed
  <2>7. \A id \in R!Ids : id # R!Serving =>
           /\ RpServed(list, smain, id) => RpServed(list', smain', id)
           /\ RpFresh(list, smain, id) => RpFresh(list', smain', id)
    BY <2>3, <2>5, RpOthersStay
  <2>8. RpTypes'
    BY <2>3, <2>5 DEF RpTypes, RpServerTypes, RpClientTypes
  <2>9. RpLock'
    BY <1>1, <2>2, <2>3 DEF RpLock
  <2>10. RpList'
    BY <1>1, <2>4, RpMarkList
  <2>11. \A j \in 1 .. Len(list) : list[j].state = "CONNECT_REQ_PROC" => list'[j].state = "CONNECT_REQ_PROC"
    BY <1>1, <2>5
  <2>12. RpOpen' <=> RpOpen
    BY DEF RpOpen
  <2>13. RpSev'
    BY <2>5, <2>11, <2>12 DEF RpSev
  <2>14. RpCev'
    BY <2>5, <2>11, <2>12 DEF RpCev
  <2>15. RpClient' /\ RpRecv'
    BY RpKeep
  <2> QED
    BY <1>1, <2>6, <2>7, <2>8, <2>9, <2>10, <2>13, <2>14, <2>15
<1> QED
  BY <1>4, <1>5

\* The ping is over for the server: it awaits the next one, has had the last one
\* of the connection, or the last one of all.
LEMMA RpPingIsDone ==
    ASSUME RpOK, RpInv, R!PingDone
    PROVE  RpInv'
<1> USE DEF RpInv, RpPings
<1>0. /\ UNCHANGED <<cm_list_lock, sev, sdata, sbuf, c2s, calive, cb, cmain, ccm, cdata, ccq,
                     cev, rdma_buf, crecv>>
      /\ smain.pc = "tell" /\ s2c' = [s2c EXCEPT ![R!Serving] = @ + 1]
  BY DEF R!PingDone, R!ServerAt, R!clientVars
<1>1. RpServes
  BY <1>0 DEF RpServes
<1>2. /\ R!Serving \in R!Ids /\ R!Serving = list[smain.pos].id /\ smain \in RpSmain
      /\ smain.pos \in 1 .. Len(list) /\ cm_list_lock = "main"
      /\ list[smain.pos].state = "READY_FOR_DATA_TRANSFER"
  BY <1>1, RpServing
<1>3. /\ cdata.pc \in {"adv", "complete"} /\ cdata.i = R!Serving
      /\ \A q \in Nat : ~RpBefore(list, smain, cdata.i, q)
      /\ ~RpGone /\ cdata.ping \in Nat /\ cdata.ping >= 1 /\ cdata.ping - 1 \in Nat
  BY <1>0, <1>1, RpAtWork
<1>4. PICK p : p = cdata.ping - 1
  OBVIOUS
<1>5. ~RpAt(list, smain, cdata.i, "go", p) /\ ~RpAt(list, smain, cdata.i, "read", p)
  BY <1>0 DEF RpAt
<1>6. /\ cdata.pc = "complete" /\ RpTaken /\ RpAt(list, smain, cdata.i, "tell", p)
      /\ rdma_buf[cdata.i] = cdata.ping /\ cb[cdata.i].state = "RDMA_WRITE_ADV"
  <2>1. cdata.pc # "adv"
    BY <1>3, <1>4, <1>5 DEF RpAdv
  <2> QED
    BY <1>3, <1>4, <1>5, <2>1 DEF RpDone
<1>7. /\ s2c \in [R!Ids -> Nat] /\ c2s \in [R!Ids -> Nat] /\ sbuf \in [R!Ids -> Int]
      /\ rdma_buf \in [R!Ids -> Int]
  BY DEF RpTypes, RpServerTypes, RpClientTypes
<1>8. /\ s2c' \in [R!Ids -> Nat] /\ s2c'[cdata.i] = 1
      /\ \A j \in R!Ids : j # cdata.i => s2c'[j] = s2c[j]
  <2>1. s2c[R!Serving] = 0
    BY <1>3, <1>6 DEF RpTaken
  <2>2. s2c' = [s2c EXCEPT ![R!Serving] = 1]
    BY <1>0, <2>1
  <2> QED
    BY <1>2, <1>3, <1>7, <2>2
<1>9. RpAnswered'
  BY <1>0, <1>6, <1>8 DEF RpTaken, RpAnswered
<1>10. smain.i + 1 = cdata.ping /\ smain.iter_cnt = count /\ count \in Nat
  BY <1>3, <1>4, <1>6 DEF RpAt, RpOK
<1>11. ASSUME RpBefore(list', smain', cdata.i, cdata.ping)
       PROVE  RpPing' /\ RpAdv' /\ RpDone'
  <2>1. RpDone'
    BY <1>0, <1>6, <1>9, <1>11 DEF RpDone
  <2>2. RpPing' /\ RpAdv'
    BY <1>0, <1>6 DEF RpPing, RpAdv
  <2> QED
    BY <2>1, <2>2
<1>12. ASSUME smain' \in RpSmain
       PROVE  RpServerPings
  BY <1>0, <1>1, <1>3, <1>7, <1>8, <1>12 DEF RpServerPings
<1>13. CASE ~(cdata.ping >= count)
  <2>1. smain' = [smain EXCEPT !.pc = "key", !.i = cdata.ping] /\ list' = list
    <3>1. PICK k : k = smain.i + 1
      OBVIOUS
    <3>2. k = cdata.ping /\ k < smain.iter_cnt
      BY <1>3, <1>10, <1>13, <3>1
    <3>3. smain' = [smain EXCEPT !.pc = "key", !.i = k] /\ list' = list
      BY <3>1, <3>2 DEF R!PingDone
    <3> QED
      BY <3>2, <3>3
  <2>2. /\ smain' \in RpSmain /\ smain'.pc = "key" /\ smain'.i = cdata.ping
        /\ smain'.pos = smain.pos /\ smain'.iter_cnt = count
    BY <1>2, <1>3, <1>10, <2>1 DEF RpSmain
  <2>3. RpAt(list', smain', cdata.i, "key", cdata.ping)
    BY <1>2, <1>3, <2>1, <2>2 DEF RpAt
  <2>4. RpBefore(list', smain', cdata.i, cdata.ping)
    <3>1. cdata.ping > 0 /\ cdata.ping < count
      BY <1>3, <1>10, <1>13
    <3> QED
      BY <2>3, <3>1 DEF RpBefore
  <2> QED
    BY <1>11, <1>12, <2>1, <2>2, <2>4, RpServerPingKept
<1>14. CASE cdata.ping >= count
  <2>1. R!Tested
    BY <1>3, <1>10, <1>14 DEF R!PingDone
  <2>2. /\ RpTypes' /\ RpConn' /\ RpRecv' /\ RpServed(list', smain', R!Serving)
        /\ \A id \in R!Ids : RpServed(list, smain, id) => RpServed(list', smain', id)
        /\ \A id \in R!Ids : id # R!Serving /\ RpFresh(list, smain, id)
                               => RpFresh(list', smain', id)
    BY <1>0, <1>1, <1>8, <2>1, RpIsTested
  <2>3. RpBefore(list', smain', cdata.i, cdata.ping)
    BY <1>3, <2>2 DEF RpBefore
  <2>4. RpPinged'
    BY <1>0 DEF RpPinged
  <2>5. RpRests'
    BY <1>0, <1>3, <1>8, <2>2 DEF RpRests
  <2> QED
    BY <1>11, <2>2, <2>3, <2>4, <2>5
<1> QED
  BY <1>13, <1>14

\* A poll fails: the server has ended the pings of the connection, wherever the
\* client is in them.
LEMMA RpPingFailed ==
    ASSUME RpOK, RpInv, R!PingError
    PROVE  RpInv'
<1> USE DEF RpInv, RpPings
<1>0. /\ UNCHANGED <<cm_list_lock, sev, sdata, sbuf, c2s, calive, cb, cmain, ccm, cdata, ccq,
                     cev, rdma_buf, crecv>>
      /\ RpServes /\ R!Tested
      /\ \/ s2c' = s2c
         \/ smain.pc = "tell" /\ s2c' = [s2c EXCEPT ![R!Serving] = @ + 1]
  BY DEF R!PingError, RpServes
<1>1. s2c \in [R!Ids -> Nat] /\ cdata.i \in R!Ids /\ cdata.ping \in Nat
  BY RpEntries DEF RpTypes, RpServerTypes
<1>2. s2c' \in [R!Ids -> Nat]
  BY <1>0, <1>1
<1>3. /\ RpTypes' /\ RpConn' /\ RpRecv' /\ RpServed(list', smain', R!Serving)
      /\ \A id \in R!Ids : RpServed(list, smain, id) => RpServed(list', smain', id)
      /\ \A id \in R!Ids : id # R!Serving /\ RpFresh(list, smain, id)
                             => RpFresh(list', smain', id)
  BY <1>0, <1>2, RpIsTested
<1>4. \A id : \A pc : \A p : RpAt(list, smain, id, pc, p) => id = R!Serving
  BY <1>0, RpServing DEF RpAt
<1>5. \A p \in Nat : RpBefore(list, smain, cdata.i, p) => RpBefore(list', smain', cdata.i, p)
  BY <1>1, <1>3, <1>4 DEF RpBefore
<1>6. /\ RpGone => RpGone'
      /\ \A pc : \A p : RpAt(list, smain, cdata.i, pc, p) => RpGone'
  BY <1>0, <1>1, <1>3, <1>4 DEF RpGone
<1>7. RpPinged'
  BY <1>0 DEF RpPinged
<1>8. cdata.pc \in {"adv", "complete"} => cdata.ping - 1 \in Nat
  BY <1>1 DEF RpPinged
<1>9. CASE s2c' = s2c
  <2>1. RpRests'
    BY <1>0, <1>3, <1>9 DEF RpRests
  <2>2. /\ (RpSent => RpSent') /\ (RpTaken => RpTaken') /\ (RpAnswered => RpAnswered')
        /\ (RpComplete => RpComplete') /\ (RpWoken => RpWoken')
    BY <1>0, <1>9 DEF RpSent, RpTaken, RpAnswered, RpComplete, RpWoken
  <2>3. RpPing'
    BY <1>0, <1>1, <1>5, <2>2 DEF RpPing
  <2>4. RpAdv'
    BY <1>0, <1>5, <1>6, <1>8, <2>2 DEF RpAdv
  <2>5. RpDone'
    BY <1>0, <1>1, <1>5, <1>6, <2>2 DEF RpDone
  <2> QED
    BY <1>3, <1>7, <2>1, <2>3, <2>4, <2>5
<1>10. CASE smain.pc = "tell" /\ s2c' = [s2c EXCEPT ![R!Serving] = @ + 1]
  <2>1. /\ cdata.pc \in {"adv", "complete"} /\ cdata.i = R!Serving
        /\ \A q \in Nat : ~RpBefore(list, smain, cdata.i, q)
        /\ ~RpGone
    BY <1>0, <1>10, RpAtWork
  <2>2. \A p : ~RpAt(list, smain, cdata.i, "go", p) /\ ~RpAt(list, smain, cdata.i, "read", p)
    BY <1>10 DEF RpAt
  <2>3. cdata.pc # "adv"
    BY <1>8, <2>1, <2>2 DEF RpAdv
  <2>4. /\ cdata.pc = "complete" /\ RpTaken /\ rdma_buf[cdata.i] = cdata.ping
        /\ cb[cdata.i].state = "RDMA_WRITE_ADV"
    BY <1>1, <2>1, <2>2, <2>3 DEF RpDone
  <2>5. s2c'[cdata.i] = 1 /\ \A j \in R!Ids : j # cdata.i => s2c'[j] = s2c[j]
    <3>1. s2c[R!Serving] = 0
      BY <2>1, <2>4 DEF RpTaken
    <3>2. s2c' = [s2c EXCEPT ![R!Serving] = 1]
      BY <1>10, <3>1
    <3> QED
      BY <1>1, <2>1, <3>2
  <2>6. RpAnswered'
    BY <1>0, <2>4, <2>5 DEF RpTaken, RpAnswered
  <2>7. RpBefore(list', smain', cdata.i, cdata.ping)
    BY <1>3, <2>1 DEF RpBefore
  <2>8. RpDone'
    BY <1>0, <2>4, <2>6, <2>7 DEF RpDone
  <2>9. RpPing' /\ RpAdv'
    BY <1>0, <2>4 DEF RpPing, RpAdv
  <2>10. RpRests'
    BY <1>0, <1>3, <2>1, <2>4, <2>5 DEF RpRests
  <2> QED
    BY <1>3, <1>7, <2>8, <2>9, <2>10
<1> QED
  BY <1>0, <1>9, <1>10
-----------------------------------------------------------------------------
(* The client: cq_thread and data_thread. *)

\* The client's entry for one QP changes.
LEMMA RpCbOne ==
    ASSUME RpOK, RpTypes, NEW i \in R!Ids, NEW r \in RpCb, cb' = [cb EXCEPT ![i] = r]
    PROVE  /\ cb' \in [R!Ids -> RpCb] /\ cb'[i] = r
           /\ \A j \in R!Ids : j # i => cb'[j] = cb[j]
BY DEF RpTypes, RpClientTypes

\* What the step of a ping at the client leaves alone.
RpClientPings ==
    /\ cdata.pc # "look"
    /\ UNCHANGED <<list, cm_list_lock, sev, sdata, smain, sbuf, calive, cmain, cev, ccm>>
    /\ cb' \in [R!Ids -> RpCb] /\ cb'[cdata.i].sem = cb[cdata.i].sem
    /\ \A j \in R!Ids : j # cdata.i => cb'[j] = cb[j] /\ c2s'[j] = c2s[j] /\ s2c'[j] = s2c[j]
    /\ cdata' \in RpCdata /\ ccq' \in 0 .. ClientQps
    /\ rdma_buf' \in [R!Ids -> Int] /\ crecv' \in [R!Ids -> Nat]
    /\ c2s' \in [R!Ids -> Nat] /\ s2c' \in [R!Ids -> Nat]

LEMMA RpClientPinged ==
    ASSUME RpOK, RpInv, RpClientPings
    PROVE  RpTypes' /\ RpConn' /\ (UNCHANGED <<crecv, ccq>> => RpRecv')
<1> USE DEF RpInv, RpConn
<1>1. cdata.i \in R!Ids /\ cmain.i \in Nat /\ \A id \in R!Ids : id \in Nat
  BY RpEntries
<1>2. cb[cdata.i].cm_established = TRUE
  BY DEF RpClientPings, RpPings, RpPinged
<1>3. cdata.i < cmain.i
  BY <1>1, <1>2 DEF RpClient
<1>4. /\ \A id \in R!Ids : cb'[id].sem = cb[id].sem
      /\ \A id \in R!Ids : id = cmain.i => cb'[id] = cb[id]
      /\ \A id \in R!Ids : cb'[id] = cb[id] \/ (id < cmain.i /\ cb[id].cm_established = TRUE)
  BY <1>1, <1>2, <1>3 DEF RpClientPings
<1>5. cmain.pc # "end" => cmain.i \in R!Ids
  <2>1. cmain.i >= 1 /\ cmain.i <= ClientQps + 1 /\ ClientQps \in Nat
    BY RpEntries
  <2> QED
    BY <1>1, <2>1 DEF RpClient, R!Ids
<1>6. UNCHANGED <<list, cm_list_lock, sev, sdata, smain, sbuf, calive, cmain, cev, ccm>>
  BY DEF RpClientPings
<1>7. RpTypes'
  BY <1>6 DEF RpTypes, RpServerTypes, RpClientTypes, RpClientPings
<1>8. RpOpen' <=> RpOpen
  BY <1>4, <1>5, <1>6 DEF RpOpen
<1>9. RpList'
  BY <1>6, <1>8 DEF RpList
<1>10. RpSev'
  <2>1. \A k \in 1 .. Len(sev) : sev[k].id \in R!Ids
    BY RpEntries
  <2>2. \A k \in 1 .. Len(sev) : sev[k].id = cmain.i => cb'[cmain.i] = cb[cmain.i]
    BY <1>4, <2>1
  <2> QED
    BY <1>6, <1>8, <2>2 DEF RpSev
<1>11. RpCev'
  <2>1. Len(cev) = 1 => cmain.pc # "end"
    BY DEF RpCev, RpOpen
  <2>2. Len(cev) = 1 => cb'[cmain.i].sem = cb[cmain.i].sem
    BY <1>4, <1>5, <2>1
  <2> QED
    BY <1>6, <1>8, <2>2 DEF RpCev
<1>12. RpClient'
  <2>1. cmain.pc \in {"bind", "connect"} => cb'[cmain.i].sem = cb[cmain.i].sem
    BY <1>4, <1>5
  <2> QED
    BY <1>4, <1>6, <2>1 DEF RpClient
<1>13. RpLock'
  BY <1>6, RpKeep
<1>14. ASSUME UNCHANGED <<crecv, ccq>>
       PROVE  RpRecv'
  BY <1>4, <1>6, <1>14 DEF RpRecv
<1> QED
  BY <1>7, <1>9, <1>10, <1>11, <1>12, <1>13, <1>14

\* The other QPs rest.
LEMMA RpOthersRest ==
    ASSUME RpOK, RpInv, RpClientPings, cdata'.pc # "look", cdata'.i = cdata.i,
           ccq' \in {0, cdata.i}
    PROVE  RpRests'
<1> SUFFICES ASSUME NEW id \in R!Ids, cdata.i # id
             PROVE  /\ c2s'[id] = 0 /\ s2c'[id] = 0 /\ ccq' # id /\ cb'[id].sem_data = 0
                    /\ RpFresh(list', smain', id) \/ RpServed(list', smain', id)
                    /\ cb'[id].test_done = TRUE => RpServed(list', smain', id)
  BY DEF RpRests
<1>1. id # 0
  BY RpEntries DEF RpInv
<1> QED
  BY <1>1 DEF RpClientPings, RpInv, RpPings, RpRests

\* cq_thread takes the answer of the server to the ping under way.
LEMMA RpCqReceives ==
    ASSUME RpOK, RpInv, NEW id \in R!Ids, R!CqRecv(id)
    PROVE  RpInv'
<1> USE DEF RpInv, RpPings
<1>0. /\ UNCHANGED <<list, cm_list_lock, sev, sdata, smain, sbuf, c2s, calive, cmain, ccm, cdata,
                     cev, rdma_buf>>
      /\ s2c[id] > 0 /\ crecv[id] > 0 /\ ccq' = id
      /\ s2c' = [s2c EXCEPT ![id] = @ - 1] /\ crecv' = [crecv EXCEPT ![id] = @ - 1]
      /\ cb' = [cb EXCEPT ![id].state = R!client_recv(@)]
  BY DEF R!CqRecv, R!serverVars, R!threadVars
<1>1. /\ s2c \in [R!Ids -> Nat] /\ c2s \in [R!Ids -> Nat] /\ crecv \in [R!Ids -> Nat]
      /\ rdma_buf \in [R!Ids -> Int] /\ cdata \in RpCdata /\ cb[id] \in RpCb /\ cdata.ping \in Nat
      /\ cdata.i \in R!Ids
  BY RpEntries DEF RpTypes, RpServerTypes, RpClientTypes
<1>2. s2c[id] # 0
  BY <1>0, <1>1
<1>3. cdata.pc # "look" /\ cdata.i = id
  BY <1>2 DEF RpRests
<1>4. ~RpTaken /\ ~RpSent /\ ~RpComplete /\ ~RpWoken
  BY <1>2, <1>3 DEF RpTaken, RpSent, RpComplete, RpWoken
<1>5. cdata.pc # "ping"
  BY <1>4 DEF RpPing
<1>6. RpAnswered /\ cdata.pc \in {"adv", "complete"}
  <2>1. cdata.pc \in {"adv", "complete"}
    BY <1>1, <1>3, <1>5 DEF RpCdata
  <2> QED
    BY <1>4, <2>1 DEF RpAdv, RpDone
<1>7. PICK r : r = [cb[id] EXCEPT !.state = R!client_recv(cb[id].state)]
  OBVIOUS
<1>8. /\ r \in RpCb /\ r.state = R!client_recv(cb[id].state) /\ r.sem = cb[id].sem
      /\ r.sem_data = cb[id].sem_data /\ r.cm_established = cb[id].cm_established
      /\ r.test_done = cb[id].test_done
  <2>1. R!client_recv(cb[id].state) \in {"RDMA_WRITE_ADV", "RDMA_WRITE_COMPLETE"}
    BY DEF R!client_recv
  <2> QED
    BY <1>1, <1>7, <2>1 DEF RpCb
<1>9. /\ cb' \in [R!Ids -> RpCb] /\ cb'[id] = r
      /\ \A j \in R!Ids : j # id => cb'[j] = cb[j]
  <2>1. cb' = [cb EXCEPT ![id] = r]
    BY <1>0, <1>7
  <2> QED
    BY <1>8, <2>1, RpCbOne
<1>10. crecv[id] = 1 /\ s2c[id] = 1
  <2>1. ccq # id
    BY <1>1, <1>3, <1>6, RpEntries DEF RpAnswered
  <2> QED
    BY <1>3, <1>6, <2>1 DEF RpRecv, RpPinged, RpAnswered
<1>11. /\ s2c' \in [R!Ids -> Nat] /\ s2c'[id] = 0 /\ \A j \in R!Ids : j # id => s2c'[j] = s2c[j]
  <2>1. s2c' = [s2c EXCEPT ![id] = 0]
    BY <1>0, <1>10
  <2> QED
    BY <1>1, <2>1
<1>12. /\ crecv' \in [R!Ids -> Nat] /\ crecv'[id] = 0
       /\ \A j \in R!Ids : j # id => crecv'[j] = crecv[j]
  <2>1. crecv' = [crecv EXCEPT ![id] = 0]
    BY <1>0, <1>10
  <2> QED
    BY <1>1, <2>1
<1>13. id \in 0 .. ClientQps /\ id # 0
  BY DEF R!Ids, RpOK
<1>14. RpClientPings
  BY <1>0, <1>1, <1>3, <1>8, <1>9, <1>11, <1>12, <1>13 DEF RpClientPings
<1>15. RpTypes' /\ RpConn'
  BY <1>14, RpClientPinged
<1>16. RpRests'
  BY <1>0, <1>3, <1>14, RpOthersRest
<1>17. RpRecv'
  <2>1. id < cmain.i /\ cmain.i \in Nat /\ id \in Nat
    BY <1>3, RpEntries DEF RpPinged, RpConn, RpClient
  <2>2. \A j \in R!Ids : cb[j].cm_established = TRUE \/ cb[j].test_done = TRUE =>
           crecv'[j] = IF ccq' = j THEN 0 ELSE 1
    <3> SUFFICES ASSUME NEW j \in R!Ids, j # id,
                        cb[j].cm_established = TRUE \/ cb[j].test_done = TRUE
                 PROVE  crecv[j] = 1
      BY <1>0, <1>12
    <3>1. ccq # j
      BY <1>3 DEF RpRests
    <3> QED
      BY <3>1 DEF RpRecv
  <2>3. \A j \in R!Ids : cb'[j].cm_established = cb[j].cm_established
                          /\ cb'[j].test_done = cb[j].test_done
    BY <1>8, <1>9
  <2>4. cmain.pc = "connect" => cmain.i \in R!Ids
    <3>1. cmain.i >= 1 /\ cmain.i <= ClientQps + 1 /\ ClientQps \in Nat /\ cmain.i \in Nat
      BY RpEntries
    <3> QED
      BY <3>1 DEF RpConn, RpClient, R!Ids
  <2>5. \A j \in R!Ids : j > cmain.i \/ j = cmain.i => crecv'[j] = crecv[j]
    BY <1>12, <2>1
  <2> QED
    BY <1>0, <2>2, <2>3, <2>4, <2>5 DEF RpRecv
<1>18. RpComplete'
  BY <1>0, <1>3, <1>6, <1>8, <1>9, <1>11 DEF RpAnswered, RpComplete
<1>19. RpPinged' /\ RpPing'
  BY <1>0, <1>3, <1>5, <1>8, <1>9 DEF RpPinged, RpPing
<1>20. RpAdv'
  <2> SUFFICES ASSUME cdata.pc = "adv"
               PROVE  /\ \/ /\ RpAt(list, smain, cdata.i, "go", cdata.ping - 1)
                            /\ sbuf[cdata.i] = cdata.ping
                         \/ RpGone
                      /\ cb'[cdata.i].state = "RDMA_WRITE_ADV"
    BY <1>0, <1>18 DEF RpAdv, RpGone
  <2>1. /\ \/ /\ RpAt(list, smain, cdata.i, "go", cdata.ping - 1)
              /\ sbuf[cdata.i] = cdata.ping
           \/ RpGone
        /\ cb[cdata.i].state = "RDMA_READ_ADV"
    <3>1. ~RpComplete /\ ~RpWoken /\ ~RpSent /\ ~RpTaken
      BY <1>4
    <3> QED
      BY <3>1 DEF RpAdv
  <2> QED
    BY <1>3, <1>8, <1>9, <2>1 DEF R!client_recv
<1>21. RpDone'
  <2> SUFFICES ASSUME cdata.pc = "complete"
               PROVE  /\ RpBefore(list, smain, cdata.i, cdata.ping) /\ rdma_buf[cdata.i] = cdata.ping
                      /\ cb'[cdata.i].state = "RDMA_WRITE_COMPLETE"
    BY <1>0, <1>18 DEF RpDone
  <2>1. /\ RpBefore(list, smain, cdata.i, cdata.ping) /\ rdma_buf[cdata.i] = cdata.ping
        /\ cb[cdata.i].state = "RDMA_WRITE_ADV"
    BY <1>4 DEF RpDone
  <2> QED
    BY <1>3, <1>8, <1>9, <2>1 DEF R!client_recv
<1> QED
  BY <1>15, <1>16, <1>17, <1>19, <1>20, <1>21

\* The QP main of the client sets up is one of the table.
LEMMA RpCmainAt ==
    ASSUME RpOK, RpInv
    PROVE  /\ cmain.pc # "end" => cmain.i \in R!Ids /\ calive = TRUE /\ cmain.i <= ClientQps
           /\ cmain \in RpCmain /\ cmain.i \in Nat
<1>1. cmain.i >= 1 /\ cmain.i <= ClientQps + 1 /\ ClientQps \in Nat /\ cmain.i \in Nat
      /\ cmain \in RpCmain /\ calive \in BOOLEAN
  BY RpEntries DEF RpInv, RpTypes, RpClientTypes
<1> QED
  BY <1>1 DEF RpInv, RpConn, RpClient, R!Ids

\* cq_thread posts the receive and wakes data_thread.
LEMMA RpCqPosts ==
    ASSUME RpOK, RpInv, R!CqPost
    PROVE  RpInv'
<1> USE DEF RpInv, RpPings
<1>0. /\ UNCHANGED <<list, cm_list_lock, sev, sdata, smain, sbuf, c2s, s2c, calive, cmain, ccm,
                     cdata, cev, rdma_buf>>
      /\ ccq # 0 /\ ccq' = 0 /\ crecv' = [crecv EXCEPT ![ccq] = R!Reposted(@)]
      /\ cb' = [cb EXCEPT ![ccq].sem_data = @ + 1]
  BY DEF R!CqPost, R!serverVars, R!threadVars
<1>1. /\ s2c \in [R!Ids -> Nat] /\ c2s \in [R!Ids -> Nat] /\ crecv \in [R!Ids -> Nat]
      /\ rdma_buf \in [R!Ids -> Int] /\ cdata \in RpCdata /\ cdata.ping \in Nat
      /\ cdata.i \in R!Ids /\ ccq \in 0 .. ClientQps /\ ClientQps \in Nat
  BY RpEntries DEF RpTypes, RpServerTypes, RpClientTypes
<1>2. PICK id : id = ccq
  OBVIOUS
<1>3. id \in R!Ids /\ cb[id] \in RpCb
  BY <1>0, <1>1, <1>2, RpEntries, SMTT(20) DEF R!Ids
<1>4. cdata.pc # "look" /\ cdata.i = id
  BY <1>2, <1>3 DEF RpRests
<1>5. ~RpTaken /\ ~RpSent /\ ~RpAnswered /\ ~RpWoken
  BY <1>0 DEF RpTaken, RpSent, RpAnswered, RpWoken
<1>6. cdata.pc # "ping"
  BY <1>5 DEF RpPing
<1>7. RpComplete /\ cdata.pc \in {"adv", "complete"}
  <2>1. cdata.pc \in {"adv", "complete"}
    BY <1>1, <1>4, <1>6 DEF RpCdata
  <2> QED
    BY <1>5, <2>1 DEF RpAdv, RpDone
<1>8. cb[id].sem_data = 0 /\ crecv[id] = 0
  BY <1>2, <1>3, <1>4, <1>7 DEF RpComplete, RpRecv, RpPinged
<1>9. PICK r : r = [cb[id] EXCEPT !.sem_data = 1]
  OBVIOUS
<1>10. /\ r \in RpCb /\ r.state = cb[id].state /\ r.sem = cb[id].sem /\ r.sem_data = 1
       /\ r.cm_established = cb[id].cm_established /\ r.test_done = cb[id].test_done
  BY <1>3, <1>9 DEF RpCb
<1>11. /\ cb' \in [R!Ids -> RpCb] /\ cb'[id] = r
       /\ \A j \in R!Ids : j # id => cb'[j] = cb[j]
  <2>1. cb' = [cb EXCEPT ![id] = r]
    BY <1>0, <1>2, <1>8, <1>9
  <2> QED
    BY <1>3, <1>10, <2>1, RpCbOne
<1>12. /\ crecv' \in [R!Ids -> Nat] /\ crecv'[id] = 1
       /\ \A j \in R!Ids : j # id => crecv'[j] = crecv[j]
  <2>1. crecv' = [crecv EXCEPT ![id] = 1]
    BY <1>0, <1>2, <1>8 DEF R!Reposted
  <2> QED
    BY <1>1, <1>3, <2>1
<1>13. RpClientPings
  BY <1>0, <1>1, <1>4, <1>10, <1>11, <1>12 DEF RpClientPings
<1>14. RpTypes' /\ RpConn'
  BY <1>13, RpClientPinged
<1>15. RpRests'
  BY <1>0, <1>4, <1>13, RpOthersRest
<1>16. RpRecv'
  <2>1. id < cmain.i /\ cmain.i \in Nat /\ id \in Nat
    BY <1>3, <1>4, RpEntries DEF RpPinged, RpConn, RpClient
  <2>2. \A j \in R!Ids : cb[j].cm_established = TRUE \/ cb[j].test_done = TRUE => crecv'[j] = 1
    <3> SUFFICES ASSUME NEW j \in R!Ids, j # id,
                        cb[j].cm_established = TRUE \/ cb[j].test_done = TRUE
                 PROVE  crecv[j] = 1
      BY <1>12
    <3> QED
      BY <1>2 DEF RpRecv
  <2>3. \A j \in R!Ids : cb'[j].cm_established = cb[j].cm_established
                          /\ cb'[j].test_done = cb[j].test_done
    BY <1>10, <1>11
  <2>4. cmain.pc = "connect" => cmain.i \in R!Ids
    BY RpCmainAt
  <2>5. \A j \in R!Ids : j > cmain.i \/ j = cmain.i => crecv'[j] = crecv[j]
    BY <1>12, <2>1
  <2>6. \A j \in R!Ids : j # 0
    BY RpEntries
  <2> QED
    BY <1>0, <2>2, <2>3, <2>4, <2>5, <2>6 DEF RpRecv
<1>17. RpWoken'
  BY <1>0, <1>4, <1>7, <1>10, <1>11 DEF RpComplete, RpWoken
<1>18. RpPinged' /\ RpPing'
  BY <1>0, <1>4, <1>6, <1>10, <1>11 DEF RpPinged, RpPing
<1>19. RpAdv'
  BY <1>0, <1>4, <1>5, <1>10, <1>11, <1>17 DEF RpAdv, RpGone
<1>20. RpDone'
  BY <1>0, <1>4, <1>5, <1>10, <1>11, <1>17 DEF RpDone, RpGone
<1> QED
  BY <1>14, <1>15, <1>16, <1>18, <1>19, <1>20

\* data_thread looks for a QP to ping.
LEMMA RpCdataLooks ==
    ASSUME RpOK, RpInv, R!CdataLook
    PROVE  RpInv'
<1> USE DEF RpInv, RpPings
<1>0. /\ UNCHANGED <<list, cm_list_lock, sev, sdata, smain, sbuf, c2s, s2c, calive, cb, cmain, ccm,
                     ccq, cev, rdma_buf, crecv>>
      /\ cdata.pc = "look"
  BY DEF R!CdataLook, R!PingAt, R!serverVars, R!threadVars
<1>2. cdata.i \in R!Ids /\ cdata.i \in Nat /\ cdata.i >= 1 /\ cdata.i <= ClientQps
      /\ ClientQps \in Nat /\ ClientQps > 0 /\ cdata \in RpCdata
  BY RpEntries DEF RpTypes, RpClientTypes, RpOK
<1>4. /\ cdata' \in RpCdata
      /\ \/ cdata'.pc = "look"
         \/ /\ cdata'.pc = "ping" /\ cdata'.ping = 0 /\ cb[cdata'.i].cm_established
            /\ ~cb[cdata'.i].test_done
  <2>1. CASE R!Ready(cdata.i)
    <3>1. cdata' = [cdata EXCEPT !.pc = "ping", !.ping = 0]
      BY <2>1 DEF R!CdataLook
    <3>2. cdata' \in RpCdata /\ cdata'.pc = "ping" /\ cdata'.ping = 0 /\ cdata'.i = cdata.i
      BY <1>2, <3>1 DEF RpCdata
    <3> QED
      BY <2>1, <3>2 DEF R!Ready
  <2>2. CASE ~R!Ready(cdata.i)
    <3>1. PICK q : q = (cdata.i % ClientQps) + 1
      OBVIOUS
    <3>2. cdata' = [cdata EXCEPT !.i = q]
      BY <2>2, <3>1 DEF R!CdataLook
    <3>3. cdata.i % ClientQps \in 0 .. ClientQps - 1
      BY <1>2, DivMod
    <3>4. q \in R!Ids
      BY <1>2, <3>1, <3>3 DEF R!Ids
    <3> QED
      BY <1>0, <1>2, <3>2, <3>4 DEF RpCdata
  <2> QED
    BY <2>1, <2>2
<1>5. cdata'.i \in R!Ids
  BY <1>4 DEF RpCdata
<1>6. cdata'.pc = "ping" => cb[cdata'.i].cm_established = TRUE /\ cb[cdata'.i].test_done = FALSE
  BY <1>4, <1>5, RpEntries
<1>7. RpTypes'
  BY <1>0, <1>4 DEF RpTypes, RpServerTypes, RpClientTypes
<1>8. RpRests'
  BY <1>0 DEF RpRests
<1>9. RpPinged'
  BY <1>0, <1>4, <1>6 DEF RpPinged
<1>10. ccq = 0
  <2>1. ccq \in 0 .. ClientQps
    BY DEF RpTypes, RpClientTypes
  <2>2. \A id \in R!Ids : ccq # id
    BY <1>0 DEF RpRests
  <2> QED
    BY <1>2, <2>1, <2>2 DEF R!Ids
<1>11. RpPing'
  <2> SUFFICES ASSUME cdata'.pc = "ping"
               PROVE  RpTaken' /\ RpBefore(list', smain', cdata'.i, cdata'.ping)
    BY DEF RpPing
  <2>1. RpTaken'
    BY <1>0, <1>5, <1>10 DEF RpRests, RpTaken
  <2>2. RpFresh(list, smain, cdata'.i) \/ RpServed(list, smain, cdata'.i)
    BY <1>0, <1>5, <1>6 DEF RpRests
  <2> QED
    BY <1>0, <1>4, <2>1, <2>2 DEF RpBefore
<1>12. RpAdv' /\ RpDone'
  BY <1>4 DEF RpAdv, RpDone
<1>13. RpConn' /\ RpRecv'
  BY <1>0, RpKeep DEF RpConn
<1> QED
  BY <1>7, <1>8, <1>9, <1>11, <1>12, <1>13

\* A ping begins.
LEMMA RpPingSends ==
    ASSUME RpOK, RpInv, R!PingSend
    PROVE  RpInv'
<1> USE DEF RpInv, RpPings
<1>0. PICK id : id = cdata.i
  OBVIOUS
<1>1. /\ UNCHANGED <<list, cm_list_lock, sev, sdata, smain, sbuf, s2c, calive, cmain, ccm, ccq, cev,
                     crecv>>
      /\ cdata.pc = "ping" /\ cb' = [cb EXCEPT ![id].state = "RDMA_READ_ADV"]
      /\ rdma_buf' = [rdma_buf EXCEPT ![id] = cdata.ping + 1]
      /\ c2s' = [c2s EXCEPT ![id] = @ + 1]
      /\ cdata' = [cdata EXCEPT !.pc = "adv", !.ping = @ + 1]
  BY <1>0 DEF R!PingSend, R!PingAt, R!serverVars, R!threadVars
<1>2. /\ s2c \in [R!Ids -> Nat] /\ c2s \in [R!Ids -> Nat] /\ crecv \in [R!Ids -> Nat]
      /\ rdma_buf \in [R!Ids -> Int] /\ cdata \in RpCdata /\ cdata.ping \in Nat
      /\ id \in R!Ids /\ cb[id] \in RpCb /\ ccq \in 0 .. ClientQps
  BY <1>0, RpEntries DEF RpTypes, RpServerTypes, RpClientTypes
<1>3. RpTaken /\ RpBefore(list, smain, id, cdata.ping)
  BY <1>0, <1>1 DEF RpPing
<1>4. PICK p : p = cdata.ping + 1
  OBVIOUS
<1>5. p \in Nat /\ p - 1 = cdata.ping /\ p >= 1 /\ (p = 1 \/ p <= count) /\ p \in Int
  BY <1>1, <1>2, <1>4 DEF RpPinged, RpOK
<1>6. cdata' \in RpCdata /\ cdata'.pc = "adv" /\ cdata'.ping = p /\ cdata'.i = id
  <2>1. cdata' = [cdata EXCEPT !.pc = "adv", !.ping = p]
    BY <1>1, <1>4
  <2> QED
    BY <1>0, <1>2, <1>5, <2>1 DEF RpCdata
<1>7. PICK r : r = [cb[id] EXCEPT !.state = "RDMA_READ_ADV"]
  OBVIOUS
<1>8. /\ r \in RpCb /\ r.state = "RDMA_READ_ADV" /\ r.sem = cb[id].sem
      /\ r.sem_data = cb[id].sem_data /\ r.cm_established = cb[id].cm_established
      /\ r.test_done = cb[id].test_done
  BY <1>2, <1>7 DEF RpCb
<1>9. /\ cb' \in [R!Ids -> RpCb] /\ cb'[id] = r /\ \A j \in R!Ids : j # id => cb'[j] = cb[j]
  <2>1. cb' = [cb EXCEPT ![id] = r]
    BY <1>1, <1>7
  <2> QED
    BY <1>2, <1>8, <2>1, RpCbOne
<1>10. c2s' \in [R!Ids -> Nat] /\ c2s'[id] = 1 /\ \A j \in R!Ids : j # id => c2s'[j] = c2s[j]
  <2>1. c2s[id] = 0
    BY <1>0, <1>3 DEF RpTaken
  <2>2. c2s' = [c2s EXCEPT ![id] = 1]
    BY <1>1, <2>1
  <2> QED
    BY <1>2, <2>2
<1>11. rdma_buf' \in [R!Ids -> Int] /\ rdma_buf'[id] = p
  <2>1. rdma_buf' = [rdma_buf EXCEPT ![id] = p]
    BY <1>1, <1>4
  <2> QED
    BY <1>2, <1>5, <2>1
<1>12. RpClientPings
  BY <1>0, <1>1, <1>2, <1>6, <1>8, <1>9, <1>10, <1>11 DEF RpClientPings
<1>13. RpTypes' /\ RpConn' /\ RpRecv'
  BY <1>1, <1>12, RpClientPinged
<1>14. RpRests'
  BY <1>0, <1>1, <1>3, <1>6, <1>12, RpOthersRest DEF RpTaken
<1>15. RpSent'
  BY <1>0, <1>1, <1>3, <1>6, <1>8, <1>9, <1>10 DEF RpTaken, RpSent
<1>16. RpPinged'
  BY <1>0, <1>1, <1>5, <1>6, <1>8, <1>9 DEF RpPinged
<1>17. RpAdv'
  BY <1>1, <1>3, <1>5, <1>6, <1>8, <1>9, <1>11, <1>15 DEF RpAdv
<1>18. RpPing' /\ RpDone'
  BY <1>6 DEF RpPing, RpDone
<1> QED
  BY <1>13, <1>14, <1>16, <1>17, <1>18

\* data_thread takes the answer and wipes the buffer.
LEMMA RpPingWipes ==
    ASSUME RpOK, RpInv, R!PingWipe
    PROVE  RpInv'
<1> USE DEF RpInv, RpPings
<1>0. PICK id : id = cdata.i
  OBVIOUS
<1>1. /\ UNCHANGED <<list, cm_list_lock, sev, sdata, smain, sbuf, s2c, calive, cmain, ccm, ccq, cev,
                     crecv>>
      /\ cdata.pc = "adv" /\ cb[id].sem_data > 0 /\ cb[id].state = "RDMA_WRITE_ADV"
      /\ cb' = [cb EXCEPT ![id].sem_data = @ - 1]
      /\ rdma_buf' = [rdma_buf EXCEPT ![id] = R!Blank]
      /\ c2s' = [c2s EXCEPT ![id] = @ + 1] /\ cdata' = [cdata EXCEPT !.pc = "complete"]
  BY <1>0 DEF R!PingWipe, R!PingAt, R!serverVars, R!threadVars
<1>2. /\ s2c \in [R!Ids -> Nat] /\ c2s \in [R!Ids -> Nat] /\ crecv \in [R!Ids -> Nat]
      /\ rdma_buf \in [R!Ids -> Int] /\ cdata \in RpCdata /\ cdata.ping \in Nat
      /\ id \in R!Ids /\ cb[id] \in RpCb /\ ccq \in 0 .. ClientQps /\ cb[id].sem_data \in Nat
  BY <1>0, RpEntries DEF RpTypes, RpServerTypes, RpClientTypes
<1>3. /\ RpWoken
      /\ \/ RpAt(list, smain, id, "go", cdata.ping - 1) /\ sbuf[id] = cdata.ping
         \/ RpServed(list, smain, id)
  <2>1. cb[id].sem_data # 0
    BY <1>1, <1>2
  <2>2. ~RpSent /\ ~RpTaken /\ ~RpAnswered /\ ~RpComplete
    BY <1>0, <2>1 DEF RpSent, RpTaken, RpAnswered, RpComplete
  <2> QED
    BY <1>0, <1>1, <2>2 DEF RpAdv, RpGone
<1>4. cdata' \in RpCdata /\ cdata'.pc = "complete" /\ cdata'.ping = cdata.ping /\ cdata'.i = id
  BY <1>0, <1>1, <1>2 DEF RpCdata
<1>5. PICK r : r = [cb[id] EXCEPT !.sem_data = 0]
  OBVIOUS
<1>6. /\ r \in RpCb /\ r.state = "RDMA_WRITE_ADV" /\ r.sem = cb[id].sem /\ r.sem_data = 0
      /\ r.cm_established = cb[id].cm_established /\ r.test_done = cb[id].test_done
  BY <1>1, <1>2, <1>5 DEF RpCb
<1>7. /\ cb' \in [R!Ids -> RpCb] /\ cb'[id] = r /\ \A j \in R!Ids : j # id => cb'[j] = cb[j]
  <2>1. cb[id].sem_data = 1
    BY <1>0, <1>3 DEF RpWoken
  <2>2. cb' = [cb EXCEPT ![id] = r]
    BY <1>1, <1>5, <2>1
  <2> QED
    BY <1>2, <1>6, <2>2, RpCbOne
<1>8. c2s' \in [R!Ids -> Nat] /\ c2s'[id] = 1 /\ \A j \in R!Ids : j # id => c2s'[j] = c2s[j]
  <2>1. c2s[id] = 0
    BY <1>0, <1>3 DEF RpWoken
  <2>2. c2s' = [c2s EXCEPT ![id] = 1]
    BY <1>1, <2>1
  <2> QED
    BY <1>2, <2>2
<1>9. rdma_buf' \in [R!Ids -> Int]
  <2>1. R!Blank \in Int
    BY DEF R!Blank
  <2> QED
    BY <1>1, <1>2, <2>1
<1>10. RpClientPings
  BY <1>0, <1>1, <1>2, <1>4, <1>6, <1>7, <1>8, <1>9 DEF RpClientPings
<1>11. RpTypes' /\ RpConn' /\ RpRecv'
  BY <1>1, <1>10, RpClientPinged
<1>12. RpRests'
  BY <1>0, <1>1, <1>3, <1>4, <1>10, RpOthersRest DEF RpWoken
<1>13. RpSent'
  BY <1>0, <1>1, <1>3, <1>4, <1>6, <1>7, <1>8 DEF RpWoken, RpSent
<1>14. RpPinged'
  BY <1>0, <1>1, <1>4, <1>6, <1>7 DEF RpPinged
<1>15. RpDone'
  BY <1>1, <1>3, <1>4, <1>6, <1>7, <1>13 DEF RpDone, RpGone
<1>16. RpPing' /\ RpAdv'
  BY <1>4 DEF RpPing, RpAdv
<1> QED
  BY <1>11, <1>12, <1>14, <1>15, <1>16

\* The data are back: the next ping follows, or the test of the QP is over.
LEMMA RpPingCompares ==
    ASSUME RpOK, RpInv, R!PingCompare
    PROVE  RpInv'
<1> USE DEF RpInv, RpPings
<1>0. PICK id : id = cdata.i
  OBVIOUS
<1>1. /\ UNCHANGED <<list, cm_list_lock, sev, sdata, smain, sbuf, c2s, s2c, calive, cmain, ccm, ccq,
                     cev, rdma_buf, crecv>>
      /\ cdata.pc = "complete" /\ cb[id].sem_data > 0 /\ rdma_buf[id] = cdata.ping
      /\ cb[id].state = "RDMA_WRITE_COMPLETE"
  BY <1>0 DEF R!PingCompare, R!PingRight, R!PingAt, R!serverVars, R!threadVars
<1>2. /\ s2c \in [R!Ids -> Nat] /\ c2s \in [R!Ids -> Nat] /\ crecv \in [R!Ids -> Nat]
      /\ rdma_buf \in [R!Ids -> Int] /\ cdata \in RpCdata /\ cdata.ping \in Nat
      /\ id \in R!Ids /\ cb[id] \in RpCb /\ ccq \in 0 .. ClientQps /\ cb[id].sem_data \in Nat
      /\ id \in Nat /\ id > 0 /\ id <= ClientQps /\ ClientQps \in Nat
  BY <1>0, RpEntries DEF RpTypes, RpServerTypes, RpClientTypes
<1>3. RpWoken /\ RpBefore(list, smain, id, cdata.ping)
  <2>1. cb[id].sem_data # 0
    BY <1>1, <1>2
  <2>2. ~RpSent /\ ~RpTaken /\ ~RpAnswered /\ ~RpComplete
    BY <1>0, <2>1 DEF RpSent, RpTaken, RpAnswered, RpComplete
  <2> QED
    BY <1>0, <1>1, <2>2 DEF RpDone
<1>4. cb[id].sem_data = 1 /\ cdata.ping >= 1
  BY <1>0, <1>1, <1>3 DEF RpWoken, RpPinged
<1>5. CASE cdata.ping < count
  <2>1. cdata' = [cdata EXCEPT !.pc = "ping"] /\ cb' = [cb EXCEPT ![id].sem_data = @ - 1]
    BY <1>0, <1>5 DEF R!PingCompare
  <2>2. cdata' \in RpCdata /\ cdata'.pc = "ping" /\ cdata'.ping = cdata.ping /\ cdata'.i = id
    BY <1>0, <1>2, <2>1 DEF RpCdata
  <2>3. PICK r : r = [cb[id] EXCEPT !.sem_data = 0]
    OBVIOUS
  <2>4. /\ r \in RpCb /\ r.sem = cb[id].sem /\ r.sem_data = 0
        /\ r.cm_established = cb[id].cm_established /\ r.test_done = cb[id].test_done
    BY <1>2, <2>3 DEF RpCb
  <2>5. /\ cb' \in [R!Ids -> RpCb] /\ cb'[id] = r /\ \A j \in R!Ids : j # id => cb'[j] = cb[j]
    <3>1. cb' = [cb EXCEPT ![id] = r]
      BY <1>4, <2>1, <2>3
    <3> QED
      BY <1>2, <2>4, <3>1, RpCbOne
  <2>6. RpClientPings
    BY <1>0, <1>1, <1>2, <2>2, <2>4, <2>5 DEF RpClientPings
  <2>7. RpTypes' /\ RpConn' /\ RpRecv'
    BY <1>1, <2>6, RpClientPinged
  <2>8. RpRests'
    BY <1>0, <1>1, <1>3, <2>2, <2>6, RpOthersRest DEF RpWoken
  <2>9. RpTaken'
    BY <1>0, <1>1, <1>3, <2>2, <2>4, <2>5 DEF RpWoken, RpTaken
  <2>10. RpPinged'
    BY <1>0, <1>1, <1>5, <2>2, <2>4, <2>5 DEF RpPinged
  <2>11. RpPing'
    BY <1>1, <1>3, <2>2, <2>9 DEF RpPing
  <2>12. RpAdv' /\ RpDone'
    BY <2>2 DEF RpAdv, RpDone
  <2> QED
    BY <2>7, <2>8, <2>10, <2>11, <2>12
<1>6. CASE ~(cdata.ping < count)
  <2>0. PICK q : q = (id % ClientQps) + 1
    OBVIOUS
  <2>1. /\ cdata' = [pc |-> "look", i |-> q, ping |-> 0]
        /\ cb' = [cb EXCEPT ![id].cm_established = FALSE, ![id].test_done = TRUE,
                            ![id].cm_chnl_en = FALSE, ![id].sem_data = @ - 1]
    BY <1>0, <1>6, <2>0 DEF R!PingCompare, R!TestOver
  <2>2. q \in R!Ids
    <3>1. id % ClientQps \in 0 .. ClientQps - 1
      BY <1>2, DivMod
    <3> QED
      BY <1>2, <2>0, <3>1 DEF R!Ids
  <2>3. cdata' \in RpCdata /\ cdata'.pc = "look"
    BY <2>1, <2>2 DEF RpCdata
  <2>4. PICK r : r = [cb[id] EXCEPT !.cm_established = FALSE, !.test_done = TRUE,
                                   !.cm_chnl_en = FALSE, !.sem_data = 0]
    OBVIOUS
  <2>5. r \in RpCb /\ r.sem = cb[id].sem /\ r.sem_data = 0 /\ r.test_done = TRUE
    BY <1>2, <2>4 DEF RpCb
  <2>6. /\ cb' \in [R!Ids -> RpCb] /\ cb'[id] = r /\ \A j \in R!Ids : j # id => cb'[j] = cb[j]
    <3>0. cb \in [R!Ids -> RpCb]
      BY DEF RpTypes, RpClientTypes
    <3>1. cb' = [cb EXCEPT ![id] = r]
      BY <1>2, <1>4, <2>1, <2>4, <3>0 DEF RpCb
    <3> QED
      BY <1>2, <2>5, <3>1, RpCbOne
  <2>7. RpClientPings
    BY <1>0, <1>1, <1>2, <2>3, <2>5, <2>6 DEF RpClientPings
  <2>8. RpTypes' /\ RpConn' /\ RpRecv'
    BY <1>1, <2>7, RpClientPinged
  <2>9. RpServed(list, smain, id)
    <3>1. cdata.ping # 0 /\ ~(cdata.ping < count)
      BY <1>4, <1>6
    <3> QED
      BY <1>3, <3>1 DEF RpBefore
  <2>10. RpRests'
    <3> SUFFICES ASSUME NEW j \in R!Ids
                 PROVE  /\ c2s[j] = 0 /\ s2c[j] = 0 /\ ccq # j /\ cb'[j].sem_data = 0
                        /\ RpFresh(list, smain, j) \/ RpServed(list, smain, j)
                        /\ cb'[j].test_done = TRUE => RpServed(list, smain, j)
      BY <1>1 DEF RpRests
    <3>1. CASE j = id
      <4>1. j # 0
        BY RpEntries
      <4> QED
        BY <1>0, <1>3, <2>5, <2>6, <2>9, <3>1, <4>1 DEF RpWoken
    <3>2. CASE j # id
      BY <1>0, <2>6, <3>2 DEF RpRests
    <3> QED
      BY <3>1, <3>2
  <2>11. RpPinged' /\ RpPing' /\ RpAdv' /\ RpDone'
    BY <2>3 DEF RpPinged, RpPing, RpAdv, RpDone
  <2> QED
    BY <2>8, <2>10, <2>11
<1> QED
  BY <1>5, <1>6
-----------------------------------------------------------------------------
(* The client: main and cm_thread. *)

\* No request is on its way or waits in the list.
RpCalm == /\ \A k \in 1 .. Len(list) : list[k].state # "CONNECT_REQ"
          /\ \A k \in 1 .. Len(sev) : sev[k].event # "CONNECT_REQUEST"

LEMMA RpIsCalm ==
    ASSUME RpInv, ~RpOpen \/ Len(cev) = 1
    PROVE  RpCalm
<1> USE DEF RpInv, RpConn
<1>0. ~(RpOpen /\ Len(cev) = 0)
  OBVIOUS
<1>1. \A k \in 1 .. Len(list) : list[k].state # "CONNECT_REQ"
  BY <1>0 DEF RpList
<1>2. \A k \in 1 .. Len(sev) : sev[k].event # "CONNECT_REQUEST"
  <2> SUFFICES ASSUME NEW k \in 1 .. Len(sev), sev[k].event = "CONNECT_REQUEST"
               PROVE  RpOpen /\ Len(cev) = 0
    BY <1>0
  <2> QED
    BY DEF RpSev
<1> QED
  BY <1>1, <1>2 DEF RpCalm

LEMMA RpNoCev ==
    ASSUME RpOK, RpInv, cmain.pc \in {"create", "end"} \/ cb[cmain.i].sem > 0
    PROVE  cev = << >> /\ Len(cev) = 0 /\ ~RpOpen /\ RpCalm
<1> USE DEF RpInv, RpConn
<1>1. PICK n : n = Len(cev)
  OBVIOUS
<1>2. n \in Nat /\ n <= 1 /\ cev \in Seq(RpEvent)
  BY <1>1, RpEntries DEF RpCev, RpTypes, RpClientTypes
<1>3. ~RpOpen
  BY DEF RpOpen
<1>4. n # 1
  BY <1>1, <1>3 DEF RpCev
<1>5. n = 0
  BY <1>2, <1>4
<1>6. cev = << >>
  BY <1>1, <1>2, <1>5, EmptySeq
<1> QED
  BY <1>1, <1>3, <1>5, <1>6, RpIsCalm

\* main of the client goes on while no request is there.
RpMoves ==
    /\ list' = list
    /\ \A id \in R!Ids : id < cmain.i => id < cmain'.i
    /\ cmain.pc = "connect" =>
          \/ cmain.i < cmain'.i
          \/ /\ cmain'.i = cmain.i /\ cmain'.pc = "connect"
             /\ cb[cmain.i].state = "CONNECTED" => cb'[cmain.i].state = "CONNECTED"

LEMMA RpCalmStep ==
    ASSUME RpOK, RpInv, RpCalm, RpMoves
    PROVE  RpList' /\ (sev' = sev => RpSev')
<1> USE DEF RpInv, RpConn
<1>0. /\ \A k \in 1 .. Len(list) : list[k].id \in R!Ids
      /\ \A k \in 1 .. Len(sev) : sev[k].id \in R!Ids
  BY RpEntries
<1>1. RpList'
  <2>1. \A k \in 1 .. Len(list) :
           list[k].id < cmain'.i \/ (list[k].id = cmain'.i /\ cmain'.pc = "connect")
    BY <1>0 DEF RpMoves, RpList
  <2> QED
    BY <2>1 DEF RpList, RpCalm, RpMoves
<1>2. ASSUME sev' = sev
      PROVE  RpSev'
  <2> SUFFICES ASSUME NEW k \in 1 .. Len(sev), sev[k].event # "DISCONNECTED"
               PROVE  /\ sev[k].event = "ESTABLISHED"
                      /\ \/ sev[k].id < cmain'.i
                         \/ sev[k].id = cmain'.i /\ cb'[cmain'.i].state = "CONNECTED"
                      /\ \E j \in 1 .. Len(list) :
                            list[j].id = sev[k].id /\ list[j].state = "CONNECT_REQ_PROC"
                      /\ \A j \in 1 .. Len(sev) :
                            j # k /\ sev[j].event = "ESTABLISHED" => sev[j].id # sev[k].id
    BY <1>2 DEF RpSev, RpMoves
  <2>1. /\ sev[k].event = "ESTABLISHED"
        /\ sev[k].id < cmain.i \/ (sev[k].id = cmain.i /\ cb[cmain.i].state = "CONNECTED")
        /\ \E j \in 1 .. Len(list) :
              list[j].id = sev[k].id /\ list[j].state = "CONNECT_REQ_PROC"
        /\ \A j \in 1 .. Len(sev) :
              j # k /\ sev[j].event = "ESTABLISHED" => sev[j].id # sev[k].id
    BY DEF RpSev, RpCalm
  <2>2. CASE sev[k].id < cmain.i
    BY <1>0, <2>1, <2>2 DEF RpMoves
  <2>3. CASE ~(sev[k].id < cmain.i)
    <3>1. cmain.pc = "connect"
      BY <2>1, <2>3 DEF RpList
    <3> QED
      BY <2>1, <2>3, <3>1 DEF RpMoves
  <2> QED
    BY <2>1, <2>2, <2>3
<1> QED
  BY <1>1, <1>2

\* The pings go on whatever main and cm_thread do.
LEMMA RpPingsGoOn ==
    ASSUME RpOK, RpInv, UNCHANGED <<list, smain, sbuf, c2s, s2c, ccq, cdata>>,
           \A id \in R!Ids : cb'[id].sem_data = cb[id].sem_data /\ cb'[id].test_done = cb[id].test_done,
           \A id \in R!Ids : id < cmain.i =>
              /\ cb'[id].state = cb[id].state /\ cb'[id].cm_established = cb[id].cm_established
              /\ rdma_buf'[id] = rdma_buf[id]
    PROVE  RpPings'
<1>1. cdata.i \in R!Ids
  BY RpEntries DEF RpInv
<1>2. cdata.pc # "look" => cdata.i < cmain.i
  BY <1>1 DEF RpInv, RpPings, RpPinged, RpConn, RpClient
<1>3. RpClientStays
  BY <1>1, <1>2 DEF RpClientStays
<1>4. RpServerStays
  BY DEF RpServerStays
<1> QED
  BY <1>3, <1>4, RpPingsStay

LEMMA RpOneEvent ==
    ASSUME NEW e, NEW id, id \in R!Ids, NEW s, s = Append(<< >>, R!Event(e, id)),
           e \in {"CONNECT_REQUEST", "ESTABLISHED", "DISCONNECTED", "ADDR_RESOLVED",
                  "ROUTE_RESOLVED", "ERROR"}
    PROVE  s \in Seq(RpEvent) /\ Len(s) = 1 /\ s[1].event = e /\ s[1].id = id
<1>1. PICK ev : ev = [event |-> e, id |-> id]
  OBVIOUS
<1>2. ev \in RpEvent /\ ev.event = e /\ ev.id = id
  BY <1>1 DEF RpEvent
<1>3. s = Append(<< >>, ev)
  BY <1>1 DEF R!Event
<1>4. s = <<ev>>
  BY <1>3
<1> QED
  BY <1>2, <1>4

RpClientMoves ==
    UNCHANGED <<list, cm_list_lock, sdata, smain, sbuf, c2s, s2c, cdata, ccq>>

\* A connection attempt begins.
LEMMA RpCmainCreates ==
    ASSUME RpOK, RpInv, NEW ok \in BOOLEAN, R!CmainCreate(ok)
    PROVE  RpInv'
<1> USE DEF RpInv, RpConn
<1>0. PICK i : i = cmain.i
  OBVIOUS
<1>1. PICK e : e = IF ok THEN "ADDR_RESOLVED" ELSE "ERROR"
  OBVIOUS
<1>2. /\ RpClientMoves /\ UNCHANGED <<sev, calive, ccm, rdma_buf, crecv>>
      /\ cmain.pc = "create" /\ cb' = [cb EXCEPT ![i].cm_chnl_en = TRUE]
      /\ cev' = Append(cev, R!Event(e, i)) /\ cmain' = [cmain EXCEPT !.pc = "bind"]
  BY <1>0, <1>1 DEF R!CmainCreate, R!ClientAt, R!serverVars, R!threadVars, RpClientMoves
<1>3. cev = << >> /\ RpCalm
  BY <1>2, RpNoCev
<1>4. i \in R!Ids /\ cmain \in RpCmain /\ cb[i] \in RpCb /\ i \in Nat /\ calive = TRUE
  BY <1>0, <1>2, RpCmainAt, RpEntries
<1>5. cmain' \in RpCmain /\ cmain'.pc = "bind" /\ cmain'.i = i
  BY <1>0, <1>2, <1>4 DEF RpCmain
<1>6. cev' \in Seq(RpEvent) /\ Len(cev') = 1 /\ cev'[1].event = e /\ cev'[1].id = i
  BY <1>1, <1>2, <1>3, <1>4, RpOneEvent
<1>7. PICK r : r = [cb[i] EXCEPT !.cm_chnl_en = TRUE]
  OBVIOUS
<1>8. /\ r \in RpCb /\ r.sem = cb[i].sem /\ r.sem_data = cb[i].sem_data /\ r.state = cb[i].state
      /\ r.cm_established = cb[i].cm_established /\ r.test_done = cb[i].test_done
  BY <1>4, <1>7 DEF RpCb
<1>9. /\ cb' \in [R!Ids -> RpCb]
      /\ \A j \in R!Ids : /\ cb'[j].sem = cb[j].sem /\ cb'[j].sem_data = cb[j].sem_data
                          /\ cb'[j].state = cb[j].state /\ cb'[j].test_done = cb[j].test_done
                          /\ cb'[j].cm_established = cb[j].cm_established
  <2>1. cb' = [cb EXCEPT ![i] = r]
    BY <1>2, <1>7
  <2>2. cb' \in [R!Ids -> RpCb] /\ cb'[i] = r /\ \A j \in R!Ids : j # i => cb'[j] = cb[j]
    BY <1>4, <1>8, <2>1, RpCbOne
  <2> QED
    BY <1>8, <2>2
<1>10. cb[i].sem = 0
  BY <1>0, <1>2, <1>4 DEF RpClient
<1>11. RpTypes'
  BY <1>2, <1>5, <1>6, <1>9 DEF RpTypes, RpServerTypes, RpClientTypes, RpClientMoves
<1>12. RpLock'
  BY <1>2, RpKeep DEF RpClientMoves
<1>13. RpMoves
  BY <1>0, <1>2, <1>5 DEF RpMoves, RpClientMoves
<1>14. RpList' /\ RpSev'
  BY <1>2, <1>3, <1>13, RpCalmStep
<1>15. RpCev'
  BY <1>1, <1>4, <1>5, <1>6, <1>9, <1>10 DEF RpCev
<1>16. RpClient'
  <2>1. i # ClientQps + 1
    BY <1>0, <1>2 DEF RpClient
  <2>2. \A id \in R!Ids : cb[id].sem = 0
    BY <1>2 DEF RpClient
  <2>3. \A id \in R!Ids : cb'[id].cm_established = TRUE \/ cb'[id].test_done = TRUE => id < i
    BY <1>0, <1>9 DEF RpClient
  <2>4. \A id \in R!Ids : cb'[id].sem = 0
    BY <1>9, <2>2
  <2> QED
    BY <1>2, <1>4, <1>5, <2>1, <2>3, <2>4 DEF RpClient
<1>17. RpRecv'
  BY <1>0, <1>2, <1>5, <1>9 DEF RpRecv, RpClientMoves
<1>18. RpPings'
  BY <1>2, <1>9, RpPingsGoOn DEF RpClientMoves
<1> QED
  BY <1>11, <1>12, <1>14, <1>15, <1>16, <1>17, <1>18

\* main has done with the QP it sets up, given up or connected.
LEMMA RpCmainNext ==
    ASSUME RpOK, RpInv, R!CmainFails \/ R!CmainConnected
    PROVE  RpInv'
<1> USE DEF RpInv, RpConn
<1>0. PICK i : i = cmain.i
  OBVIOUS
<1>1. PICK g : g \in {-1, 0} /\ (g = -1 <=> R!CmainFails) /\ (g = 0 <=> ~R!CmainFails)
  <2>1. CASE R!CmainFails
    <3> WITNESS -1
    <3> QED
      BY <2>1
  <2>2. CASE ~R!CmainFails
    <3> WITNESS 0
    <3> QED
      BY <2>2
  <2> QED
    BY <2>1, <2>2
<1>2. /\ RpClientMoves /\ UNCHANGED <<sev, calive, cev, ccm, rdma_buf, crecv>>
      /\ cmain.pc \in {"bind", "connect"} /\ cb[i].sem > 0 /\ cmain' = R!NextQp(g)
  BY <1>0, <1>1 DEF R!CmainFails, R!CmainConnected, R!ClientAt, R!serverVars, R!threadVars,
                    RpClientMoves
<1>3. cev = << >> /\ Len(cev) = 0 /\ RpCalm
  BY <1>0, <1>2, RpNoCev
<1>4. i \in R!Ids /\ cmain \in RpCmain /\ cb[i] \in RpCb /\ i \in Nat /\ calive = TRUE
      /\ i <= ClientQps /\ ClientQps \in Nat /\ i >= 1
  BY <1>0, <1>2, RpCmainAt, RpEntries
<1>5. cb[i].sem = 1
  BY <1>0, <1>2, <1>4, RpEntries DEF RpClient
<1>6. /\ cmain' \in RpCmain /\ cmain'.i = i + 1
      /\ cmain'.pc = IF i = ClientQps THEN "end" ELSE "create"
  <2>1. cmain' = [pc |-> IF i = ClientQps THEN "end" ELSE "create", i |-> i + 1, ret |-> g]
    BY <1>0, <1>2 DEF R!NextQp
  <2>2. i + 1 \in 1 .. ClientQps + 1 /\ g \in {0, -1}
    BY <1>1, <1>4
  <2> QED
    BY <2>1, <2>2 DEF RpCmain
<1>7. PICK r : /\ r \in RpCb /\ r.sem = 0 /\ r.sem_data = cb[i].sem_data
               /\ r.state = cb[i].state /\ r.test_done = cb[i].test_done
               /\ r.cm_established = cb[i].cm_established \/ cmain.pc = "connect"
               /\ cb' = [cb EXCEPT ![i] = r]
  <2>0. cb \in [R!Ids -> RpCb]
    BY DEF RpTypes, RpClientTypes
  <2>1. CASE R!CmainFails
    <3>1. PICK r : r = [cb[i] EXCEPT !.sem = cb[i].sem - 1, !.cm_chnl_en = FALSE]
      OBVIOUS
    <3>2. cb' = [cb EXCEPT ![i].sem = @ - 1, ![i].cm_chnl_en = FALSE]
      BY <1>0, <2>1 DEF R!CmainFails
    <3>3. cb' = [cb EXCEPT ![i] = r]
      BY <1>4, <2>0, <3>1, <3>2 DEF RpCb
    <3>4. /\ r \in RpCb /\ r.sem = 0 /\ r.sem_data = cb[i].sem_data
          /\ r.state = cb[i].state /\ r.test_done = cb[i].test_done
          /\ r.cm_established = cb[i].cm_established
      <4>1. r = [cb[i] EXCEPT !.sem = 0, !.cm_chnl_en = FALSE]
        BY <1>5, <3>1
      <4> QED
        BY <1>4, <4>1 DEF RpCb
    <3> QED
      BY <3>3, <3>4
  <2>2. CASE R!CmainConnected
    <3>1. PICK r : r = [cb[i] EXCEPT !.sem = cb[i].sem - 1, !.cm_established = TRUE]
      OBVIOUS
    <3>2. cb' = [cb EXCEPT ![i].sem = @ - 1, ![i].cm_established = TRUE] /\ cmain.pc = "connect"
      BY <1>0, <2>2 DEF R!CmainConnected, R!ClientAt
    <3>3. cb' = [cb EXCEPT ![i] = r]
      BY <1>4, <2>0, <3>1, <3>2 DEF RpCb
    <3>4. /\ r \in RpCb /\ r.sem = 0 /\ r.sem_data = cb[i].sem_data
          /\ r.state = cb[i].state /\ r.test_done = cb[i].test_done
      <4>1. r = [cb[i] EXCEPT !.sem = 0, !.cm_established = TRUE]
        BY <1>5, <3>1
      <4> QED
        BY <1>4, <4>1 DEF RpCb
    <3> QED
      BY <3>2, <3>3, <3>4
  <2> QED
    BY <2>1, <2>2
<1>8. cb' \in [R!Ids -> RpCb] /\ cb'[i] = r /\ \A j \in R!Ids : j # i => cb'[j] = cb[j]
  BY <1>4, <1>7, RpCbOne
<1>9. \A j \in R!Ids : j \in Nat
  BY RpEntries
<1>10. RpTypes'
  BY <1>2, <1>6, <1>8 DEF RpTypes, RpServerTypes, RpClientTypes, RpClientMoves
<1>11. RpLock'
  BY <1>2, RpKeep DEF RpClientMoves
<1>12. RpMoves
  BY <1>0, <1>2, <1>4, <1>6, <1>9 DEF RpMoves, RpClientMoves
<1>13. RpList' /\ RpSev'
  BY <1>2, <1>3, <1>12, RpCalmStep
<1>14. RpCev'
  BY <1>2, <1>3 DEF RpCev
<1>15. RpClient'
  <2>1. \A id \in R!Ids : cb'[id].sem = 0
    BY <1>0, <1>7, <1>8 DEF RpClient
  <2>2. \A id \in R!Ids : cb'[id].cm_established = TRUE \/ cb'[id].test_done = TRUE => id < i + 1
    <3>1. \A id \in R!Ids : id < i \/ id = i => id < i + 1
      BY <1>4, <1>9
    <3>2. \A id \in R!Ids : id # i /\ (cb'[id].cm_established = TRUE \/ cb'[id].test_done = TRUE)
                              => id < i
      BY <1>0, <1>8 DEF RpClient
    <3> QED
      BY <3>1, <3>2
  <2>3. (i = ClientQps) <=> (i + 1 = ClientQps + 1)
    BY <1>4
  <2> QED
    BY <1>2, <1>4, <1>6, <2>1, <2>2, <2>3 DEF RpClient
<1>16. RpRecv'
  <2>1. \A id \in R!Ids : id > i + 1 \/ id = i + 1 => crecv[id] = 0
    <3>1. \A id \in R!Ids : id > i + 1 \/ id = i + 1 => id > i
      BY <1>4, <1>9
    <3> QED
      BY <1>0, <3>1 DEF RpRecv
  <2>2. ASSUME NEW id \in R!Ids, cb'[id].cm_established = TRUE \/ cb'[id].test_done = TRUE
        PROVE  crecv[id] = IF ccq = id THEN 0 ELSE 1
    <3>1. CASE id # i
      BY <1>8, <2>2, <3>1 DEF RpRecv
    <3>2. CASE id = i
      <4>0. ~(i < cmain.i)
        BY <1>0, <1>4
      <4>1. cb[i].cm_established # TRUE /\ cb[i].test_done # TRUE
        BY <1>4, <4>0 DEF RpClient
      <4>2. cmain.pc = "connect"
        BY <1>7, <1>8, <2>2, <3>2, <4>1
      <4>3. crecv[i] = 1
        BY <1>0, <4>2 DEF RpRecv
      <4>4. ccq # i
        <5>1. cdata.pc = "look" \/ cdata.i # i
          BY <4>1 DEF RpPings, RpPinged
        <5> QED
          BY <1>4, <5>1 DEF RpPings, RpRests
      <4> QED
        BY <3>2, <4>3, <4>4
    <3> QED
      BY <3>1, <3>2
  <2> QED
    BY <1>2, <1>6, <2>1, <2>2 DEF RpRecv, RpClientMoves
<1>17. RpPings'
  <2>1. \A id \in R!Ids : id < cmain.i => id # i
    BY <1>0, <1>4
  <2> QED
    BY <1>2, <1>7, <1>8, <2>1, RpPingsGoOn DEF RpClientMoves
<1> QED
  BY <1>10, <1>11, <1>13, <1>14, <1>15, <1>16, <1>17

\* One more event for the server.
LEMMA RpSevMore ==
    ASSUME RpTypes, NEW e, NEW id, id \in R!Ids, sev' = Append(sev, R!Event(e, id)),
           e \in {"CONNECT_REQUEST", "ESTABLISHED", "DISCONNECTED", "ADDR_RESOLVED",
                  "ROUTE_RESOLVED", "ERROR"}
    PROVE  /\ sev' \in Seq(RpEvent) /\ Len(sev) \in Nat /\ Len(sev') = Len(sev) + 1
           /\ \A k \in 1 .. Len(sev) : k \in 1 .. Len(sev') /\ sev'[k] = sev[k]
           /\ \A k \in 1 .. Len(sev') :
                 k \notin 1 .. Len(sev) => k = Len(sev') /\ sev'[k].event = e /\ sev'[k].id = id
<1>1. PICK ev : ev = [event |-> e, id |-> id]
  OBVIOUS
<1>2. ev \in RpEvent /\ ev.event = e /\ ev.id = id
  BY <1>1 DEF RpEvent
<1>3. sev' = Append(sev, ev) /\ sev \in Seq(RpEvent)
  BY <1>1 DEF R!Event, RpTypes, RpServerTypes
<1>4. PICK n : n = Len(sev)
  OBVIOUS
<1>5. /\ sev' \in Seq(RpEvent) /\ n \in Nat /\ Len(sev') = n + 1 /\ sev'[n + 1] = ev
      /\ \A k \in 1 .. n : sev'[k] = sev[k]
  BY <1>2, <1>3, <1>4
<1>6. /\ \A k \in 1 .. n : k \in 1 .. n + 1
      /\ \A k \in 1 .. n + 1 : k \notin 1 .. n => k = n + 1
  BY <1>5
<1> QED
  BY <1>2, <1>4, <1>5, <1>6

\* The route is there: buffers, a receive, and the request.
LEMMA RpCmainConnects ==
    ASSUME RpOK, RpInv, NEW ok \in BOOLEAN, R!CmainConnect(ok)
    PROVE  RpInv'
<1> USE DEF RpInv, RpConn
<1>0. PICK i : i = cmain.i
  OBVIOUS
<1>1. /\ RpClientMoves /\ UNCHANGED <<calive, ccm>>
      /\ cmain.pc = "bind" /\ cb[i].sem > 0 /\ cb[i].state = "ROUTE_RESOLVED"
      /\ cb' = [cb EXCEPT ![i].sem = @ - 1] /\ rdma_buf' = [rdma_buf EXCEPT ![i] = R!Blank]
      /\ crecv' = [crecv EXCEPT ![i] = @ + 1] /\ cmain' = [cmain EXCEPT !.pc = "connect"]
      /\ \/ sev' = Append(sev, R!Event("CONNECT_REQUEST", i)) /\ cev' = cev
         \/ sev' = sev /\ cev' = Append(cev, R!Event("ERROR", i))
  BY <1>0 DEF R!CmainConnect, R!ClientAt, R!rping_setup, R!threadVars, RpClientMoves
<1>2. cev = << >> /\ Len(cev) = 0 /\ RpCalm
  BY <1>0, <1>1, RpNoCev
<1>3. i \in R!Ids /\ cmain \in RpCmain /\ cb[i] \in RpCb /\ i \in Nat /\ calive = TRUE
  BY <1>0, <1>1, RpCmainAt, RpEntries
<1>4. cmain' \in RpCmain /\ cmain'.pc = "connect" /\ cmain'.i = i
  BY <1>0, <1>1, <1>3 DEF RpCmain
<1>5. cb[i].sem = 1 /\ crecv[i] = 0
  BY <1>0, <1>1, <1>3, RpEntries, SMTT(20) DEF RpClient, RpRecv
<1>6. PICK r : r = [cb[i] EXCEPT !.sem = 0]
  OBVIOUS
<1>7. /\ r \in RpCb /\ r.sem = 0 /\ r.sem_data = cb[i].sem_data /\ r.state = "ROUTE_RESOLVED"
      /\ r.cm_established = cb[i].cm_established /\ r.test_done = cb[i].test_done
  BY <1>1, <1>3, <1>6 DEF RpCb
<1>8. cb' \in [R!Ids -> RpCb] /\ cb'[i] = r /\ \A j \in R!Ids : j # i => cb'[j] = cb[j]
  <2>1. cb' = [cb EXCEPT ![i] = r]
    BY <1>1, <1>5, <1>6
  <2> QED
    BY <1>3, <1>7, <2>1, RpCbOne
<1>9. crecv' \in [R!Ids -> Nat] /\ crecv'[i] = 1 /\ \A j \in R!Ids : j # i => crecv'[j] = crecv[j]
  <2>1. crecv \in [R!Ids -> Nat]
    BY DEF RpTypes, RpClientTypes
  <2>2. crecv' = [crecv EXCEPT ![i] = 1]
    BY <1>1, <1>5
  <2> QED
    BY <1>3, <2>1, <2>2
<1>10. rdma_buf' \in [R!Ids -> Int] /\ \A j \in R!Ids : j # i => rdma_buf'[j] = rdma_buf[j]
  <2>1. R!Blank \in Int /\ rdma_buf \in [R!Ids -> Int]
    BY DEF R!Blank, RpTypes, RpClientTypes
  <2> QED
    BY <1>1, <1>3, <2>1
<1>11. \/ /\ sev' = Append(sev, R!Event("CONNECT_REQUEST", i)) /\ cev' = cev
       \/ /\ sev' = sev /\ cev' \in Seq(RpEvent) /\ Len(cev') = 1 /\ cev'[1].event = "ERROR"
          /\ cev'[1].id = i
  BY <1>1, <1>2, <1>3, RpOneEvent
<1>12. RpTypes'
  <2>1. sev' \in Seq(RpEvent) /\ cev' \in Seq(RpEvent)
    BY <1>3, <1>11, RpSevMore DEF RpTypes, RpServerTypes, RpClientTypes
  <2> QED
    BY <1>1, <1>4, <1>8, <1>9, <1>10, <2>1 DEF RpTypes, RpServerTypes, RpClientTypes, RpClientMoves
<1>13. RpLock'
  BY <1>1, RpKeep DEF RpClientMoves
<1>14. RpMoves
  BY <1>0, <1>1, <1>4 DEF RpMoves, RpClientMoves
<1>15. RpList' /\ (sev' = sev => RpSev')
  BY <1>1, <1>2, <1>14, RpCalmStep
<1>16. RpOpen'
  BY <1>4, <1>7, <1>8 DEF RpOpen
<1>17. RpSev'
  <2>1. CASE sev' = Append(sev, R!Event("CONNECT_REQUEST", i)) /\ cev' = cev
    <3>1. /\ \A k \in 1 .. Len(sev) : k \in 1 .. Len(sev') /\ sev'[k] = sev[k]
          /\ \A k \in 1 .. Len(sev') : k \notin 1 .. Len(sev) =>
                k = Len(sev') /\ sev'[k].event = "CONNECT_REQUEST" /\ sev'[k].id = i
      BY <1>3, <2>1, RpSevMore
    <3>2. \A j \in 1 .. Len(list) : list[j].id < i
      BY <1>0, <1>1 DEF RpList
    <3> SUFFICES ASSUME NEW k \in 1 .. Len(sev')
                 PROVE  \/ /\ sev'[k].event = "CONNECT_REQUEST" /\ sev'[k].id = i
                           /\ \A j \in 1 .. Len(sev') : j # k => sev'[j].event # "CONNECT_REQUEST"
                        \/ /\ sev'[k].event = "ESTABLISHED" /\ sev'[k].id < i
                           /\ \E j \in 1 .. Len(list) :
                                 list[j].id = sev'[k].id /\ list[j].state = "CONNECT_REQ_PROC"
                           /\ \A j \in 1 .. Len(sev') :
                                 j # k /\ sev'[j].event = "ESTABLISHED" => sev'[j].id # sev'[k].id
                        \/ sev'[k].event = "DISCONNECTED"
      BY <1>1, <1>2, <1>4, <1>16, <2>1, <3>2, SMTT(20) DEF RpSev, RpClientMoves
    <3>3. CASE k \notin 1 .. Len(sev)
      BY <1>2, <3>1, <3>3 DEF RpCalm
    <3>4. CASE k \in 1 .. Len(sev) /\ sev[k].event # "DISCONNECTED"
      <4>1. /\ sev[k].event = "ESTABLISHED" /\ sev[k].id < i
            /\ \E j \in 1 .. Len(list) :
                  list[j].id = sev[k].id /\ list[j].state = "CONNECT_REQ_PROC"
            /\ \A j \in 1 .. Len(sev) :
                  j # k /\ sev[j].event = "ESTABLISHED" => sev[j].id # sev[k].id
        BY <1>0, <1>1, <1>2, <3>4 DEF RpSev, RpCalm
      <4> QED
        BY <3>1, <3>4, <4>1
    <3> QED
      BY <3>1, <3>3, <3>4
  <2> QED
    BY <1>11, <1>15, <2>1
<1>18. RpCev'
  <2>1. CASE cev' = cev
    BY <1>2, <2>1 DEF RpCev
  <2>2. CASE Len(cev') = 1 /\ cev'[1].event = "ERROR" /\ cev'[1].id = i
    BY <1>4, <1>7, <1>8, <1>16, <2>2 DEF RpCev
  <2> QED
    BY <1>11, <2>1, <2>2
<1>19. \A id \in R!Ids : /\ cb'[id].cm_established = cb[id].cm_established
                         /\ cb'[id].test_done = cb[id].test_done
                         /\ cb'[id].sem_data = cb[id].sem_data
  BY <1>7, <1>8
<1>20. RpClient'
  <2>1. i # ClientQps + 1
    BY <1>0, <1>1 DEF RpClient
  <2>2. \A id \in R!Ids : cb'[id].sem = 0
    BY <1>0, <1>7, <1>8 DEF RpClient
  <2>3. \A id \in R!Ids : cb'[id].cm_established = TRUE \/ cb'[id].test_done = TRUE => id < i
    BY <1>0, <1>19 DEF RpClient
  <2> QED
    BY <1>1, <1>3, <1>4, <2>1, <2>2, <2>3 DEF RpClient
<1>21. RpRecv'
  <2>1. \A id \in R!Ids : cb'[id].cm_established = TRUE \/ cb'[id].test_done = TRUE =>
           id # i /\ crecv[id] = IF ccq = id THEN 0 ELSE 1
    BY <1>0, <1>3, <1>19 DEF RpClient, RpRecv
  <2>2. \A id \in R!Ids : id > i => id # i /\ crecv[id] = 0
    BY <1>0, <1>3 DEF RpRecv
  <2> QED
    BY <1>1, <1>4, <1>9, <2>1, <2>2 DEF RpRecv, RpClientMoves
<1>22. RpPings'
  <2>1. \A id \in R!Ids : id < cmain.i => id # i
    BY <1>0, <1>3
  <2> QED
    BY <1>1, <1>8, <1>10, <1>19, <2>1, RpPingsGoOn DEF RpClientMoves
<1> QED
  BY <1>12, <1>13, <1>15, <1>17, <1>18, <1>20, <1>21, <1>22

\* The client ends, and the server sees a disconnection of every QP.
LEMMA RpCmainEnds ==
    ASSUME RpOK, RpInv, R!CmainEnds
    PROVE  RpInv'
<1> USE DEF RpInv, RpConn
<1>0. /\ RpClientMoves /\ UNCHANGED <<cmain, ccm, cb, cev, rdma_buf, crecv>>
      /\ cmain.pc = "end" /\ calive' = FALSE
  BY DEF R!CmainEnds, R!ClientAt, R!threadVars, RpClientMoves
<1>1. PICK d \in R!Disconnections : sev' = sev \o d
  BY DEF R!CmainEnds
<1>2. PICK m : m = Cardinality(R!Standing)
  OBVIOUS
<1>3. R!Standing \subseteq R!Ids
  BY RpEntries DEF R!Standing
<1>4. m \in Nat
  <2>1. IsFiniteSet(R!Ids)
    BY FS_Interval DEF R!Ids, RpOK
  <2> QED
    BY <1>2, <1>3, <2>1, FS_Subset, FS_CardinalityType
<1>5. d \in [1 .. m -> [event : {"DISCONNECTED"}, id : R!Standing]]
  <2>1. R!Cardinality(R!Standing) = Cardinality(R!Standing)
    BY DEF Cardinality, R!Cardinality, IsFiniteSet, R!IsFiniteSet
  <2> QED
    BY <1>1, <1>2, <2>1 DEF R!Disconnections
<1>6. d \in Seq(RpEvent) /\ Len(d) = m /\ \A k \in 1 .. m : d[k].event = "DISCONNECTED"
  <2>1. \A k \in 1 .. m : d[k] \in RpEvent /\ d[k].event = "DISCONNECTED"
    BY <1>3, <1>5 DEF RpEvent
  <2>2. d \in [1 .. m -> RpEvent]
    BY <1>5, <2>1
  <2> QED
    BY <1>4, <2>1, <2>2
<1>7. PICK n : n = Len(sev)
  OBVIOUS
<1>8. n \in Nat /\ sev \in Seq(RpEvent)
  BY <1>7, RpEntries DEF RpTypes, RpServerTypes
<1>9. /\ sev' \in Seq(RpEvent) /\ Len(sev') = n + m
      /\ \A k \in 1 .. n + m : sev'[k] = IF k <= n THEN sev[k] ELSE d[k - n]
  BY <1>1, <1>6, <1>7, <1>8, ConcatProperties
<1>10. /\ \A k \in 1 .. n : sev'[k] = sev[k]
       /\ \A k \in 1 .. n + m : k \in 1 .. n \/ sev'[k].event = "DISCONNECTED"
  <2>1. \A k \in 1 .. n + m : k \notin 1 .. n => ~(k <= n) /\ k - n \in 1 .. m
    BY <1>4, <1>8
  <2>2. \A k \in 1 .. n : k \in 1 .. n + m /\ k <= n
    BY <1>4, <1>8
  <2> QED
    BY <1>6, <1>9, <2>1, <2>2
<1>11. RpCalm
  BY <1>0, RpNoCev
<1>12. RpTypes'
  BY <1>0, <1>9 DEF RpTypes, RpServerTypes, RpClientTypes, RpClientMoves
<1>13. RpLock' /\ RpList' /\ RpCev' /\ RpRecv'
  BY <1>0, RpKeep DEF RpClientMoves
<1>14. RpSev'
  <2> SUFFICES ASSUME NEW k \in 1 .. n + m
               PROVE  \/ /\ sev'[k].event = "ESTABLISHED"
                         /\ \/ sev'[k].id < cmain.i
                            \/ sev'[k].id = cmain.i /\ cb[cmain.i].state = "CONNECTED"
                         /\ \E j \in 1 .. Len(list) :
                               list[j].id = sev'[k].id /\ list[j].state = "CONNECT_REQ_PROC"
                         /\ \A j \in 1 .. n + m :
                               j # k /\ sev'[j].event = "ESTABLISHED" => sev'[j].id # sev'[k].id
                      \/ sev'[k].event = "DISCONNECTED"
    BY <1>0, <1>9 DEF RpSev, RpClientMoves
  <2>1. CASE k \in 1 .. n /\ sev[k].event # "DISCONNECTED"
    <3>1. /\ sev[k].event = "ESTABLISHED"
          /\ sev[k].id < cmain.i \/ (sev[k].id = cmain.i /\ cb[cmain.i].state = "CONNECTED")
          /\ \E j \in 1 .. Len(list) :
                list[j].id = sev[k].id /\ list[j].state = "CONNECT_REQ_PROC"
          /\ \A j \in 1 .. n :
                j # k /\ sev[j].event = "ESTABLISHED" => sev[j].id # sev[k].id
      BY <1>7, <1>11, <2>1 DEF RpSev, RpCalm
    <3> QED
      BY <1>10, <2>1, <3>1
  <2> QED
    BY <1>10, <2>1
<1>15. RpClient'
  BY <1>0 DEF RpClient
<1>16. RpPings'
  BY <1>0, RpKeep DEF RpClientMoves
<1> QED
  BY <1>12, <1>13, <1>14, <1>15, <1>16

\* cm_thread waits because a QP listens.
LEMMA RpCcmWaits ==
    ASSUME RpOK, RpInv, NEW i \in R!Ids, R!CcmWait(i)
    PROVE  RpInv'
<1> USE DEF RpInv, RpConn
<1>1. /\ RpClientMoves
      /\ UNCHANGED <<sev, calive, cb, cmain, cdata, cev, rdma_buf, crecv>>
      /\ ccm' = i
  BY DEF R!CcmWait, R!serverVars, R!threadVars, RpClientMoves
<1>2. ccm' \in 0 .. ClientQps
  BY <1>1 DEF R!Ids, RpOK
<1>3. RpTypes'
  BY <1>1, <1>2 DEF RpTypes, RpServerTypes, RpClientTypes, RpClientMoves
<1>4. RpLock' /\ RpList' /\ RpSev' /\ RpCev' /\ RpClient' /\ RpRecv' /\ RpPings'
  BY <1>1, RpKeep DEF RpClientMoves
<1> QED
  BY <1>3, <1>4

LEMMA RpCevTail ==
    ASSUME RpOK, RpInv, cev # << >>
    PROVE  Len(cev) = 1 /\ Head(cev) = cev[1] /\ Tail(cev) = << >>
<1> USE DEF RpInv, RpConn
<1>1. PICK n : n = Len(cev)
  OBVIOUS
<1>2. cev \in Seq(RpEvent)
  BY DEF RpTypes, RpClientTypes
<1>3. n \in Nat /\ n <= 1 /\ n # 0
  BY <1>1, <1>2 DEF RpCev
<1>4. n = 1
  BY <1>3
<1>5. Tail(cev) \in Seq(RpEvent) /\ Len(Tail(cev)) = Len(cev) - 1
  BY <1>2, HeadTailProperties
<1>6. Head(cev) = cev[1]
  BY <1>2
<1>7. PICK t : t = Tail(cev)
  OBVIOUS
<1>8. t \in Seq(RpEvent) /\ Len(t) = 0
  BY <1>1, <1>4, <1>5, <1>7
<1>9. t = << >>
  BY <1>8, EmptySeq
<1> QED
  BY <1>1, <1>4, <1>6, <1>7, <1>9

\* An event about the connection under way: what cm_thread may change.
RpCcmChanges ==
    /\ RpClientMoves /\ UNCHANGED <<calive, cmain, rdma_buf, crecv>>
    /\ ccm' = 0 /\ sev' \in Seq(RpEvent) /\ cev' \in Seq(RpEvent)
    /\ cb' \in [R!Ids -> RpCb] /\ cb'[cmain.i].sem <= 1
    /\ \A j \in R!Ids : /\ cb'[j].sem_data = cb[j].sem_data /\ cb'[j].test_done = cb[j].test_done
                        /\ cb'[j].cm_established = cb[j].cm_established
                        /\ j # cmain.i => cb'[j].state = cb[j].state /\ cb'[j].sem = cb[j].sem
    /\ cmain.pc = "connect" /\ cb[cmain.i].state = "CONNECTED" => cb'[cmain.i].state = "CONNECTED"

LEMMA RpCcmMoves ==
    ASSUME RpOK, RpInv, Len(cev) = 1, cmain.pc \in {"bind", "connect"}, RpCcmChanges
    PROVE  /\ RpTypes' /\ RpLock' /\ RpList' /\ RpClient' /\ RpRecv' /\ RpPings'
           /\ sev' = sev => RpSev'
<1> USE DEF RpInv, RpConn, RpCcmChanges
<1>1. RpTypes'
  BY DEF RpTypes, RpServerTypes, RpClientTypes, RpClientMoves, RpOK
<1>2. RpLock'
  BY RpKeep DEF RpClientMoves
<1>3. cmain.i \in R!Ids /\ calive = TRUE /\ cmain.i \in Nat
  BY RpCmainAt
<1>4. RpMoves
  BY DEF RpMoves, RpClientMoves
<1>5. RpCalm
  BY RpIsCalm
<1>6. RpList' /\ (sev' = sev => RpSev')
  BY <1>4, <1>5, RpCalmStep
<1>7. RpClient'
  <2>1. \A id \in R!Ids : cb'[id].cm_established = TRUE \/ cb'[id].test_done = TRUE => id < cmain.i
    BY DEF RpClient
  <2>2. \A id \in R!Ids : id # cmain.i => cb'[id].sem = 0
    BY DEF RpClient
  <2> QED
    BY <1>3, <2>1, <2>2 DEF RpClient
<1>8. RpRecv'
  BY DEF RpRecv, RpClientMoves
<1>9. RpPings'
  <2>1. \A id \in R!Ids : id < cmain.i => id # cmain.i
    BY <1>3
  <2> QED
    BY <2>1, RpPingsGoOn DEF RpClientMoves
<1> QED
  BY <1>1, <1>2, <1>6, <1>7, <1>8, <1>9

\* The address or the route of the QP that main sets up is resolved.
LEMMA RpCcmResolves ==
    ASSUME RpOK, RpInv, R!CcmEvent, cev[1].event \in {"ADDR_RESOLVED", "ROUTE_RESOLVED"}
    PROVE  RpInv'
<1> USE DEF RpInv, RpConn
<1>0. PICK i : i = cmain.i
  OBVIOUS
<1>1. Len(cev) = 1 /\ Head(cev) = cev[1] /\ Tail(cev) = << >>
  BY RpCevTail DEF R!CcmEvent
<1>2. cev[1].id = i /\ cb[i].sem = 0 /\ cmain.pc = "bind"
  BY <1>0, <1>1 DEF RpCev
<1>3. i \in R!Ids /\ cb[i] \in RpCb /\ cb \in [R!Ids -> RpCb] /\ i \in Nat
  BY <1>0, <1>2, RpCmainAt, RpEntries DEF RpTypes, RpClientTypes
<1>4. /\ RpClientMoves /\ UNCHANGED <<calive, cmain, rdma_buf, crecv, sev>> /\ ccm' = 0
      /\ \/ /\ cb' = [cb EXCEPT ![i].state = "ADDR_RESOLVED"]
            /\ cev' = Append(<< >>, R!Event("ROUTE_RESOLVED", i))
         \/ /\ cb' = [cb EXCEPT ![i].state = "ROUTE_RESOLVED", ![i].sem = @ + 1]
            /\ cev' = << >>
  <2>1. CASE cev[1].event = "ADDR_RESOLVED"
    BY <1>1, <1>2, <2>1 DEF R!CcmEvent, R!threadVars, RpClientMoves
  <2>2. CASE cev[1].event = "ROUTE_RESOLVED"
    BY <1>1, <1>2, <2>2 DEF R!CcmEvent, R!threadVars, RpClientMoves
  <2> QED
    BY <2>1, <2>2
<1>5. PICK r : /\ r \in RpCb /\ r.sem_data = cb[i].sem_data /\ r.test_done = cb[i].test_done
               /\ r.cm_established = cb[i].cm_established /\ cb' = [cb EXCEPT ![i] = r]
               /\ \/ /\ r.sem = 0 /\ cev' \in Seq(RpEvent) /\ Len(cev') = 1
                     /\ cev'[1].event = "ROUTE_RESOLVED" /\ cev'[1].id = i
                  \/ r.sem = 1 /\ cev' = << >>
  <2>1. CASE /\ cb' = [cb EXCEPT ![i].state = "ADDR_RESOLVED"]
             /\ cev' = Append(<< >>, R!Event("ROUTE_RESOLVED", i))
    <3>1. PICK r : r = [cb[i] EXCEPT !.state = "ADDR_RESOLVED"]
      OBVIOUS
    <3>2. /\ r \in RpCb /\ r.sem_data = cb[i].sem_data /\ r.test_done = cb[i].test_done
          /\ r.cm_established = cb[i].cm_established /\ r.sem = 0
      BY <1>2, <1>3, <3>1 DEF RpCb
    <3>3. cb' = [cb EXCEPT ![i] = r]
      BY <2>1, <3>1
    <3>4. cev' \in Seq(RpEvent) /\ Len(cev') = 1 /\ cev'[1].event = "ROUTE_RESOLVED"
          /\ cev'[1].id = i
      BY <1>3, <2>1, RpOneEvent
    <3> QED
      BY <3>2, <3>3, <3>4
  <2>2. CASE /\ cb' = [cb EXCEPT ![i].state = "ROUTE_RESOLVED", ![i].sem = @ + 1]
             /\ cev' = << >>
    <3>1. PICK r : r = [cb[i] EXCEPT !.state = "ROUTE_RESOLVED", !.sem = cb[i].sem + 1]
      OBVIOUS
    <3>2. cb' = [cb EXCEPT ![i] = r]
      BY <1>3, <2>2, <3>1 DEF RpCb
    <3>3. r = [cb[i] EXCEPT !.state = "ROUTE_RESOLVED", !.sem = 1]
      BY <1>2, <3>1
    <3>4. /\ r \in RpCb /\ r.sem_data = cb[i].sem_data /\ r.test_done = cb[i].test_done
          /\ r.cm_established = cb[i].cm_established /\ r.sem = 1
      BY <1>3, <3>3 DEF RpCb
    <3> QED
      BY <2>2, <3>2, <3>4
  <2> QED
    BY <1>4, <2>1, <2>2
<1>6. cb' \in [R!Ids -> RpCb] /\ cb'[i] = r /\ \A j \in R!Ids : j # i => cb'[j] = cb[j]
  BY <1>3, <1>5, RpCbOne
<1>7. cev' \in Seq(RpEvent) /\ sev \in Seq(RpEvent)
  <2>1. << >> \in Seq(RpEvent)
    OBVIOUS
  <2> QED
    BY <1>5, <2>1 DEF RpTypes, RpServerTypes
<1>8. RpCcmChanges
  <2>1. cb'[i].sem <= 1
    BY <1>5, <1>6
  <2> QED
    BY <1>0, <1>2, <1>4, <1>5, <1>6, <1>7, <2>1 DEF RpCcmChanges
<1>9. /\ RpTypes' /\ RpLock' /\ RpList' /\ RpClient' /\ RpRecv' /\ RpPings' /\ RpSev'
  BY <1>1, <1>2, <1>4, <1>8, RpCcmMoves
<1>10. RpCev'
  <2>1. CASE cev' = << >>
    <3>1. Len(cev') = 0
      BY <2>1
    <3> QED
      BY <3>1 DEF RpCev
  <2>2. CASE r.sem = 0 /\ Len(cev') = 1 /\ cev'[1].event = "ROUTE_RESOLVED" /\ cev'[1].id = i
    BY <1>0, <1>2, <1>4, <1>6, <2>2 DEF RpCev
  <2> QED
    BY <1>5, <2>1, <2>2
<1> QED
  BY <1>9, <1>10

\* The connection is established, and the server hears of it.
LEMMA RpCcmEstablished ==
    ASSUME RpOK, RpInv, R!CcmEvent, cev[1].event = "ESTABLISHED"
    PROVE  RpInv'
<1> USE DEF RpInv, RpConn
<1>0. PICK i : i = cmain.i
  OBVIOUS
<1>1. Len(cev) = 1 /\ Head(cev) = cev[1] /\ Tail(cev) = << >>
  BY RpCevTail DEF R!CcmEvent
<1>2. /\ cev[1].id = i /\ cb[i].sem = 0 /\ cmain.pc = "connect" /\ cb[i].state = "ROUTE_RESOLVED"
      /\ \E j \in 1 .. Len(list) : list[j].id = i /\ list[j].state = "CONNECT_REQ_PROC"
  BY <1>0, <1>1 DEF RpCev, RpOpen
<1>3. i \in R!Ids /\ cb[i] \in RpCb /\ cb \in [R!Ids -> RpCb] /\ i \in Nat
  BY <1>0, <1>2, RpCmainAt, RpEntries DEF RpTypes, RpClientTypes
<1>4. /\ RpClientMoves /\ UNCHANGED <<calive, cmain, rdma_buf, crecv>> /\ ccm' = 0
      /\ cb' = [cb EXCEPT ![i].state = "CONNECTED", ![i].cm_chnl_en = FALSE, ![i].sem = @ + 1]
      /\ cev' = << >> /\ sev' = Append(sev, R!Event("ESTABLISHED", i))
  BY <1>1, <1>2 DEF R!CcmEvent, R!threadVars, RpClientMoves
<1>5. PICK r : r = [cb[i] EXCEPT !.state = "CONNECTED", !.cm_chnl_en = FALSE, !.sem = cb[i].sem + 1]
  OBVIOUS
<1>6. /\ r \in RpCb /\ r.sem_data = cb[i].sem_data /\ r.test_done = cb[i].test_done
      /\ r.cm_established = cb[i].cm_established /\ r.sem = 1 /\ r.state = "CONNECTED"
  <2>1. r = [cb[i] EXCEPT !.state = "CONNECTED", !.cm_chnl_en = FALSE, !.sem = 1]
    BY <1>2, <1>5
  <2> QED
    BY <1>3, <2>1 DEF RpCb
<1>7. cb' \in [R!Ids -> RpCb] /\ cb'[i] = r /\ \A j \in R!Ids : j # i => cb'[j] = cb[j]
  <2>1. cb' = [cb EXCEPT ![i] = r]
    BY <1>3, <1>4, <1>5 DEF RpCb
  <2> QED
    BY <1>3, <1>6, <2>1, RpCbOne
<1>8. /\ sev' \in Seq(RpEvent)
      /\ \A k \in 1 .. Len(sev) : k \in 1 .. Len(sev') /\ sev'[k] = sev[k]
      /\ \A k \in 1 .. Len(sev') : k \notin 1 .. Len(sev) =>
            k = Len(sev') /\ sev'[k].event = "ESTABLISHED" /\ sev'[k].id = i
  BY <1>3, <1>4, RpSevMore
<1>9. cev' \in Seq(RpEvent)
  BY <1>4
<1>10. RpCcmChanges
  <2>1. cb'[i].sem <= 1 /\ cb'[i].state = "CONNECTED"
    BY <1>6, <1>7
  <2>2. \A j \in R!Ids : /\ cb'[j].sem_data = cb[j].sem_data /\ cb'[j].test_done = cb[j].test_done
                         /\ cb'[j].cm_established = cb[j].cm_established
                         /\ j # i => cb'[j].state = cb[j].state /\ cb'[j].sem = cb[j].sem
    BY <1>6, <1>7
  <2> QED
    BY <1>0, <1>4, <1>7, <1>8, <1>9, <2>1, <2>2 DEF RpCcmChanges
<1>11. /\ RpTypes' /\ RpLock' /\ RpList' /\ RpClient' /\ RpRecv' /\ RpPings'
  BY <1>1, <1>2, <1>10, RpCcmMoves
<1>12. RpCev'
  <2>1. Len(cev') = 0
    BY <1>4
  <2> QED
    BY <2>1 DEF RpCev
<1>13. RpSev'
  <2>1. RpCalm
    BY <1>1, RpIsCalm
  <2>2. \A k \in 1 .. Len(sev) : sev[k].event # "DISCONNECTED" =>
           /\ sev[k].event = "ESTABLISHED" /\ sev[k].id < i /\ sev[k].id # i
           /\ \E j \in 1 .. Len(list) :
                 list[j].id = sev[k].id /\ list[j].state = "CONNECT_REQ_PROC"
           /\ \A j \in 1 .. Len(sev) :
                 j # k /\ sev[j].event = "ESTABLISHED" => sev[j].id # sev[k].id
    <3>1. \A k \in 1 .. Len(sev) : sev[k].id < i => sev[k].id # i
      BY <1>3, RpEntries
    <3> QED
      BY <1>0, <1>2, <2>1, <3>1 DEF RpSev, RpCalm
  <2> SUFFICES ASSUME NEW k \in 1 .. Len(sev'), sev'[k].event # "DISCONNECTED"
               PROVE  /\ sev'[k].event = "ESTABLISHED" /\ (sev'[k].id < i \/ sev'[k].id = i)
                      /\ \E j \in 1 .. Len(list) :
                            list[j].id = sev'[k].id /\ list[j].state = "CONNECT_REQ_PROC"
                      /\ \A j \in 1 .. Len(sev') :
                            j # k /\ sev'[j].event = "ESTABLISHED" => sev'[j].id # sev'[k].id
    BY <1>0, <1>4, <1>6, <1>7 DEF RpSev, RpClientMoves
  <2>3. CASE k \in 1 .. Len(sev)
    BY <1>8, <2>2, <2>3, SMTT(20)
  <2>4. CASE k \notin 1 .. Len(sev)
    <3>1. sev'[k].event = "ESTABLISHED" /\ sev'[k].id = i /\ k = Len(sev')
      BY <1>8, <2>4
    <3>2. \A j \in 1 .. Len(sev') : j # k => j \in 1 .. Len(sev)
      BY <1>8, <3>1
    <3>3. \A j \in 1 .. Len(sev) : sev[j].event = "ESTABLISHED" => sev[j].id # i
      BY <2>2
    <3> QED
      BY <1>2, <1>8, <3>1, <3>2, <3>3
  <2> QED
    BY <2>3, <2>4
<1> QED
  BY <1>11, <1>12, <1>13

\* An error: the QP it is about is woken, the one the thread waited for marked.
LEMMA RpCcmFails ==
    ASSUME RpOK, RpInv, R!CcmEvent, cev[1].event = "ERROR"
    PROVE  RpInv'
<1> USE DEF RpInv, RpConn
<1>0. PICK i : i = cmain.i
  OBVIOUS
<1>1. Len(cev) = 1 /\ Head(cev) = cev[1] /\ Tail(cev) = << >>
  BY RpCevTail DEF R!CcmEvent
<1>2. cev[1].id = i /\ cb[i].sem = 0 /\ cmain.pc \in {"bind", "connect"}
  BY <1>0, <1>1 DEF RpCev, RpOpen
<1>3. i \in R!Ids /\ cb[i] \in RpCb /\ cb \in [R!Ids -> RpCb] /\ i \in Nat
  BY <1>0, <1>2, RpCmainAt, RpEntries DEF RpTypes, RpClientTypes
<1>4. /\ RpClientMoves /\ UNCHANGED <<calive, cmain, rdma_buf, crecv, sev>> /\ ccm' = 0 /\ ccm # 0
      /\ cb' = [[cb EXCEPT ![i].sem = @ + 1] EXCEPT ![ccm].cm_fail = TRUE]
      /\ cev' = << >>
  BY <1>1, <1>2 DEF R!CcmEvent, R!threadVars, RpClientMoves
<1>5. ccm \in R!Ids
  BY <1>4 DEF RpTypes, RpClientTypes, R!Ids, RpOK
<1>6. PICK r : r = [cb[i] EXCEPT !.sem = cb[i].sem + 1]
  OBVIOUS
<1>7. /\ r \in RpCb /\ r.sem_data = cb[i].sem_data /\ r.test_done = cb[i].test_done
      /\ r.cm_established = cb[i].cm_established /\ r.sem = 1 /\ r.state = cb[i].state
  <2>1. r = [cb[i] EXCEPT !.sem = 1]
    BY <1>2, <1>6
  <2> QED
    BY <1>3, <2>1 DEF RpCb
<1>8. PICK c : c = [cb EXCEPT ![i] = r]
  OBVIOUS
<1>9. c \in [R!Ids -> RpCb] /\ c[i] = r /\ \A j \in R!Ids : j # i => c[j] = cb[j]
  BY <1>3, <1>7, <1>8
<1>10. cb' = [c EXCEPT ![ccm].cm_fail = TRUE]
  <2>1. c = [cb EXCEPT ![i].sem = @ + 1]
    BY <1>6, <1>8
  <2> QED
    BY <1>4, <2>1
<1>11. PICK q : q = [c[ccm] EXCEPT !.cm_fail = TRUE]
  OBVIOUS
<1>12. /\ q \in RpCb /\ q.sem_data = c[ccm].sem_data /\ q.test_done = c[ccm].test_done
       /\ q.cm_established = c[ccm].cm_established /\ q.sem = c[ccm].sem /\ q.state = c[ccm].state
  <2>1. c[ccm] \in RpCb
    BY <1>5, <1>9
  <2> QED
    BY <1>11, <2>1 DEF RpCb
<1>13. cb' \in [R!Ids -> RpCb] /\ \A j \in R!Ids : cb'[j] = IF j = ccm THEN q ELSE c[j]
  <2>1. cb' = [c EXCEPT ![ccm] = q]
    BY <1>10, <1>11
  <2> QED
    BY <1>5, <1>9, <1>12, <2>1
<1>14. cb'[i].sem = 1 /\ cb'[i].state = cb[i].state
  BY <1>3, <1>7, <1>9, <1>12, <1>13
<1>15. \A j \in R!Ids : /\ cb'[j].sem_data = cb[j].sem_data /\ cb'[j].test_done = cb[j].test_done
                        /\ cb'[j].cm_established = cb[j].cm_established
                        /\ j # i => cb'[j].state = cb[j].state /\ cb'[j].sem = cb[j].sem
  BY <1>7, <1>9, <1>12, <1>13
<1>16. cev' \in Seq(RpEvent) /\ sev \in Seq(RpEvent) /\ Len(cev') = 0
  BY <1>4, SMTT(20) DEF RpTypes, RpServerTypes
<1>17. RpCcmChanges
  BY <1>0, <1>4, <1>13, <1>14, <1>15, <1>16, SMTT(20) DEF RpCcmChanges
<1>18. /\ RpTypes' /\ RpLock' /\ RpList' /\ RpClient' /\ RpRecv' /\ RpPings' /\ RpSev'
  BY <1>1, <1>2, <1>4, <1>17, RpCcmMoves
<1>19. RpCev'
  BY <1>16 DEF RpCev
<1> QED
  BY <1>18, <1>19
-----------------------------------------------------------------------------
(* Every step of the two programs. *)

LEMMA RpStep ==
    ASSUME RpOK, RpInv, [R!Next]_(R!vars)
    PROVE  RpInv'
<1>1. CASE UNCHANGED R!vars
  <2> USE DEF R!vars, R!serverVars, R!clientVars, R!threadVars
  <2>1. RpTypes'
    BY <1>1 DEF RpInv, RpTypes, RpServerTypes, RpClientTypes
  <2>2. RpConn' /\ RpRecv' /\ RpPings'
    BY <1>1, RpKeep DEF RpConn
  <2> QED
    BY <2>1, <2>2 DEF RpInv
<1>2. CASE R!ScmListEvent
  <2>1. sev # << >> /\ Head(sev).event \in {"CONNECT_REQUEST", "ESTABLISHED"}
    BY <1>2 DEF R!ScmListEvent
  <2>2. Head(sev) = sev[1]
    BY <2>1 DEF RpInv, RpTypes, RpServerTypes
  <2> QED
    BY <1>2, <2>1, <2>2, RpScmRequest, RpScmEstablished
<1>3. CASE R!ScmDisconnected
  BY <1>3, RpScmDisconnects
<1>4. CASE R!SdataLock \/ R!SdataUnlock
  BY <1>4, RpSdataLocks
<1>5. CASE R!SdataVisit
  BY <1>5, RpSdataAccepts, RpSdataReady, RpSdataOther
<1>6. CASE R!ServerMain
  BY <1>6, RpMainWalks, RpPingKeyed, RpPingHasRead, RpPingHasWritten, RpPingIsDone,
     RpPingFailed DEF R!ServerMain, R!MainStep
<1>7. CASE R!ClientMain
  BY <1>7, RpCmainCreates, RpCmainConnects, RpCmainNext, RpCmainEnds DEF R!ClientMain
<1>8. CASE R!ClientCm
  <2>1. CASE R!CcmEvent
    <3>1. /\ cev # << >>
          /\ Head(cev).event \in {"ADDR_RESOLVED", "ROUTE_RESOLVED", "ESTABLISHED", "ERROR"}
      <4>1. cev # << >>
        BY <2>1 DEF R!CcmEvent
      <4>2. Len(cev) = 1 /\ Head(cev) = cev[1]
        BY <4>1, RpCevTail
      <4> QED
        BY <4>1, <4>2, SMTT(20) DEF RpInv, RpConn, RpCev
    <3>2. Head(cev) = cev[1]
      BY <3>1, RpCevTail
    <3> QED
      BY <2>1, <3>1, <3>2, RpCcmResolves, RpCcmEstablished, RpCcmFails
  <2> QED
    BY <1>8, <2>1, RpCcmWaits DEF R!ClientCm
<1>9. CASE R!ClientCq
  BY <1>9, RpCqReceives, RpCqPosts DEF R!ClientCq
<1>10. CASE R!ClientData
  BY <1>10, RpCdataLooks, RpPingSends, RpPingWipes, RpPingCompares DEF R!ClientData
<1> QED
  BY <1>1, <1>2, <1>3, <1>4, <1>5, <1>6, <1>7, <1>8, <1>9, <1>10 DEF R!Next

LEMMA RpSteps ==
    ASSUME [ConsumerNext]_consumerVars, program' = "rping"
    PROVE  program = "rping" /\ [R!Next]_(R!vars)
BY DEF ConsumerNext, AsKperf, AsHwHs, AsRping, consumerVars, testVars, pingVars,
       R!vars, R!serverVars, R!clientVars, R!threadVars

LEMMA RpNeverFails ==
    ASSUME RpOK, RpInv
    PROVE  R!NoPingFails /\ R!ClientReceiveReady
<1> USE DEF RpInv, RpPings
<1>1. cdata.i \in R!Ids /\ cb[cdata.i].sem_data \in Nat /\ crecv \in [R!Ids -> Nat]
  BY RpEntries DEF RpTypes, RpClientTypes
<1>2. R!NoPingFails
  <2> SUFFICES ASSUME R!PingWrong
               PROVE  FALSE
    BY DEF R!NoPingFails
  <2>1. ~RpSent /\ ~RpTaken /\ ~RpAnswered /\ ~RpComplete
    <3>1. cb[cdata.i].sem_data # 0
      BY <1>1 DEF R!PingWrong
    <3> QED
      BY <3>1 DEF RpSent, RpTaken, RpAnswered, RpComplete
  <2> QED
    BY <2>1 DEF R!PingWrong, R!PingAt, R!PingRight, RpAdv, RpDone
<1>3. R!ClientReceiveReady
  <2> SUFFICES ASSUME NEW id \in R!Ids
               PROVE  s2c[id] <= crecv[id]
    BY DEF R!ClientReceiveReady
  <2>1. crecv[id] \in Nat /\ id # 0
    BY <1>1, RpEntries
  <2>2. CASE s2c[id] = 0
    BY <2>1, <2>2
  <2>3. CASE s2c[id] # 0
    <3>1. cdata.pc # "look" /\ cdata.i = id
      BY <2>3 DEF RpRests
    <3>2. ~RpSent /\ ~RpTaken /\ ~RpComplete /\ ~RpWoken
      BY <2>3, <3>1 DEF RpSent, RpTaken, RpComplete, RpWoken
    <3>3. RpAnswered
      <4>1. cdata.pc \in {"ping", "adv", "complete"}
        BY <3>1 DEF RpTypes, RpClientTypes, RpCdata
      <4> QED
        BY <3>2, <4>1 DEF RpPing, RpAdv, RpDone
    <3>4. crecv[id] = 1
      BY <2>1, <3>1, <3>3 DEF RpAnswered, RpPinged, RpRecv
    <3> QED
      BY <3>1, <3>3, <3>4 DEF RpAnswered
  <2> QED
    BY <2>2, <2>3
<1> QED
  BY <1>2, <1>3

\* No ping fails, and every message of the server finds a receive posted by the
\* client, for any number of QPs and of pings and however many connection attempts
\* and polls of the server fail (test_server_rping, rping_test_client, rping_cq_event_handler).
THEOREM ConsumerPingsRight ==
    ASSUME RpOK
    PROVE  ConsumerSpec => []PingsRight
<1> DEFINE Inv == program = "rping" => RpInv
<1>1. ConsumerInit => Inv
  BY RpInit DEF ConsumerInit
<1>2. Inv /\ [ConsumerNext]_consumerVars => Inv'
  BY RpSteps, RpStep
<1>3. Inv => PingsRight
  BY RpNeverFails DEF PingsRight
<1> QED
  BY <1>1, <1>2, <1>3, PTL DEF ConsumerSpec
-----------------------------------------------------------------------------
(* The three send queues are those of XibSendQueueProofs, for any budget of *)
(* the poll.                                                                *)

RP == INSTANCE XibSendQueueProofs WITH
        sq_max_wr <- 4, SendCredit <- 3, MaxSend <- 5, MaxChain <- 2,
        Opcodes <- {"IB_WR_SEND"}, QpStates <- {"RTS"},
        ConcurrentPost <- TRUE, SqMemIsPs <- TRUE, Failures <- {}
FP == INSTANCE XibSendQueueProofs WITH
        sq_max_wr <- 2, SendCredit <- 1, MaxSend <- 4, MaxChain <- 1,
        Opcodes <- {"IB_WR_SEND", "IB_WR_RDMA_READ"}, QpStates <- {"RTS"},
        ConcurrentPost <- TRUE, SqMemIsPs <- TRUE, Failures <- {"ENOMEM", "EINVAL"}
DP == INSTANCE XibSendQueueProofs WITH
        sq_max_wr <- 2, SendCredit <- 1, MaxSend <- 4, MaxChain <- 3,
        Opcodes <- {"IB_WR_SEND"}, QpStates <- {"RTS", "SQD", "ERR"},
        ConcurrentPost <- FALSE, SqMemIsPs <- TRUE, Failures <- {"ENOMEM"}

\* The constants of the three queues are as the theorems ask: each leaves an
\* entry free and keeps the send queue in processor memory.
LEMMA QueuesOK ==
    ASSUME MaxEntries \in Nat \ {0}
    PROVE  /\ RP!ConstantsOK /\ RP!Credit /\ RP!FreesOnlyStaged
           /\ FP!ConstantsOK /\ FP!Credit /\ FP!FreesOnlyStaged
           /\ DP!ConstantsOK /\ DP!Credit
<1>1. RP!ConstantsOK /\ RP!Credit /\ RP!FreesOnlyStaged
  BY DEF RP!ConstantsOK, RP!Credit, RP!FreesOnlyStaged, RP!IbOpcodes
<1>2. FP!ConstantsOK /\ FP!Credit /\ FP!FreesOnlyStaged
  BY DEF FP!ConstantsOK, FP!Credit, FP!FreesOnlyStaged, FP!IbOpcodes
<1>3. DP!ConstantsOK /\ DP!Credit
  BY DEF DP!ConstantsOK, DP!Credit, DP!IbOpcodes
<1> QED
  BY <1>1, <1>2, <1>3
\* The queue "ring" is that of the proofs.
LEMMA RingSame ==
    /\ QR!Init <=> RP!Init
    /\ QR!Next <=> RP!Next
    /\ QR!TypeOK <=> RP!TypeOK
    /\ QR!ExecutedInOrder <=> RP!ExecutedInOrder
    /\ QR!SendInOrder <=> RP!SendInOrder
    /\ QR!ReapBehindHardware <=> RP!ReapBehindHardware
    /\ QR!InFlightBuffersLive <=> RP!InFlightBuffersLive
    /\ QR!NoBadFree <=> RP!NoBadFree
<1>1. QR!Init <=> RP!Init
  BY DEF QR!Init, RP!Init, QR!Slots, RP!Slots, QR!NoBuf, RP!NoBuf, QR!NoReq, RP!NoReq, QR!IdlePost,
         RP!IdlePost, QR!IdlePoll, RP!IdlePoll
<1>2. QR!Next <=> RP!Next
  BY DEF QR!Next, RP!Next, QR!PostStep, RP!PostStep, QR!PollStep, RP!PollStep,
         QR!ib_modify_qp_is_ok,
         RP!ib_modify_qp_is_ok, QR!xrnic_qp_modify, RP!xrnic_qp_modify, QR!PostBegin,
         RP!PostBegin, QR!PostWr, RP!PostWr, QR!PostFailed, RP!PostFailed, QR!PostWrFails,
         RP!PostWrFails, QR!Doorbell, RP!Doorbell, QR!xrnic_send_wr, RP!xrnic_send_wr,
         QR!SqdRoom, RP!SqdRoom, QR!LinkSqd, RP!LinkSqd, QR!PostSqd, RP!PostSqd,
         QR!PostSqdFails, RP!PostSqdFails, QR!HwComplete, RP!HwComplete, QR!cur_send_cq_head,
         RP!cur_send_cq_head, QR!PollBegin, RP!PollBegin, QR!FreesBuffer, RP!FreesBuffer,
         QR!ReportsWc, RP!ReportsWc, QR!Reap, RP!Reap, QR!ReapDone, RP!ReapDone,
         QR!FlushedLength, RP!FlushedLength, QR!Flush, RP!Flush, QR!FlushDone, RP!FlushDone,
         QR!ringVars, RP!ringVars, QR!hwVars, RP!hwVars, QR!sqdVars, RP!sqdVars, QR!reapVars,
         RP!reapVars, QR!Slots, RP!Slots, QR!NoBuf, RP!NoBuf, QR!XRNIC_RDMA_WRITE,
         RP!XRNIC_RDMA_WRITE, QR!XRNIC_SEND_ONLY, RP!XRNIC_SEND_ONLY, QR!XRNIC_RDMA_READ,
         RP!XRNIC_RDMA_READ, QR!XRNIC_INVALID_OPC, RP!XRNIC_INVALID_OPC, QR!xib_wr_code,
         RP!xib_wr_code, QR!WqeOpcode, RP!WqeOpcode, QR!RingPtr, RP!RingPtr, QR!WrapLocal,
         RP!WrapLocal, QR!NoReq, RP!NoReq, QR!IdlePost, RP!IdlePost, QR!IdlePoll, RP!IdlePoll
<1> QED
  BY <1>1, <1>2 DEF QR!TypeOK, RP!TypeOK, QR!Request, RP!Request, QR!Slots, RP!Slots,
         QR!ExecutedInOrder,
         RP!ExecutedInOrder, QR!SendInOrder, RP!SendInOrder,
         QR!ReapBehindHardware,
         RP!ReapBehindHardware, QR!InFlightBuffersLive, RP!InFlightBuffersLive, QR!NoBadFree,
         RP!NoBadFree, QR!XRNIC_SEND_ONLY, RP!XRNIC_SEND_ONLY

\* Its steps are the steps of a behaviour of it.
LEMMA RingSteps ==
    ASSUME [Next]_vars
    PROVE  /\ part = "ring" => part' = "ring" /\ [RP!Next]_(RP!vars)
           /\ part # "ring" => part' # "ring"
<1>1. CASE Next
  BY <1>1, RingSame DEF Next
<1>2. CASE UNCHANGED vars
  BY <1>2 DEF vars, RP!vars, RP!ringVars, RP!hwVars, RP!sqdVars, RP!reapVars
<1> QED
  BY <1>1, <1>2

\* The queue "failures" is that of the proofs.
LEMMA FailuresSame ==
    /\ QF!Init <=> FP!Init
    /\ QF!Next <=> FP!Next
    /\ QF!ExecutedInOrder <=> FP!ExecutedInOrder
    /\ QF!SendInOrder <=> FP!SendInOrder
    /\ QF!ReapBehindHardware <=> FP!ReapBehindHardware
    /\ QF!InFlightBuffersLive <=> FP!InFlightBuffersLive
    /\ QF!NoBadFree <=> FP!NoBadFree
<1>1. QF!Init <=> FP!Init
  BY DEF QF!Init, FP!Init, QF!Slots, FP!Slots, QF!NoBuf, FP!NoBuf, QF!NoReq, FP!NoReq, QF!IdlePost,
         FP!IdlePost, QF!IdlePoll, FP!IdlePoll
<1>2. QF!Next <=> FP!Next
  BY DEF QF!Next, FP!Next, QF!PostStep, FP!PostStep, QF!PollStep, FP!PollStep,
         QF!ib_modify_qp_is_ok,
         FP!ib_modify_qp_is_ok, QF!xrnic_qp_modify, FP!xrnic_qp_modify, QF!PostBegin,
         FP!PostBegin, QF!PostWr, FP!PostWr, QF!PostFailed, FP!PostFailed, QF!PostWrFails,
         FP!PostWrFails, QF!Doorbell, FP!Doorbell, QF!xrnic_send_wr, FP!xrnic_send_wr,
         QF!SqdRoom, FP!SqdRoom, QF!LinkSqd, FP!LinkSqd, QF!PostSqd, FP!PostSqd,
         QF!PostSqdFails, FP!PostSqdFails, QF!HwComplete, FP!HwComplete, QF!cur_send_cq_head,
         FP!cur_send_cq_head, QF!PollBegin, FP!PollBegin, QF!FreesBuffer, FP!FreesBuffer,
         QF!ReportsWc, FP!ReportsWc, QF!Reap, FP!Reap, QF!ReapDone, FP!ReapDone,
         QF!FlushedLength, FP!FlushedLength, QF!Flush, FP!Flush, QF!FlushDone, FP!FlushDone,
         QF!ringVars, FP!ringVars, QF!hwVars, FP!hwVars, QF!sqdVars, FP!sqdVars, QF!reapVars,
         FP!reapVars, QF!Slots, FP!Slots, QF!NoBuf, FP!NoBuf, QF!XRNIC_RDMA_WRITE,
         FP!XRNIC_RDMA_WRITE, QF!XRNIC_SEND_ONLY, FP!XRNIC_SEND_ONLY, QF!XRNIC_RDMA_READ,
         FP!XRNIC_RDMA_READ, QF!XRNIC_INVALID_OPC, FP!XRNIC_INVALID_OPC, QF!xib_wr_code,
         FP!xib_wr_code, QF!WqeOpcode, FP!WqeOpcode, QF!RingPtr, FP!RingPtr, QF!WrapLocal,
         FP!WrapLocal, QF!NoReq, FP!NoReq, QF!IdlePost, FP!IdlePost, QF!IdlePoll, FP!IdlePoll
<1> QED
  BY <1>1, <1>2 DEF QF!ExecutedInOrder, FP!ExecutedInOrder, QF!SendInOrder, FP!SendInOrder,
         QF!ReapBehindHardware,
         FP!ReapBehindHardware, QF!InFlightBuffersLive, FP!InFlightBuffersLive, QF!NoBadFree,
         FP!NoBadFree, QF!XRNIC_SEND_ONLY, FP!XRNIC_SEND_ONLY

\* Its steps are the steps of a behaviour of it.
LEMMA FailuresSteps ==
    ASSUME [Next]_vars
    PROVE  /\ part = "failures" => part' = "failures" /\ [FP!Next]_(FP!vars)
           /\ part # "failures" => part' # "failures"
<1>1. CASE Next
  BY <1>1, FailuresSame DEF Next
<1>2. CASE UNCHANGED vars
  BY <1>2 DEF vars, FP!vars, FP!ringVars, FP!hwVars, FP!sqdVars, FP!reapVars
<1> QED
  BY <1>1, <1>2

\* The queue "sqd" is that of the proofs.
LEMMA SqdSame ==
    /\ QD!Init <=> DP!Init
    /\ QD!Next <=> DP!Next
    /\ QD!SqdFlushInOrder <=> DP!SqdFlushInOrder
<1>1. QD!Init <=> DP!Init
  BY DEF QD!Init, DP!Init, QD!Slots, DP!Slots, QD!NoBuf, DP!NoBuf, QD!NoReq, DP!NoReq, QD!IdlePost,
         DP!IdlePost, QD!IdlePoll, DP!IdlePoll
<1>2. QD!Next <=> DP!Next
  BY DEF QD!Next, DP!Next, QD!PostStep, DP!PostStep, QD!PollStep, DP!PollStep,
         QD!ib_modify_qp_is_ok,
         DP!ib_modify_qp_is_ok, QD!xrnic_qp_modify, DP!xrnic_qp_modify, QD!PostBegin,
         DP!PostBegin, QD!PostWr, DP!PostWr, QD!PostFailed, DP!PostFailed, QD!PostWrFails,
         DP!PostWrFails, QD!Doorbell, DP!Doorbell, QD!xrnic_send_wr, DP!xrnic_send_wr,
         QD!SqdRoom, DP!SqdRoom, QD!LinkSqd, DP!LinkSqd, QD!PostSqd, DP!PostSqd,
         QD!PostSqdFails, DP!PostSqdFails, QD!HwComplete, DP!HwComplete, QD!cur_send_cq_head,
         DP!cur_send_cq_head, QD!PollBegin, DP!PollBegin, QD!FreesBuffer, DP!FreesBuffer,
         QD!ReportsWc, DP!ReportsWc, QD!Reap, DP!Reap, QD!ReapDone, DP!ReapDone,
         QD!FlushedLength, DP!FlushedLength, QD!Flush, DP!Flush, QD!FlushDone, DP!FlushDone,
         QD!ringVars, DP!ringVars, QD!hwVars, DP!hwVars, QD!sqdVars, DP!sqdVars, QD!reapVars,
         DP!reapVars, QD!Slots, DP!Slots, QD!NoBuf, DP!NoBuf, QD!XRNIC_RDMA_WRITE,
         DP!XRNIC_RDMA_WRITE, QD!XRNIC_SEND_ONLY, DP!XRNIC_SEND_ONLY, QD!XRNIC_RDMA_READ,
         DP!XRNIC_RDMA_READ, QD!XRNIC_INVALID_OPC, DP!XRNIC_INVALID_OPC, QD!xib_wr_code,
         DP!xib_wr_code, QD!WqeOpcode, DP!WqeOpcode, QD!RingPtr, DP!RingPtr, QD!WrapLocal,
         DP!WrapLocal, QD!NoReq, DP!NoReq, QD!IdlePost, DP!IdlePost, QD!IdlePoll, DP!IdlePoll
<1> QED
  BY <1>1, <1>2 DEF QD!SqdFlushInOrder, DP!SqdFlushInOrder

\* Its steps are the steps of a behaviour of it.
LEMMA SqdSteps ==
    ASSUME [Next]_vars
    PROVE  /\ part = "sqd" => part' = "sqd" /\ [DP!Next]_(DP!vars)
           /\ part # "sqd" => part' # "sqd"
<1>1. CASE Next
  BY <1>1, SqdSame DEF Next
<1>2. CASE UNCHANGED vars
  BY <1>2 DEF vars, DP!vars, DP!ringVars, DP!hwVars, DP!sqdVars, DP!reapVars
<1> QED
  BY <1>1, <1>2

\* The hardware executes the requests of __xib_post_send in order and the poll
\* of xib_poll_kernel_cq reports those it reaped, in order and never ahead of
\* the hardware, for every budget of the poll; no index leaves the ring.
THEOREM SendHardwareInOrder ==
    ASSUME MaxEntries \in Nat \ {0}
    PROVE  Spec => []HardwareInOrder
<1>1. Init => (part = "ring" => RP!Init) /\ (part = "failures" => FP!Init)
  BY RingSame, FailuresSame DEF Init
<1>2. [Next]_vars => /\ part = "ring" => (part = "ring")' /\ [RP!Next]_(RP!vars)
                     /\ ~(part = "ring") => ~(part = "ring")'
                     /\ part = "failures" => (part = "failures")' /\ [FP!Next]_(FP!vars)
                     /\ ~(part = "failures") => ~(part = "failures")'
  BY RingSteps, FailuresSteps
<1>3. /\ RP!Spec => []RP!TypeOK
      /\ RP!Spec => [](RP!ExecutedInOrder /\ RP!SendInOrder /\ RP!ReapBehindHardware)
  BY QueuesOK, RP!SendTypeCorrect, RP!SendOrderCorrect
<1>4. FP!Spec => [](FP!ExecutedInOrder /\ FP!SendInOrder /\ FP!ReapBehindHardware)
  BY QueuesOK, FP!SendOrderCorrect
<1>5. /\ part = "ring" => RP!TypeOK /\ RP!ExecutedInOrder /\ RP!SendInOrder
                          /\ RP!ReapBehindHardware
      /\ part = "failures" => FP!ExecutedInOrder /\ FP!SendInOrder /\ FP!ReapBehindHardware
      => HardwareInOrder
  BY RingSame, FailuresSame DEF HardwareInOrder
<1> QED
  BY <1>1, <1>2, <1>3, <1>4, <1>5, PTL DEF Spec, RP!Spec, FP!Spec

\* The staging buffer of a send lives until the send is reaped, and each is
\* freed once, also when a later request of __xib_post_send failed.
THEOREM SendStagingSafe ==
    ASSUME MaxEntries \in Nat \ {0}
    PROVE  Spec => []BuffersSafe
<1>1. Init => (part = "ring" => RP!Init) /\ (part = "failures" => FP!Init)
  BY RingSame, FailuresSame DEF Init
<1>2. [Next]_vars => /\ part = "ring" => (part = "ring")' /\ [RP!Next]_(RP!vars)
                     /\ ~(part = "ring") => ~(part = "ring")'
                     /\ part = "failures" => (part = "failures")' /\ [FP!Next]_(FP!vars)
                     /\ ~(part = "failures") => ~(part = "failures")'
  BY RingSteps, FailuresSteps
<1>3. RP!Spec => [](RP!InFlightBuffersLive /\ RP!NoBadFree)
  BY QueuesOK, RP!SendBuffersSafe
<1>4. FP!Spec => [](FP!InFlightBuffersLive /\ FP!NoBadFree)
  BY QueuesOK, FP!SendBuffersSafe
<1>5. /\ part = "ring" => RP!InFlightBuffersLive /\ RP!NoBadFree
      /\ part = "failures" => FP!InFlightBuffersLive /\ FP!NoBadFree
      => BuffersSafe
  BY RingSame, FailuresSame DEF BuffersSafe
<1> QED
  BY <1>1, <1>2, <1>3, <1>4, <1>5, PTL DEF Spec, RP!Spec, FP!Spec

\* The list of state SQD is flushed once and in order, and the length that
\* limits it counts the requests on it (__xib_post_send, xib_poll_kernel_cq).
THEOREM SendSqdListExact ==
    ASSUME MaxEntries \in Nat \ {0}
    PROVE  Spec => []SqdListExact
<1>1. Init => (part = "sqd" => DP!Init)
  BY SqdSame DEF Init
<1>2. [Next]_vars => /\ part = "sqd" => (part = "sqd")' /\ [DP!Next]_(DP!vars)
                     /\ ~(part = "sqd") => ~(part = "sqd")'
  BY SqdSteps
<1>3. DP!Spec => []DP!SqdFlushInOrder
  BY QueuesOK, DP!SendSqdList
<1>4. (part = "sqd" => DP!SqdFlushInOrder) => SqdListExact
  BY SqdSame DEF SqdListExact
<1> QED
  BY <1>1, <1>2, <1>3, <1>4, PTL DEF Spec, DP!Spec
=============================================================================
