------------------------------- MODULE Xrping --------------------------------
(***************************************************************************)
(* The ping test: the server side of the board's xrping.c with the client  *)
(* side of the host's xrping.c.                                             *)
(*                                                                         *)
(* Server: cm_thread queues connections, data_thread accepts them and sets *)
(* their buffers up, main runs the pings of one connection after the other *)
(* and holds cm_list_lock while it does.  Client: main connects the QPs in *)
(* turn, cm_thread handles connection events, data_thread runs the pings,  *)
(* cq_thread takes completions.  One ping: the client tells its buffer's   *)
(* key, the server reads the buffer and answers, the client wipes the      *)
(* buffer and answers, the server writes the data back and says so, and    *)
(* the client compares.  QPs are named by their place in the client's      *)
(* table.                                                                   *)
(***************************************************************************)
EXTENDS Integers, Sequences, FiniteSets

CONSTANTS
    ClientQps, count,   \* -Q and -C of the client
    ServerQps,          \* -Q of the server
    MaxErrors           \* bound: connection attempts and polls of the server that
                        \* fail

VARIABLES
    (* the server *)
    salive, list, lock, connections, disconnects, rx_test_qp_cnt, sev, scm, sdata,
    smain, sbuf,
    (* messages in flight, per QP *)
    c2s, s2c,
    (* the client *)
    calive, cb, cmain, ccm, cdata, ccq, cev, done_cnt, rdma_buf, crecv, errors

threadVars == <<scm, sdata, smain>>
serverVars == <<salive, list, lock, connections, disconnects, rx_test_qp_cnt, sev,
                threadVars, sbuf>>
clientVars == <<calive, cb, cmain, ccm, cdata, ccq, cev, done_cnt, rdma_buf, crecv,
                errors>>
vars == <<serverVars, c2s, s2c, clientVars>>

Ids == 1 .. ClientQps
Blank == 0           \* the 0x0F pattern; ping p fills the buffer with p
NoBuf == -1          \* not allocated
Event(e, id) == [event |-> e, id |-> id]

\* main of the server, up to the threads and loops below.
ServerInit ==
    /\ salive = TRUE /\ list = << >> /\ lock = "free" /\ connections = 0
    /\ disconnects = 0 /\ rx_test_qp_cnt = ServerQps /\ sev = << >> /\ scm = "get"
    /\ sdata = [pc |-> "out", pos |-> 0, i |-> 0]
    /\ smain = [pc |-> "scan", pos |-> 0, i |-> 0, iter_cnt |-> 1, cnt |-> 0]
    /\ sbuf = [id \in Ids |-> NoBuf]

\* main of the client: options, event channel, table of QPs and threads.
ClientInit ==
    /\ calive = TRUE
    /\ cb = [id \in Ids |-> [state |-> "IDLE", sem |-> 0, sem_data |-> 0, cm_chnl_en |-> FALSE,
                             cm_fail |-> FALSE, cm_established |-> FALSE, test_done |-> FALSE]]
    /\ cmain = [pc |-> "create", i |-> 1, ret |-> 0] /\ ccm = 0
    /\ cdata = [pc |-> "look", i |-> 1, ping |-> 0]
    /\ ccq = 0 /\ cev = << >> /\ done_cnt = 0
    /\ rdma_buf = [id \in Ids |-> NoBuf] /\ crecv = [id \in Ids |-> 0] /\ errors = 0

Init ==
    /\ ServerInit /\ ClientInit
    /\ c2s = [id \in Ids |-> 0] /\ s2c = [id \in Ids |-> 0]
-----------------------------------------------------------------------------
(* Server: cm_thread. *)

Place(id) == CHOOSE k \in 1 .. Len(list) : list[k].id = id

\* The list with the entry of an established connection marked.
update_ctx_entry(id) == [list EXCEPT ![Place(id)].state = "ESTABLISHED"]

\* set_ctx_to_rx_connect_req: a request joins the list, an established
\* connection is marked, both under the lock.
ScmListEvent ==
    LET ev == Head(sev) IN
    /\ salive /\ scm = "get" /\ sev # << >> /\ lock = "free"
    /\ ev.event \in {"CONNECT_REQUEST", "ESTABLISHED"}
    /\ list' = IF ev.event = "CONNECT_REQUEST"
                 THEN Append(list, [id |-> ev.id, state |-> "CONNECT_REQ"])
                 ELSE update_ctx_entry(ev.id)
    /\ sev' = Tail(sev)
    /\ UNCHANGED <<salive, lock, connections, disconnects, rx_test_qp_cnt, threadVars,
                   sbuf, c2s, s2c, clientVars>>

\* main waits for the disconnections.
AllDisconnected(n) == n >= rx_test_qp_cnt

\* A disconnection is counted; the last one ends the process.
ScmDisconnected ==
    /\ salive /\ scm = "get" /\ sev # << >> /\ Head(sev).event = "DISCONNECTED"
    /\ sev' = Tail(sev)
    /\ disconnects' = disconnects + 1
    /\ salive' = ~AllDisconnected(disconnects')
    /\ UNCHANGED <<list, lock, connections, rx_test_qp_cnt, threadVars, sbuf, c2s, s2c,
                   clientVars>>
-----------------------------------------------------------------------------
(* Server: data_thread. *)

SdataLock ==
    /\ salive /\ sdata.pc = "out" /\ lock = "free"
    /\ lock' = "data"
    /\ sdata' = [sdata EXCEPT !.pc = "in",
                   !.pos = IF @ = 0 /\ list # << >> THEN 1 ELSE @]
    /\ UNCHANGED <<salive, list, connections, disconnects, rx_test_qp_cnt, sev, scm,
                   smain, sbuf, c2s, s2c, clientVars>>

\* The buffers of an established connection.
rping_setup_buffers_server(id) == sbuf' = [sbuf EXCEPT ![id] = Blank]

\* At most three entries per turn: a request gets its CQ and its QP and is
\* accepted; an established connection gets its buffers and is counted.
SdataVisit ==
    LET e == list[sdata.pos] IN
    /\ salive /\ sdata.pc = "in" /\ sdata.pos # 0 /\ sdata.i < 3
    /\ sdata' = [sdata EXCEPT !.pos = IF @ = Len(list) THEN 0 ELSE @ + 1, !.i = @ + 1]
    /\ CASE e.state = "CONNECT_REQ" ->
              /\ list' = [list EXCEPT ![sdata.pos].state = "CONNECT_REQ_PROC"]
              /\ cev' = IF calive THEN Append(cev, Event("ESTABLISHED", e.id)) ELSE cev
              /\ UNCHANGED <<connections, sbuf>>
         [] e.state = "ESTABLISHED" ->
              /\ list' = [list EXCEPT ![sdata.pos].state = "READY_FOR_DATA_TRANSFER"]
              /\ rping_setup_buffers_server(e.id)
              /\ connections' = connections + 1
              /\ UNCHANGED cev
         [] OTHER -> UNCHANGED <<list, cev, connections, sbuf>>
    /\ UNCHANGED <<salive, lock, disconnects, rx_test_qp_cnt, sev, scm, smain, c2s, s2c,
                   calive, cb, cmain, ccm, cdata, ccq, done_cnt, rdma_buf, crecv,
                   errors>>

\* The lock is released, and the thread ends once all connections are there.
SdataUnlock ==
    /\ salive /\ sdata.pc = "in" /\ (sdata.i < 3 => sdata.pos = 0)
    /\ lock' = "free"
    /\ sdata' = [sdata EXCEPT !.i = 0,
                   !.pc = IF connections >= rx_test_qp_cnt THEN "done" ELSE "out"]
    /\ UNCHANGED <<salive, list, connections, disconnects, rx_test_qp_cnt, sev, scm,
                   smain, sbuf, c2s, s2c, clientVars>>
-----------------------------------------------------------------------------
(* Server: main. *)

ServerAt(pc) == salive /\ smain.pc = pc
Serving == list[smain.pos].id

\* run_server takes the lock once there is a connection.
MainLock ==
    /\ ServerAt("scan") /\ lock = "free" /\ list # << >>
    /\ lock' = "main" /\ smain' = [smain EXCEPT !.pc = "walk", !.pos = 1]
    /\ UNCHANGED <<salive, list, connections, disconnects, rx_test_qp_cnt, sev, scm,
                   sdata, sbuf, c2s, s2c, clientVars>>

\* The next entry; test_server_rping begins for a ready one.
MainVisit ==
    /\ ServerAt("walk") /\ smain.pos <= Len(list)
    /\ smain' = IF list[smain.pos].state = "READY_FOR_DATA_TRANSFER"
                  THEN [smain EXCEPT !.pc = "key", !.i = 0, !.iter_cnt = 1]
                  ELSE [smain EXCEPT !.pos = @ + 1]
    /\ UNCHANGED <<salive, list, lock, connections, disconnects, rx_test_qp_cnt, sev,
                   scm, sdata, sbuf, c2s, s2c, clientVars>>

MainUnlock ==
    /\ ServerAt("walk") /\ smain.pos > Len(list)
    /\ lock' = "free" /\ smain' = [smain EXCEPT !.pc = "scan", !.pos = 0]
    /\ UNCHANGED <<salive, list, connections, disconnects, rx_test_qp_cnt, sev, scm,
                   sdata, sbuf, c2s, s2c, clientVars>>

\* The pings the client asks for, told by its first message.
IterCnt(i) == IF i = 0 THEN count ELSE smain.iter_cnt

\* rdmatest_poll_cq: the message awaited is there; other completions are thrown
\* away.
rdmatest_poll_cq(id) == c2s[id] > 0

\* A receive is posted and the client's key awaited.  The first message also
\* tells the client's number of QPs, which replaces the server's own number
\* unless another value was set before.
PingKey ==
    /\ ServerAt("key") /\ rdmatest_poll_cq(Serving)
    /\ c2s' = [c2s EXCEPT ![Serving] = @ - 1]
    /\ rx_test_qp_cnt' = IF smain.i = 0 /\ rx_test_qp_cnt = ServerQps THEN ClientQps
                         ELSE rx_test_qp_cnt
    /\ smain' = [smain EXCEPT !.pc = "read", !.iter_cnt = IterCnt(smain.i)]
    /\ UNCHANGED <<salive, list, lock, connections, disconnects, sev, scm, sdata, sbuf,
                   s2c, clientVars>>

\* The RDMA read, the receive for the next message, and the answer.
PingRead ==
    /\ ServerAt("read")
    /\ sbuf' = [sbuf EXCEPT ![Serving] = rdma_buf[Serving]]
    /\ s2c' = [s2c EXCEPT ![Serving] = @ + 1]
    /\ smain' = [smain EXCEPT !.pc = "go"]
    /\ UNCHANGED <<salive, list, lock, connections, disconnects, rx_test_qp_cnt, sev,
                   scm, sdata, c2s, clientVars>>

\* Faulty form: the data is written back before the client said it may be.
GoNotAwaited == TRUE

\* The client's second message is there.
GoReceived == rdmatest_poll_cq(Serving)

\* The client's answer, and the RDMA write of what was read.
PingWrite ==
    /\ ServerAt("go") /\ GoReceived
    /\ c2s' = [c2s EXCEPT ![Serving] = IF @ > 0 THEN @ - 1 ELSE 0]
    /\ rdma_buf' = [rdma_buf EXCEPT ![Serving] = sbuf[Serving]]
    /\ smain' = [smain EXCEPT !.pc = "tell"]
    /\ UNCHANGED <<salive, list, lock, connections, disconnects, rx_test_qp_cnt, sev,
                   scm, sdata, sbuf, s2c, calive, cb, cmain, ccm, cdata, ccq, cev,
                   done_cnt, crecv, errors>>

\* The connection counts as tested.  After the last one run_server returns, with
\* the lock held.
Tested ==
    LET cnt == smain.cnt + 1 IN
    IF cnt >= rx_test_qp_cnt
      THEN /\ smain' = [smain EXCEPT !.pc = "over", !.cnt = cnt]
           /\ UNCHANGED list
      ELSE /\ smain' = [smain EXCEPT !.pc = "walk", !.pos = @ + 1, !.cnt = cnt]
           /\ list' = [list EXCEPT ![smain.pos].state = "INVALID_STATE"]

\* The last message of a ping.
PingDone ==
    /\ ServerAt("tell")
    /\ s2c' = [s2c EXCEPT ![Serving] = @ + 1]
    /\ IF smain.i + 1 < smain.iter_cnt
         THEN /\ smain' = [smain EXCEPT !.pc = "key", !.i = @ + 1]
              /\ UNCHANGED list
         ELSE Tested
    /\ UNCHANGED <<salive, lock, connections, disconnects, rx_test_qp_cnt, sev, scm,
                   sdata, sbuf, c2s, clientVars>>

\* rdmatest_poll_cq returns an error: the pings of the connection end, and it
\* counts as tested.  The message the completion was for may have arrived.
PingError ==
    /\ salive /\ smain.pc \in {"key", "read", "go", "tell"} /\ errors < MaxErrors
    /\ errors' = errors + 1
    /\ \/ UNCHANGED s2c
       \/ smain.pc = "tell" /\ s2c' = [s2c EXCEPT ![Serving] = @ + 1]
    /\ Tested
    /\ UNCHANGED <<salive, lock, connections, disconnects, rx_test_qp_cnt, sev, scm,
                   sdata, sbuf, c2s, calive, cb, cmain, ccm, cdata, ccq, cev, done_cnt,
                   rdma_buf, crecv>>
-----------------------------------------------------------------------------
(* Client: cm_thread. *)

\* The thread waits for an event because QP i listens; the channel is common,
\* so the event may belong to another QP.
CcmWait(i) ==
    /\ calive /\ ccm = 0 /\ cb[i].cm_chnl_en /\ ~cb[i].cm_fail
    /\ ccm' = i
    /\ UNCHANGED <<serverVars, c2s, s2c, calive, cb, cmain, cdata, ccq, cev, done_cnt,
                   rdma_buf, crecv, errors>>

\* rping_cma_event_handler.  An error event marks the QP the thread waited
\* for.  Taking ESTABLISHED answers the server.
CcmEvent ==
    LET ev == Head(cev)
        id == ev.id
    IN
    /\ calive /\ ccm # 0 /\ cev # << >>
    /\ ccm' = 0
    /\ CASE ev.event = "ADDR_RESOLVED" ->
              /\ cb' = [cb EXCEPT ![id].state = "ADDR_RESOLVED"]
              /\ cev' = Append(Tail(cev), Event("ROUTE_RESOLVED", id))
              /\ UNCHANGED sev
         [] ev.event = "ROUTE_RESOLVED" ->
              /\ cb' = [cb EXCEPT ![id].state = "ROUTE_RESOLVED", ![id].sem = @ + 1]
              /\ cev' = Tail(cev)
              /\ UNCHANGED sev
         [] ev.event = "ESTABLISHED" ->
              /\ cb' = [cb EXCEPT ![id].state = "CONNECTED", ![id].cm_chnl_en = FALSE,
                                  ![id].sem = @ + 1]
              /\ cev' = Tail(cev)
              /\ sev' = Append(sev, Event("ESTABLISHED", id))
         [] ev.event = "ERROR" ->
              /\ cb' = [[cb EXCEPT ![id].sem = @ + 1] EXCEPT ![ccm].cm_fail = TRUE]
              /\ cev' = Tail(cev)
              /\ UNCHANGED sev
    /\ UNCHANGED <<salive, list, lock, connections, disconnects, rx_test_qp_cnt,
                   threadVars, sbuf, c2s, s2c, calive, cmain, cdata, ccq, done_cnt,
                   rdma_buf, crecv, errors>>
-----------------------------------------------------------------------------
(* Client: main. *)

ClientAt(pc) == calive /\ cmain.pc = pc
NextQp(ret) == [pc |-> IF cmain.i = ClientQps THEN "end" ELSE "create",
                i |-> cmain.i + 1, ret |-> ret]

\* rdma_create_id and rdma_resolve_addr; the resolution may fail.
CmainCreate(ok) ==
    /\ ClientAt("create") /\ (ok \/ errors < MaxErrors)
    /\ cb' = [cb EXCEPT ![cmain.i].cm_chnl_en = TRUE]
    /\ cev' = Append(cev, Event(IF ok THEN "ADDR_RESOLVED" ELSE "ERROR", cmain.i))
    /\ cmain' = [cmain EXCEPT !.pc = "bind"]
    /\ errors' = IF ok THEN errors ELSE errors + 1
    /\ UNCHANGED <<serverVars, c2s, s2c, calive, ccm, cdata, ccq, done_cnt, rdma_buf,
                   crecv>>

\* rping_run_client gives the QP up.
CmainFails ==
    LET id == cmain.i IN
    /\ \/ ClientAt("bind") /\ cb[id].state # "ROUTE_RESOLVED"
       \/ ClientAt("connect") /\ cb[id].state # "CONNECTED"
    /\ cb[id].sem > 0
    /\ cb' = [cb EXCEPT ![id].sem = @ - 1, ![id].cm_chnl_en = FALSE]
    /\ done_cnt' = done_cnt + 1
    /\ cmain' = NextQp(-1)
    /\ UNCHANGED <<serverVars, c2s, s2c, calive, ccm, cdata, ccq, cev, rdma_buf, crecv,
                   errors>>

\* rping_setup_qp and rping_setup_buffers: the QP is there and the buffer is
\* registered.
rping_setup(id) == rdma_buf' = [rdma_buf EXCEPT ![id] = Blank]

\* The route is there: QP and buffers are set up, a receive is posted, and
\* rdma_connect is called, which may fail.
CmainConnect(ok) ==
    LET id == cmain.i IN
    /\ ClientAt("bind") /\ (ok \/ errors < MaxErrors)
    /\ cb[id].sem > 0 /\ cb[id].state = "ROUTE_RESOLVED"
    /\ cb' = [cb EXCEPT ![id].sem = @ - 1]
    /\ rping_setup(id)
    /\ crecv' = [crecv EXCEPT ![id] = @ + 1]
    /\ cmain' = [cmain EXCEPT !.pc = "connect"]
    /\ IF ok THEN /\ sev' = Append(sev, Event("CONNECT_REQUEST", id))
                  /\ UNCHANGED <<cev, errors>>
             ELSE /\ cev' = Append(cev, Event("ERROR", id)) /\ errors' = errors + 1
                  /\ UNCHANGED sev
    /\ UNCHANGED <<salive, list, lock, connections, disconnects, rx_test_qp_cnt,
                   threadVars, sbuf, c2s, s2c, calive, ccm, cdata, ccq, done_cnt>>

CmainConnected ==
    LET id == cmain.i IN
    /\ ClientAt("connect") /\ cb[id].sem > 0 /\ cb[id].state = "CONNECTED"
    /\ cb' = [cb EXCEPT ![id].sem = @ - 1, ![id].cm_established = TRUE]
    /\ cmain' = NextQp(0)
    /\ UNCHANGED <<serverVars, c2s, s2c, calive, ccm, cdata, ccq, cev, done_cnt, rdma_buf,
                   crecv, errors>>

\* main ends at once if its last QP failed, else when all QPs are done.
MayEnd == cmain.ret # 0 \/ done_cnt >= ClientQps

\* The QPs that stand, and the events of their end in the order of the table.
Standing == {list[k].id : k \in {j \in 1 .. Len(list) : list[j].state # "CONNECT_REQ"}}
Disconnections ==
    LET n == Cardinality(Standing) IN
    {f \in [1 .. n -> [event : {"DISCONNECTED"}, id : Standing]] :
        \A a, b \in 1 .. n : a < b => f[a].id < f[b].id}

\* The QPs that stand are destroyed, which the server sees.
CmainEnds ==
    /\ ClientAt("end") /\ MayEnd
    /\ calive' = FALSE
    /\ \E d \in Disconnections : sev' = sev \o d
    /\ UNCHANGED <<salive, list, lock, connections, disconnects, rx_test_qp_cnt,
                   threadVars, sbuf, c2s, s2c, cb, cmain, ccm, cdata, ccq, cev, done_cnt,
                   rdma_buf, crecv, errors>>
-----------------------------------------------------------------------------
(* Client: cq_thread. *)

\* The state after a message of the server.
client_recv(state) ==
    IF state = "RDMA_READ_ADV" THEN "RDMA_WRITE_ADV" ELSE "RDMA_WRITE_COMPLETE"

\* rping_cq_event_handler takes the completion of a receive: client_recv moves
\* the state of the ping on.
CqRecv(id) ==
    /\ calive /\ ccq = 0 /\ cb[id].cm_established
    /\ s2c[id] > 0 /\ crecv[id] > 0
    /\ s2c' = [s2c EXCEPT ![id] = @ - 1] /\ crecv' = [crecv EXCEPT ![id] = @ - 1]
    /\ cb' = [cb EXCEPT ![id].state = client_recv(@)]
    /\ ccq' = id
    /\ UNCHANGED <<serverVars, c2s, calive, cmain, ccm, cdata, cev, done_cnt, rdma_buf,
                   errors>>

\* The receive is posted again ...
Reposted(n) == n + 1

\* ... and then data_thread is woken.
CqPost ==
    /\ calive /\ ccq # 0
    /\ crecv' = [crecv EXCEPT ![ccq] = Reposted(@)]
    /\ cb' = [cb EXCEPT ![ccq].sem_data = @ + 1]
    /\ ccq' = 0
    /\ UNCHANGED <<serverVars, c2s, s2c, calive, cmain, ccm, cdata, cev, done_cnt,
                   rdma_buf, errors>>
-----------------------------------------------------------------------------
(* Client: data_thread. *)

Ready(j) == cb[j].cm_established /\ ~cb[j].test_done
PingAt(pc) == calive /\ cdata.pc = pc

\* One entry of the table.
CdataLook ==
    /\ PingAt("look")
    /\ cdata' = IF Ready(cdata.i) THEN [cdata EXCEPT !.pc = "ping", !.ping = 0]
                ELSE [cdata EXCEPT !.i = (@ % ClientQps) + 1]
    /\ UNCHANGED <<serverVars, c2s, s2c, calive, cb, cmain, ccm, ccq, cev, done_cnt,
                   rdma_buf, crecv, errors>>

\* A ping begins: the buffer is filled and its key sent.
PingSend ==
    LET id == cdata.i IN
    /\ PingAt("ping")
    /\ cb' = [cb EXCEPT ![id].state = "RDMA_READ_ADV"]
    /\ rdma_buf' = [rdma_buf EXCEPT ![id] = cdata.ping + 1]
    /\ c2s' = [c2s EXCEPT ![id] = @ + 1]
    /\ cdata' = [cdata EXCEPT !.pc = "adv", !.ping = @ + 1]
    /\ UNCHANGED <<serverVars, s2c, calive, cmain, ccm, ccq, cev, done_cnt, crecv, errors>>

\* The server has read: the buffer is wiped and the server told.
PingWipe ==
    LET id == cdata.i IN
    /\ PingAt("adv") /\ cb[id].sem_data > 0 /\ cb[id].state = "RDMA_WRITE_ADV"
    /\ cb' = [cb EXCEPT ![id].sem_data = @ - 1]
    /\ rdma_buf' = [rdma_buf EXCEPT ![id] = Blank]
    /\ c2s' = [c2s EXCEPT ![id] = @ + 1]
    /\ cdata' = [cdata EXCEPT !.pc = "complete"]
    /\ UNCHANGED <<serverVars, s2c, calive, cmain, ccm, ccq, cev, done_cnt, crecv, errors>>

\* The test of QP id is over, passed or not.
TestOver(id) ==
    /\ cb' = [cb EXCEPT ![id].cm_established = FALSE, ![id].test_done = TRUE,
                        ![id].cm_chnl_en = FALSE, ![id].sem_data = @ - 1]
    /\ done_cnt' = done_cnt + 1
    /\ cdata' = [pc |-> "look", i |-> (id % ClientQps) + 1, ping |-> 0]

\* The ping went right: the next one follows, or the test is over.
PingRight(id) ==
    /\ cb[id].state = "RDMA_WRITE_COMPLETE" /\ rdma_buf[id] = cdata.ping

PingCompare ==
    LET id == cdata.i IN
    /\ PingAt("complete") /\ cb[id].sem_data > 0 /\ PingRight(id)
    /\ IF cdata.ping < count
         THEN /\ cdata' = [cdata EXCEPT !.pc = "ping"]
              /\ cb' = [cb EXCEPT ![id].sem_data = @ - 1]
              /\ UNCHANGED done_cnt
         ELSE TestOver(id)
    /\ UNCHANGED <<serverVars, c2s, s2c, calive, cmain, ccm, ccq, cev, rdma_buf, crecv,
                   errors>>

\* The state is not the expected one or the data differ: the test has failed.
PingWrong ==
    LET id == cdata.i IN
    /\ cb[id].sem_data > 0
    /\ \/ PingAt("adv") /\ cb[id].state # "RDMA_WRITE_ADV"
       \/ PingAt("complete") /\ ~PingRight(id)
-----------------------------------------------------------------------------
MainStep == MainVisit \/ MainUnlock \/ PingKey \/ PingRead \/ PingWrite \/ PingDone
            \/ PingError
ServerMain == MainLock \/ MainStep
ClientMain == (\E ok \in BOOLEAN : CmainCreate(ok) \/ CmainConnect(ok)) \/ CmainFails
              \/ CmainConnected \/ CmainEnds
ClientCm == (\E i \in Ids : CcmWait(i)) \/ CcmEvent
ClientCq == (\E id \in Ids : CqRecv(id)) \/ CqPost
ClientData == CdataLook \/ PingSend \/ PingWipe \/ PingCompare

Next ==
    \/ ScmListEvent \/ ScmDisconnected
    \/ SdataLock \/ SdataVisit \/ SdataUnlock
    \/ ServerMain \/ ClientMain \/ ClientCm \/ ClientCq \/ ClientData

Spec == Init /\ [][Next]_vars
-----------------------------------------------------------------------------
\* No ping fails: data_thread never finds another state than the one it waits
\* for, and the data it gets back is what it sent.  The state is written by
\* cq_thread and data_thread without a lock.
NoPingFails == ~PingWrong

\* Every message of the server finds a receive posted by the client: cq_thread
\* posts the receive again before it lets data_thread answer.
ClientReceiveReady == \A id \in Ids : calive => s2c[id] <= crecv[id]
=============================================================================
