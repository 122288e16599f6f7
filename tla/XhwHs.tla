-------------------------------- MODULE XhwHs --------------------------------
(***************************************************************************)
(* The hardware handshake test: the server xhw_hs_server.c, its client     *)
(* xhw_hs_client.c and the handshake driver whose ioctls the server uses,  *)
(* hw_hs_old.c (the build has replaced it by hw_hs.c).                      *)
(*                                                                         *)
(* The server has three threads: cm_thread queues connections, est_thread  *)
(* accepts them, and the main thread exchanges contexts and runs the test; *)
(* they share the list of connections under cm_list_lock, which the main   *)
(* thread holds while it waits for a client's message.  The client has     *)
(* three too: main connects the QPs one after the other, cm_thread handles *)
(* the events of the connection manager, data_thread exchanges contexts.   *)
(* A QP is identified by its place in the client's table, 1..ClientQps.    *)
(***************************************************************************)
EXTENDS Integers, Sequences, FiniteSets

CONSTANTS
    ClientQps,    \* -Q of the client
    qp_cnt,       \* -Q of the server
    NumQp,        \* ERNIC data QPs of the board
    Taken,        \* the ones other programs hold
    common_buf,   \* -c of the client: one RDMA buffer for all QPs
    reuse_buf,    \* -c of the server
    Failures      \* what may go wrong, see the actions

VARIABLES
    (* the server *)
    salive, list, lock, connections, disconnects, sev, scm, est, smain,
    qp_cfg_cnt, hwqp, smem, pa,
    blind,        \* connections whose poll ended with an error
    (* the driver *)
    drv,
    (* the messages of the exchange *)
    s2c, c2s,
    (* the client *)
    calive, ccm, cb, cmain, cdata, cev, done_cnt, cmem, chunk

serverVars == <<salive, list, lock, connections, disconnects, sev, scm, est, smain,
                qp_cfg_cnt, hwqp, smem, pa, blind>>
clientVars == <<calive, ccm, cb, cmain, cdata, cev, done_cnt, cmem, chunk>>
vars == <<serverVars, drv, s2c, c2s, clientVars>>

Ids == 1 .. ClientQps
Hw == 1 .. NumQp
rx_test_qp_cnt == qp_cnt
NONE == 0
Event(e, id) == [event |-> e, id |-> id]

\* hw_hs_cmn_cfg: the engine knows how many QPs will take part, and the driver
\* has an entry for each.
hw_hs_cmn_cfg(n) ==
    /\ n <= NumQp
    /\ drv = [conf |-> 0, hsk |-> {}, done |-> FALSE, eng |-> [q \in 1 .. n |-> NONE],
              data |-> [q \in 1 .. n |-> NONE]]

fill_hh_ctrl_cfg == hw_hs_cmn_cfg(qp_cnt)

\* init_xperf_app and the start of run_server.
init_xperf_app ==
    /\ salive = TRUE /\ list = << >> /\ lock = "free" /\ connections = 0
    /\ disconnects = 0 /\ sev = << >> /\ scm = "get" /\ est = [pc |-> "out", pos |-> 0, i |-> 0]
    /\ smain = [pc |-> "scan", pos |-> 0] /\ qp_cfg_cnt = 0
    /\ hwqp = [id \in Ids |-> NONE] /\ smem = {} /\ pa = NONE /\ blind = {}

\* main of the client up to its loop.
ClientInit ==
    /\ calive = TRUE /\ ccm = "run"
    /\ cb = [id \in Ids |-> [state |-> "IDLE", sem |-> 0, est |-> FALSE, test_done |-> FALSE]]
    /\ cmain = [pc |-> "create", i |-> 1] /\ cdata = [pc |-> "look", i |-> 1]
    /\ cev = << >> /\ done_cnt = 0 /\ cmem = {} /\ chunk = NONE

Init ==
    /\ init_xperf_app /\ fill_hh_ctrl_cfg
    /\ s2c = {} /\ c2s = {}
    /\ ClientInit
-----------------------------------------------------------------------------
(* The driver. *)

\* HH_WRITE_QP_CFG of the qp_num-th connection: the engine's entry and the ring
\* of ERNIC QP qp_num + 1 are set, whatever QP the connection has.
hw_hs_qp_cfg(k, id) ==
    [drv EXCEPT !.conf = @ + 1, !.eng[k] = id,
                !.data[k] = IF reuse_buf /\ pa # NONE THEN pa ELSE id]

\* Faulty form: one QP fewer is taken out of the handshake.
DisableAllButLast == [drv EXCEPT !.hsk = @ \ (1 .. drv.conf - 1), !.conf = 0, !.done = FALSE]

\* reset_hw_hsk takes QPs 1..config_qp_cnt out of the handshake.
reset_hw_hsk == [drv EXCEPT !.hsk = @ \ (1 .. drv.conf), !.conf = 0, !.done = FALSE]

\* enable_hw_hsk puts QPs 1..qp_cnt in.
enable_hw_hsk == [drv EXCEPT !.hsk = 1 .. qp_cnt]

\* The engine finishes the transfers of the test.
HwTestDone ==
    /\ drv.hsk # {} /\ ~drv.done
    /\ drv' = [drv EXCEPT !.done = TRUE]
    /\ UNCHANGED <<serverVars, s2c, c2s, clientVars>>
-----------------------------------------------------------------------------
(* The end of a process. *)

\* The connections that still stand are disconnected, the requests not accepted
\* are rejected.
FromServer(ids, e) ==
    LET n == Cardinality(ids) IN
    {f \in [1 .. n -> [event : {e}, id : ids]] : \A a, b \in 1 .. n : a < b => f[a].id < f[b].id}

Standing == {id \in Ids : hwqp[id] # NONE}
Asked == {id \in Ids : cb[id].state = "CONNECTING"} \ Standing

\* The server process ends: the file of the handshake device is closed by the
\* destructor, or by the kernel, and hh_dev_close resets the handshake.
ServerExit ==
    /\ salive' = FALSE
    /\ drv' = reset_hw_hsk
    /\ smem' = {}
    /\ hwqp' = [id \in Ids |-> NONE]
    /\ \E d \in FromServer(Standing, "DISCONNECTED"), r \in FromServer(Asked, "REJECTED") :
          cev' = cev \o r \o d
    /\ UNCHANGED <<list, lock, connections, disconnects, sev, scm, est, smain,
                   qp_cfg_cnt, pa, blind>>

\* The server is killed.
ServerKilled ==
    /\ "server_kill" \in Failures /\ salive
    /\ ServerExit
    /\ UNCHANGED <<s2c, c2s, calive, ccm, cb, cmain, cdata,
                   done_cnt, cmem, chunk>>

\* The client process ends: the server sees its connections disconnected.
ClientExit ==
    /\ calive' = FALSE
    /\ cmem' = {}
    /\ \E d \in FromServer(Standing, "DISCONNECTED") : sev' = sev \o d
-----------------------------------------------------------------------------
(* The server: cm_thread. *)

Append1(id) == Append(list, [id |-> id, st |-> "CONNECT_REQ"])
Place(id) == CHOOSE k \in 1 .. Len(list) : list[k].id = id

\* set_ctx_to_rx_connect_req: a request is appended to the list, and an
\* established connection marked, under the lock.
ScmListEvent ==
    LET ev == Head(sev) IN
    /\ salive /\ scm = "get" /\ sev # << >>
    /\ ev.event \in {"CONNECT_REQUEST", "ESTABLISHED"} /\ lock = "free"
    /\ list' = IF ev.event = "CONNECT_REQUEST" THEN Append1(ev.id)
               ELSE [list EXCEPT ![Place(ev.id)].st = "ESTABLISHED"]
    /\ sev' = Tail(sev) /\ scm' = "check"
    /\ UNCHANGED <<salive, lock, connections, disconnects, est, smain, qp_cfg_cnt,
                   hwqp, smem, pa, blind, drv, s2c, c2s, clientVars>>

\* A disconnection is counted; with the last one the process exits.
ScmDisconnected ==
    LET last == disconnects + 1 >= rx_test_qp_cnt IN
    /\ salive /\ scm = "get" /\ sev # << >> /\ Head(sev).event = "DISCONNECTED"
    /\ IF last
         THEN /\ ServerExit
              /\ UNCHANGED <<s2c, c2s, calive, ccm, cb, cmain, cdata,
                   done_cnt, cmem, chunk>>
         ELSE /\ disconnects' = disconnects + 1
              /\ sev' = Tail(sev) /\ scm' = "check"
              /\ UNCHANGED <<salive, list, lock, connections, est, smain, qp_cfg_cnt,
                             hwqp, smem, pa, blind, drv, s2c, c2s, clientVars>>

\* The loop ends when the connections are complete; est_thread counts them.
ScmCheck ==
    /\ salive /\ scm = "check"
    /\ scm' = IF connections < rx_test_qp_cnt THEN "get" ELSE "done"
    /\ UNCHANGED <<salive, list, lock, connections, disconnects, sev, est, smain,
                   qp_cfg_cnt, hwqp, smem, pa, blind, drv, s2c, c2s, clientVars>>
-----------------------------------------------------------------------------
(* The server: est_thread. *)

EstLock ==
    /\ salive /\ est.pc = "out" /\ lock = "free"
    /\ lock' = "est"
    /\ est' = [pc |-> "in", pos |-> IF est.pos = 0 /\ list # << >> THEN 1 ELSE est.pos, i |-> 0]
    /\ UNCHANGED <<salive, list, connections, disconnects, sev, scm, smain, qp_cfg_cnt,
                   hwqp, smem, pa, blind, drv, s2c, c2s, clientVars>>

NextPos == IF est.pos = Len(list) THEN 0 ELSE est.pos + 1
Free == {q \in Hw : q \notin Taken /\ \A id \in Ids : hwqp[id] # q}
LowestFree == CHOOSE q \in Free : \A p \in Free : q <= p

\* The regions of a request are set up and the core creates its QP.
app_req_regions(id) == hwqp' = [hwqp EXCEPT ![id] = LowestFree]

\* The send buffer of an established connection.
rping_setup_wr(id) == smem' = smem \cup {<<"send", id>>}

\* At most three entries per turn.  A request gets its regions and its QP and
\* is accepted; an established connection gets its buffer and is counted.
EstVisit ==
    LET e == list[est.pos] IN
    /\ salive /\ est.pc = "in" /\ est.pos # 0 /\ est.i < 3
    /\ est' = [est EXCEPT !.pos = NextPos, !.i = @ + 1]
    /\ CASE e.st = "CONNECT_REQ" ->
              /\ Free # {} /\ app_req_regions(e.id)
              /\ list' = [list EXCEPT ![est.pos].st = "CONNECT_REQ_PROC"]
              /\ cev' = IF calive THEN Append(cev, Event("ESTABLISHED", e.id)) ELSE cev
              /\ UNCHANGED <<connections, smem>>
         [] e.st = "ESTABLISHED" ->
              /\ list' = [list EXCEPT ![est.pos].st = "READY"]
              /\ connections' = connections + 1
              /\ rping_setup_wr(e.id)
              /\ UNCHANGED <<hwqp, cev>>
         [] OTHER -> UNCHANGED <<list, hwqp, cev, connections, smem>>
    /\ UNCHANGED <<salive, lock, disconnects, sev, scm, smain, qp_cfg_cnt, pa, blind, drv,
                   s2c, c2s, calive, ccm, cb, cmain, cdata,
                   done_cnt, cmem, chunk>>

\* The regions or the QP cannot be had: error_handler exits.
EstFails ==
    /\ salive /\ est.pc = "in" /\ est.pos # 0 /\ est.i < 3
    /\ list[est.pos].st = "CONNECT_REQ"
    /\ "server_alloc" \in Failures \/ Free = {}
    /\ ServerExit
    /\ UNCHANGED <<s2c, c2s, calive, ccm, cb, cmain, cdata,
                   done_cnt, cmem, chunk>>

EstUnlock ==
    /\ salive /\ est.pc = "in" /\ (est.i < 3 => est.pos = 0)
    /\ lock' = "free"
    /\ est' = [est EXCEPT !.pc = IF connections >= rx_test_qp_cnt THEN "done" ELSE "out",
                          !.i = 0]
    /\ UNCHANGED <<salive, list, connections, disconnects, sev, scm, smain, qp_cfg_cnt,
                   hwqp, smem, pa, blind, drv, s2c, c2s, clientVars>>
-----------------------------------------------------------------------------
(* The server: main thread. *)

\* run_server takes the lock once there is a connection and walks the list.
MainLock ==
    /\ salive /\ smain.pc = "scan" /\ lock = "free" /\ list # << >>
    /\ lock' = "main" /\ smain' = [pc |-> "walk", pos |-> 1]
    /\ UNCHANGED <<salive, list, connections, disconnects, sev, scm, est, qp_cfg_cnt,
                   hwqp, smem, pa, blind, drv, s2c, c2s, clientVars>>

\* test_server_rping: a receive is posted and the parameters are sent.
test_server_rping(id) == s2c' = s2c \cup {id}

\* The poll returns: the receive has completed (other completions are thrown
\* away), or a completion had an error, which the caller is not told.
rdmatest_poll_cq(id) == id \in c2s \cup blind

\* The exchange begins with a ready connection; the lock stays held for the
\* answer.
MainVisit ==
    LET e == list[smain.pos] IN
    /\ salive /\ smain.pc = "walk" /\ smain.pos <= Len(list)
    /\ IF e.st = "READY"
         THEN /\ test_server_rping(e.id)
              /\ smain' = [smain EXCEPT !.pc = "poll"]
         ELSE /\ smain' = [smain EXCEPT !.pos = @ + 1]
              /\ UNCHANGED s2c
    /\ UNCHANGED <<salive, list, lock, connections, disconnects, sev, scm, est,
                   qp_cfg_cnt, hwqp, smem, pa, blind, drv, c2s, clientVars>>

\* A completion has an error: the parameters are lost, or their acknowledgement.
MainPollFails ==
    LET id == list[smain.pos].id IN
    /\ "server_poll" \in Failures /\ salive /\ smain.pc = "poll" /\ ~rdmatest_poll_cq(id)
    /\ blind' = blind \cup {id}
    /\ \E left \in {s2c, s2c \ {id}} : s2c' = left
    /\ UNCHANGED <<salive, list, lock, connections, disconnects, sev, scm, est, smain,
                   qp_cfg_cnt, hwqp, smem, pa, drv, c2s, clientVars>>

\* The place of a connection among the requests: ctx.qp_num.
QpNum(id) == Place(id)

\* The exchanges are complete.
AllConfigured(n) == n >= qp_cnt

\* The client's key and address are taken from the receive buffer, whether or
\* not they have arrived; memory for the data (unless it is shared) and
\* for the ring is set aside and the engine configured.
MainConfigures ==
    LET id == list[smain.pos].id IN
    /\ salive /\ smain.pc = "poll" /\ rdmatest_poll_cq(id)
    /\ drv' = hw_hs_qp_cfg(QpNum(id), id)
    /\ smem' = smem \cup {<<"sq", id>>}
                    \cup (IF reuse_buf /\ pa # NONE THEN {} ELSE {<<"rdma", id>>})
    /\ pa' = IF reuse_buf /\ pa # NONE THEN pa ELSE id
    /\ qp_cfg_cnt' = qp_cfg_cnt + 1
    /\ IF AllConfigured(qp_cfg_cnt + 1)
         THEN /\ list' = [list EXCEPT ![smain.pos].st = "QP_CFG_DONE"]
              /\ lock' = "free" /\ smain' = [pc |-> "enable", pos |-> 0]
         ELSE /\ list' = [list EXCEPT ![smain.pos].st = "INVALID"]
              /\ smain' = [pc |-> "walk", pos |-> smain.pos + 1]
              /\ UNCHANGED lock
    /\ UNCHANGED <<salive, connections, disconnects, sev, scm, est, hwqp, blind, s2c, c2s,
                   clientVars>>

\* An allocation of hw_hs_qp_cfg or the ioctl fails: the loop is left, and the
\* process returns an error.
MainConfigFails ==
    /\ "server_alloc" \in Failures /\ salive /\ smain.pc = "poll"
    /\ rdmatest_poll_cq(list[smain.pos].id)
    /\ ServerExit
    /\ UNCHANGED <<s2c, c2s, calive, ccm, cb, cmain, cdata,
                   done_cnt, cmem, chunk>>

MainUnlock ==
    /\ salive /\ smain.pc = "walk" /\ smain.pos > Len(list)
    /\ lock' = "free" /\ smain' = [pc |-> "scan", pos |-> 0]
    /\ UNCHANGED <<salive, list, connections, disconnects, sev, scm, est, qp_cfg_cnt,
                   hwqp, smem, pa, blind, drv, s2c, c2s, clientVars>>

\* enable_hw_hs
MainEnable ==
    /\ salive /\ smain.pc = "enable"
    /\ drv' = enable_hw_hsk
    /\ smain' = [smain EXCEPT !.pc = "test"]
    /\ UNCHANGED <<salive, list, lock, connections, disconnects, sev, scm, est,
                   qp_cfg_cnt, hwqp, smem, pa, blind, s2c, c2s, clientVars>>

\* test_hw_handshake polls the status.
test_hw_handshake == drv.done

\* The counters are read and the handshake is reset.
MainReset ==
    /\ salive /\ smain.pc = "test" /\ test_hw_handshake
    /\ drv' = reset_hw_hsk
    /\ smain' = [pc |-> "clean", pos |-> 1]
    /\ UNCHANGED <<salive, list, lock, connections, disconnects, sev, scm, est,
                   qp_cfg_cnt, hwqp, smem, pa, blind, s2c, c2s, clientVars>>

\* The first qp_cnt entries are freed and disconnected, then main returns.
MainClean ==
    LET id == list[smain.pos].id IN
    /\ salive /\ smain.pc = "clean" /\ smain.pos <= qp_cnt
    /\ smem' = smem \ {<<k, id>> : k \in {"send", "sq", "rdma"}}
    /\ hwqp' = [hwqp EXCEPT ![id] = NONE]
    /\ cev' = IF calive THEN Append(cev, Event("DISCONNECTED", id)) ELSE cev
    /\ sev' = Append(sev, Event("DISCONNECTED", id))
    /\ smain' = [smain EXCEPT !.pos = @ + 1]
    /\ UNCHANGED <<salive, list, lock, connections, disconnects, scm, est, qp_cfg_cnt,
                   pa, blind, drv, s2c, c2s, calive, ccm, cb, cmain, cdata,
                   done_cnt, cmem, chunk>>

MainReturns ==
    /\ salive /\ smain.pc = "clean" /\ smain.pos > qp_cnt
    /\ ServerExit
    /\ UNCHANGED <<s2c, c2s, calive, ccm, cb, cmain, cdata,
                   done_cnt, cmem, chunk>>
-----------------------------------------------------------------------------
(* The client: cm_thread. *)

\* The thread ends with the last disconnection.
CmThreadAfter(n) == IF n >= ClientQps THEN "done" ELSE "run"

\* rping_cma_event_handler, and the count of disconnections: an event that is
\* ignored, as the one that follows a disconnection, counts the QP again.  An
\* error event ends the process.  Taking ESTABLISHED answers the server.
CcmEvent ==
    LET ev == Head(cev)
        id == ev.id
    IN
    /\ calive /\ ccm = "run" /\ cev # << >>
    /\ CASE ev.event = "ADDR_RESOLVED" ->
              /\ cb' = [cb EXCEPT ![id].state = "ADDR_RESOLVED"]
              /\ cev' = Append(Tail(cev), Event("ROUTE_RESOLVED", id))
              /\ UNCHANGED <<sev, done_cnt, calive, cmem, ccm>>
         [] ev.event = "ROUTE_RESOLVED" ->
              /\ cb' = [cb EXCEPT ![id].state = "ROUTE_RESOLVED", ![id].sem = @ + 1]
              /\ cev' = Tail(cev)
              /\ UNCHANGED <<sev, done_cnt, calive, cmem, ccm>>
         [] ev.event = "ESTABLISHED" ->
              /\ cb' = [cb EXCEPT ![id].state = "CONNECTED", ![id].sem = @ + 1]
              /\ cev' = Tail(cev)
              /\ sev' = IF salive THEN Append(sev, Event("ESTABLISHED", id)) ELSE sev
              /\ UNCHANGED <<done_cnt, calive, cmem, ccm>>
         [] ev.event = "DISCONNECTED" ->
              /\ cb' = [cb EXCEPT ![id].state = "DISCONNECTED", ![id].sem = @ + 1]
              /\ cev' = Append(Tail(cev), Event("TIMEWAIT_EXIT", id))
              /\ done_cnt' = done_cnt + 1
              /\ ccm' = CmThreadAfter(done_cnt')
              /\ UNCHANGED <<sev, calive, cmem>>
         [] ev.event = "TIMEWAIT_EXIT" ->
              /\ cev' = Tail(cev)
              /\ done_cnt' = IF cb[id].state = "DISCONNECTED" THEN done_cnt + 1 ELSE done_cnt
              /\ ccm' = CmThreadAfter(done_cnt')
              /\ UNCHANGED <<cb, sev, calive, cmem>>
         [] ev.event = "REJECTED" ->
              /\ ClientExit
              /\ cev' = << >>
              /\ UNCHANGED <<cb, done_cnt, ccm>>
    /\ UNCHANGED <<salive, list, lock, connections, disconnects, scm, est, smain,
                   qp_cfg_cnt, hwqp, smem, pa, blind, drv, s2c, c2s, cmain, cdata, chunk>>
-----------------------------------------------------------------------------
(* The client: main. *)

NextQp == [pc |-> IF cmain.i = ClientQps THEN "wait" ELSE "create", i |-> cmain.i + 1]

ClientAt(pc) == calive /\ cmain.pc = pc

\* init_conn_defaults, rdma_create_id and rdma_resolve_addr.
CmainCreate ==
    /\ ClientAt("create")
    /\ cev' = Append(cev, Event("ADDR_RESOLVED", cmain.i))
    /\ cmain' = [cmain EXCEPT !.pc = "bind"]
    /\ UNCHANGED <<serverVars, drv, s2c, c2s, calive, ccm, cb, cdata, done_cnt,
                   cmem, chunk>>

\* The identifier cannot be created: the QP is counted as done twice.
CmainCreateFails ==
    /\ "create_id" \in Failures /\ ClientAt("create")
    /\ done_cnt' = done_cnt + 2
    /\ cmain' = NextQp
    /\ UNCHANGED <<serverVars, drv, s2c, c2s, calive, ccm, cb, cdata, cev, cmem,
                   chunk>>

\* rping_setup_qp and rping_setup_buffers, which posts a receive.
rping_setup(id) == cmem' = cmem \cup {<<"qp", id>>, <<"send", id>>}

\* rping_bind_client wakes up; the QP and the send buffer are set up, a receive
\* is posted and rdma_connect is called.
CmainConnect ==
    LET id == cmain.i IN
    /\ ClientAt("bind") /\ cb[id].sem > 0 /\ cb[id].state = "ROUTE_RESOLVED"
    /\ cb' = [cb EXCEPT ![id].sem = @ - 1, ![id].state = "CONNECTING"]
    /\ rping_setup(id)
    /\ IF salive THEN /\ sev' = Append(sev, Event("CONNECT_REQUEST", id))
                      /\ UNCHANGED cev
                 ELSE /\ cev' = Append(cev, Event("REJECTED", id))
                      /\ UNCHANGED sev
    /\ cmain' = [cmain EXCEPT !.pc = "connect"]
    /\ UNCHANGED <<salive, list, lock, connections, disconnects, scm, est, smain,
                   qp_cfg_cnt, hwqp, smem, pa, blind, drv, s2c, c2s, calive, ccm, cdata,
                   done_cnt, chunk>>

\* rping_connect_client wakes up; if it failed, the QP is freed.
CmainConnected ==
    LET id == cmain.i
        ok == cb[id].state = "CONNECTED"
    IN
    /\ ClientAt("connect") /\ cb[id].sem > 0
    /\ cb' = [cb EXCEPT ![id].sem = @ - 1, ![id].est = ok]
    /\ done_cnt' = IF ok THEN done_cnt ELSE done_cnt + 1
    /\ cmem' = IF ok THEN cmem ELSE cmem \ {<<"qp", id>>}
    /\ cmain' = NextQp
    /\ UNCHANGED <<serverVars, drv, s2c, c2s, calive, ccm, cdata, cev, chunk>>

\* Faulty form: main ends when its last QP is connected.
NotWaited == TRUE

\* All QPs are done.
AllDone == done_cnt >= ClientQps

\* The buffers are freed and main returns.
CmainEnds ==
    /\ ClientAt("wait") /\ AllDone
    /\ ClientExit
    /\ UNCHANGED <<salive, list, lock, connections, disconnects, scm, est, smain,
                   qp_cfg_cnt, hwqp, smem, pa, blind, drv, s2c, c2s, ccm, cb, cmain, cdata,
                   cev, done_cnt, chunk>>
-----------------------------------------------------------------------------
(* The client: data_thread. *)

CdataNext == [pc |-> "look", i |-> (cdata.i % ClientQps) + 1]

CdataReady(j) == cb[j].est /\ ~cb[j].test_done

\* One entry of the table: the client waits for the parameters of a QP that is
\* established and was not tested.
CdataLook ==
    /\ calive /\ cdata.pc = "look"
    /\ cdata' = IF CdataReady(cdata.i) THEN [cdata EXCEPT !.pc = "poll"] ELSE CdataNext
    /\ UNCHANGED <<serverVars, drv, s2c, c2s, calive, ccm, cb, cmain, cev, done_cnt,
                   cmem, chunk>>

\* The parameters have arrived; other completions are thrown away.
poll_cq(id) == id \in s2c

\* rping_test_client: the server's parameters arrive, the RDMA buffer is set
\* aside (the first one serves all QPs with -c) and registered, and its key and
\* address are sent.
CdataExchange ==
    LET id == cdata.i
        shared == common_buf /\ chunk # NONE
    IN
    /\ calive /\ cdata.pc = "poll" /\ poll_cq(id)
    /\ chunk' = IF shared THEN chunk ELSE id
    /\ cmem' = IF shared THEN cmem ELSE cmem \cup {<<"rdma", id>>}
    /\ c2s' = c2s \cup {id}
    /\ cb' = [cb EXCEPT ![id].test_done = TRUE]
    /\ cdata' = CdataNext
    /\ UNCHANGED <<serverVars, drv, s2c, calive, ccm, cmain, cev, done_cnt>>

\* An allocation, the registration or the size test fails: nothing is sent, the
\* buffer of this QP is freed, and the QP counts as tested.
CdataFails ==
    LET id == cdata.i
        shared == common_buf /\ chunk # NONE
    IN
    /\ "client_alloc" \in Failures /\ calive /\ cdata.pc = "poll" /\ poll_cq(id)
    /\ chunk' = IF shared THEN chunk ELSE id
    /\ cb' = [cb EXCEPT ![id].test_done = TRUE]
    /\ cdata' = CdataNext
    /\ UNCHANGED <<serverVars, drv, s2c, c2s, calive, ccm, cmain, cev, done_cnt, cmem>>
-----------------------------------------------------------------------------
Ended ==
    /\ ~salive /\ ~calive
    /\ UNCHANGED vars

ServerCm == ScmListEvent \/ ScmDisconnected \/ ScmCheck
ServerEst == EstLock \/ EstVisit \/ EstUnlock
MainStep == MainVisit \/ MainConfigures \/ MainUnlock \/ MainEnable \/ MainReset
            \/ MainClean \/ MainReturns
ServerMain == MainLock \/ MainStep
ClientMain == CmainCreate \/ CmainConnect \/ CmainConnected \/ CmainEnds
ClientData == CdataLook \/ CdataExchange

Next ==
    \/ ServerCm \/ ServerEst \/ EstFails \/ ServerMain \/ MainPollFails
    \/ MainConfigFails \/ ServerKilled
    \/ CcmEvent \/ ClientMain \/ CmainCreateFails \/ ClientData \/ CdataFails
    \/ HwTestDone \/ Ended

Spec == Init /\ [][Next]_vars

(* Every thread is scheduled, the engine finishes its test.  Who waits for    *)
(* cm_list_lock may starve: run_server takes it again as soon as it has let   *)
(* go of it.                                                                  *)
Fairness ==
    /\ WF_vars(ServerCm) /\ WF_vars(ServerEst) /\ WF_vars(ServerMain)
    /\ WF_vars(CcmEvent) /\ WF_vars(ClientMain) /\ WF_vars(ClientData)
    /\ WF_vars(HwTestDone)

FairSpec == Spec /\ Fairness
-----------------------------------------------------------------------------
\* While the engine works on a QP, the ring it uses and the memory it reads are
\* allocated.  Where no other program holds QPs of the board, the connection it
\* was configured for is the one that owns the QP.  Where every context was
\* received, the buffer of the client it writes to and the client's QP are there.
EngineMemoryLive ==
    \A q \in drv.hsk :
        LET id == drv.eng[q] IN
        /\ id # NONE
        /\ <<"sq", id>> \in smem /\ <<"rdma", drv.data[q]>> \in smem
        /\ Taken = {} => hwqp[id] = q
        /\ blind = {} =>
              /\ <<"rdma", IF common_buf THEN chunk ELSE id>> \in cmem
              /\ <<"qp", id>> \in cmem

\* However the server ends, no QP stays in the handshake: the count of
\* configured QPs that hh_dev_close goes by covers the ones that were enabled.
NoQpLeftInHandshake == ~salive => drv.hsk = {}

\* "get SEND from the remote node" (test_server_rping): the server that has sent
\* its parameters, and holds cm_list_lock, gets the client's message.
MessageComes == (salive /\ smain.pc = "poll") ~> (~salive \/ smain.pc # "poll")
=============================================================================
