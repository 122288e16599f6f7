------------------------------- MODULE XibGsi -------------------------------
(***************************************************************************)
(* The GSI QP (QP1), which carries the management datagrams: post_recv and *)
(* xib_gsi_post_send of the MAD layer, the tasklet xib_gsi_comp_handler,   *)
(* xib_gsi_poll_cq, and the congestion notifications that other QPs send   *)
(* through it (send_out_cnp).                                              *)
(*                                                                         *)
(* The tasklet, the poll (cq_lock), a post (sq_lock) and the hardware run  *)
(* concurrently.  Receives and datagrams are numbered in order, and so are *)
(* the requests to send; the content of a frame is the number of its       *)
(* request.  All frames are built in one buffer, send_sgl, that the        *)
(* hardware reads when it executes the element.                            *)
(***************************************************************************)
EXTENDS Integers, Sequences

CONSTANTS
    max_wr,        \* depth of both rings
    RecvCredit,    \* datagrams the peers keep in flight towards QP1
    Cnp,           \* congestion notifications are sent
    MaxRecv, MaxSend, MaxChain, MaxEntries   \* bounds

VARIABLES
    (* struct xib_rq *)
    prod, cons, gsi_cons, rq_wrptr_db_local,
    rqe_list,      \* entry -> [wr_id, frame]: the request and what was copied
    (* the receive ring of the hardware *)
    rq_buf, rq_db, arrived,
    hdl,           \* the tasklet: scheduled, and the frames it has left
    (* struct xib_sq *)
    sq_cmpl_db_local, send_cq_db_local, wr_id_array,
    sqd_wr_list, state,
    send_sgl,      \* the content of the buffer
    (* the send ring of the hardware *)
    SQ_PROD_IDX, CQ_HEAD_PTR, cqe_err,
    post, poll,    \* the calls in progress
    (* what the MAD layer and the wire saw *)
    posted,        \* receives posted
    offered,       \* sends offered
    recv_wcs, send_wcs, flush_wcs,
    sent,          \* [wr_id, signaled] per element handed to the hardware
    wire,          \* [frame, err] per element the hardware executed
    reaped,        \* completions passed by the poll
    (* history: what the properties are stated up to *)
    rewound,       \* the tasklet counted a whole turn of the ring again
    full           \* an entry of the send ring was reused before it was polled

recvVars == <<prod, cons, gsi_cons, rq_wrptr_db_local, rqe_list, rq_buf, rq_db,
              arrived, hdl, posted, recv_wcs, rewound>>
ringVars == <<sq_cmpl_db_local, wr_id_array, send_sgl, SQ_PROD_IDX, sent, full>>
hwSendVars == <<CQ_HEAD_PTR, cqe_err, wire>>
sqdVars == <<sqd_wr_list, flush_wcs, state>>
reapVars == <<send_cq_db_local, send_wcs, reaped>>
vars == <<recvVars, ringVars, hwSendVars, sqdVars, reapVars, post, poll, offered>>

Slots == 0 .. max_wr - 1
CNP == -1   \* the content of a congestion notification

Init ==
    /\ prod = 0 /\ cons = 0 /\ gsi_cons = 0 /\ rq_wrptr_db_local = 0
    /\ rqe_list = [s \in Slots |-> [wr_id |-> 0, frame |-> 0]]
    /\ rq_buf = [s \in Slots |-> 0] /\ rq_db = 0 /\ arrived = 0
    /\ hdl = [sched |-> FALSE, left |-> 0]
    /\ sq_cmpl_db_local = 0 /\ send_cq_db_local = 0
    /\ wr_id_array = [s \in Slots |-> [wr_id |-> 0, signaled |-> FALSE]]
    /\ sqd_wr_list = << >> /\ state = "RTS" /\ send_sgl = 0
    /\ SQ_PROD_IDX = 0 /\ CQ_HEAD_PTR = 0 /\ cqe_err = [s \in Slots |-> FALSE]
    /\ post = 0 /\ poll = [pc |-> "idle", i |-> 0, n |-> 0, head |-> 0]
    /\ posted = 0 /\ offered = 0 /\ recv_wcs = << >> /\ send_wcs = << >>
    /\ flush_wcs = << >> /\ sent = << >> /\ wire = << >> /\ reaped = 0
    /\ rewound = FALSE /\ full = FALSE

RingInc(n) == (n + 1) % max_wr

\* A free-running count as a pointer over 1..max_wr.
RingPtr(n) == IF n = 0 THEN 0 ELSE ((n - 1) % max_wr) + 1
-----------------------------------------------------------------------------
(* Receiving. *)

\* xib_kernel_qp_post_recv stores the request at prod.
PostRecv ==
    /\ posted < MaxRecv /\ posted - Len(recv_wcs) < max_wr - 1
    /\ rqe_list' = [rqe_list EXCEPT ![prod].wr_id = posted + 1]
    /\ prod' = RingInc(prod)
    /\ posted' = posted + 1
    /\ UNCHANGED <<cons, gsi_cons, rq_wrptr_db_local, rq_buf, rq_db, arrived, hdl,
                   recv_wcs, rewound, ringVars, hwSendVars, sqdVars, reapVars, post, poll,
                   offered>>

\* A datagram lands, the write pointer moves, over 1..max_wr as for the other
\* QPs, and the interrupt schedules the tasklet.  The peers never have more
\* datagrams in flight than receives wait.
HwDatagram ==
    /\ arrived < posted /\ arrived - Len(recv_wcs) < RecvCredit
    /\ rq_buf' = [rq_buf EXCEPT ![arrived % max_wr] = arrived + 1]
    /\ arrived' = arrived + 1
    /\ rq_db' = RingPtr(arrived + 1)
    /\ hdl' = [hdl EXCEPT !.sched = TRUE]
    /\ UNCHANGED <<prod, cons, gsi_cons, rq_wrptr_db_local, rqe_list, posted,
                   recv_wcs, rewound, ringVars, hwSendVars, sqdVars, reapVars, post, poll,
                   offered>>

xib_get_rq_recd(local, current) ==
    IF local > current THEN (current + max_wr) - local ELSE current - local

\* xib_gsi_comp_handler starts: the number of new frames is read once.  With
\* the local pointer back at 0 while the hardware's stands at max_wr, where the
\* last frame of the turn left it, the whole turn is counted again.
HandlerBegin ==
    /\ hdl.sched /\ hdl.left = 0
    /\ hdl' = [sched |-> FALSE, left |-> xib_get_rq_recd(rq_wrptr_db_local, rq_db)]
    /\ rewound' = (rewound \/ (rq_wrptr_db_local = 0 /\ rq_db = max_wr))
    /\ UNCHANGED <<prod, cons, gsi_cons, rq_wrptr_db_local, rqe_list, rq_buf, rq_db,
                   arrived, posted, recv_wcs, ringVars, hwSendVars, sqdVars,
                   reapVars, post, poll, offered>>

\* Faulty form: the local pointer returns to 0 one entry late.
ResetLate(local) == IF local = max_wr + 1 THEN 0 ELSE local

\* The local pointer returns to 0 as soon as it reaches max_wr.
EagerReset(local) == IF local = max_wr THEN 0 ELSE local

\* One frame: it is copied to the request at gsi_cons, both pointers move and
\* the handler of the receive queue is called.
HandlerFrame ==
    LET slot == IF rq_wrptr_db_local >= max_wr THEN rq_wrptr_db_local - max_wr
                ELSE rq_wrptr_db_local
    IN
    /\ hdl.left > 0
    /\ rqe_list' = [rqe_list EXCEPT ![gsi_cons].frame = rq_buf[slot]]
    /\ gsi_cons' = RingInc(gsi_cons)
    /\ rq_wrptr_db_local' = EagerReset(rq_wrptr_db_local + 1)
    /\ hdl' = [hdl EXCEPT !.left = @ - 1]
    /\ UNCHANGED <<prod, cons, rq_buf, rq_db, arrived, posted, recv_wcs, rewound, ringVars,
                   hwSendVars, sqdVars, reapVars, post, poll, offered>>
-----------------------------------------------------------------------------
(* Sending. *)

xib_modify_qp(new) ==
    /\ state' = new /\ state # new
    /\ UNCHANGED <<recvVars, ringVars, hwSendVars, sqd_wr_list, flush_wcs, reapVars,
                   post, poll, offered>>

\* sq_lock is free.
SqLockFree == post = 0

\* Bound: requests and notifications together.
Spare(n) == offered + Len(SelectSeq(sent, LAMBDA r : r.wr_id = CNP)) + n <= MaxSend

\* xib_gsi_post_send takes sq_lock; in state RTS the chain is sent, request by
\* request.  The test of send_sgl_busy before it never fails, since nothing
\* sets that flag, and there is no test of a full ring.  Other operations than
\* a send change nothing.
PostBegin(n) ==
    /\ SqLockFree /\ state = "RTS" /\ Spare(n)
    /\ post' = n
    /\ UNCHANGED <<recvVars, ringVars, hwSendVars, sqdVars, reapVars, poll, offered>>

\* The entry at the local index is written while a completion of it is still to
\* be polled.
FillsRing == full' = (full \/ Len(sent) - reaped >= max_wr)

\* xrnic_send_wr: the element at the local index is handed to the hardware.
Ring(req) ==
    /\ SQ_PROD_IDX' = sq_cmpl_db_local + 1
    /\ sq_cmpl_db_local' = RingInc(sq_cmpl_db_local)
    /\ sent' = Append(sent, req)

\* xib_prepare_sgl copies the data of the request behind the headers.
xib_prepare_sgl(id) == send_sgl' = id

\* One request of the chain: its id is stored, the headers and the data are
\* packed into send_sgl (xib_build_qp1_send_v2, xib_prepare_sgl), and the
\* doorbell is rung.
PostWr(signaled) ==
    LET id == offered + 1 IN
    /\ post > 0
    /\ wr_id_array' = [wr_id_array EXCEPT ![sq_cmpl_db_local] =
                         [wr_id |-> id, signaled |-> signaled]]
    /\ xib_prepare_sgl(id) /\ FillsRing
    /\ Ring([wr_id |-> id, signaled |-> signaled])
    /\ offered' = id /\ post' = post - 1
    /\ UNCHANGED <<recvVars, hwSendVars, sqdVars, reapVars, poll>>

\* The headers cannot be built (no GRH, no source GID, not RoCE v2): the call
\* ends with the id already stored.
PostWrFails(signaled) ==
    /\ post > 0
    /\ wr_id_array' = [wr_id_array EXCEPT ![sq_cmpl_db_local] =
                         [wr_id |-> offered + 1, signaled |-> signaled]]
    /\ offered' = offered + 1 /\ post' = 0 /\ FillsRing
    /\ UNCHANGED <<recvVars, sq_cmpl_db_local, send_sgl, SQ_PROD_IDX, sent,
                   hwSendVars, sqdVars, reapVars, poll>>

\* In state SQD the requests the list has room for are linked.
PostSqd(n) ==
    LET room == max_wr - Len(sqd_wr_list)
        k    == IF n < room THEN n ELSE room
    IN
    /\ SqLockFree /\ state = "SQD" /\ Spare(n)
    /\ poll.pc # "flush"
    /\ sqd_wr_list' = sqd_wr_list \o [j \in 1 .. k |-> offered + j]
    /\ offered' = offered + n
    /\ UNCHANGED <<recvVars, ringVars, hwSendVars, flush_wcs, state, reapVars, post,
                   poll>>

\* send_out_cnp, from the tasklet of another QP: the notification is built in
\* send_sgl and posted under sq_lock; wr_id_array keeps what it had.
send_out_cnp ==
    /\ Cnp /\ SqLockFree /\ Spare(1)
    /\ send_sgl' = CNP /\ FillsRing
    /\ Ring([wr_id |-> CNP, signaled |-> FALSE])
    /\ UNCHANGED <<recvVars, wr_id_array, hwSendVars, sqdVars, reapVars, post, poll,
                   offered>>

\* The hardware sends the content of the buffer the element points at, writes
\* the completion and, through the interrupt, schedules the tasklet.
HwSend(err) ==
    LET done == Len(wire) IN
    /\ RingPtr(done) # SQ_PROD_IDX
    /\ wire' = Append(wire, [frame |-> send_sgl, err |-> err])
    /\ cqe_err' = [cqe_err EXCEPT ![done % max_wr] = err]
    /\ CQ_HEAD_PTR' = RingPtr(done + 1)
    /\ hdl' = [hdl EXCEPT !.sched = TRUE]
    /\ UNCHANGED <<prod, cons, gsi_cons, rq_wrptr_db_local, rqe_list, rq_buf, rq_db,
                   arrived, posted, recv_wcs, rewound, ringVars, sqdVars, reapVars, post,
                   poll, offered>>
-----------------------------------------------------------------------------
(* xib_gsi_poll_cq *)

Budget == poll.i < poll.n

PollBegin(n) ==
    /\ poll.pc = "idle"
    /\ poll' = [pc |-> "recv", i |-> 0, n |-> n, head |-> 0]
    /\ UNCHANGED <<recvVars, ringVars, hwSendVars, sqdVars, reapVars, post, offered>>

\* The receive completions up to gsi_cons.
PollRecv ==
    /\ poll.pc = "recv" /\ Budget /\ cons # gsi_cons
    /\ recv_wcs' = Append(recv_wcs, rqe_list[cons])
    /\ cons' = RingInc(cons)
    /\ poll' = [poll EXCEPT !.i = @ + 1]
    /\ UNCHANGED <<prod, gsi_cons, rq_wrptr_db_local, rqe_list, rq_buf, rq_db, arrived,
                   hdl, posted, rewound, ringVars, hwSendVars, sqdVars, reapVars, post,
                   offered>>

\* The completion head is read once.
PollRecvDone ==
    /\ poll.pc = "recv" /\ (Budget => cons = gsi_cons)
    /\ poll' = [poll EXCEPT !.pc = "send", !.head = CQ_HEAD_PTR]
    /\ UNCHANGED <<recvVars, ringVars, hwSendVars, sqdVars, reapVars, post, offered>>

\* Faulty form: an unsignaled send is reported.
ReportsEvery(s) == TRUE

\* A signaled send that succeeded is reported; the wc of a failed one is filled
\* and left, so the next completion takes its place.
ReportsSend(s) == wr_id_array[s].signaled /\ ~cqe_err[s]

PollSend ==
    LET slot == IF send_cq_db_local = max_wr THEN 0 ELSE send_cq_db_local IN
    /\ poll.pc = "send" /\ Budget /\ send_cq_db_local # poll.head
    /\ send_cq_db_local' = slot + 1
    /\ reaped' = reaped + 1
    /\ IF ReportsSend(slot)
         THEN /\ send_wcs' = Append(send_wcs, [wr_id |-> wr_id_array[slot].wr_id,
                                               elem |-> reaped + 1])
              /\ poll' = [poll EXCEPT !.i = @ + 1]
         ELSE UNCHANGED <<send_wcs, poll>>
    /\ UNCHANGED <<recvVars, ringVars, hwSendVars, sqdVars, post, offered>>

PollSendDone ==
    /\ poll.pc = "send" /\ (Budget => send_cq_db_local = poll.head)
    /\ poll' = [poll EXCEPT !.pc = "flush"]
    /\ UNCHANGED <<recvVars, ringVars, hwSendVars, sqdVars, reapVars, post, offered>>

\* The requests of the SQD list the budget allows are flushed.
PollFlush ==
    LET room == poll.n - poll.i
        k    == IF Len(sqd_wr_list) < room THEN Len(sqd_wr_list) ELSE room
    IN
    /\ poll.pc = "flush"
    /\ flush_wcs' = flush_wcs \o SubSeq(sqd_wr_list, 1, k)
    /\ sqd_wr_list' = SubSeq(sqd_wr_list, k + 1, Len(sqd_wr_list))
    /\ poll' = [poll EXCEPT !.pc = "idle", !.i = 0, !.n = 0, !.head = 0]
    /\ UNCHANGED <<recvVars, ringVars, hwSendVars, state, reapVars, post, offered>>
-----------------------------------------------------------------------------
Handler == HandlerBegin \/ HandlerFrame
PollStep == PollRecv \/ PollRecvDone \/ PollSend \/ PollSendDone \/ PollFlush

Next ==
    \/ PostRecv \/ HwDatagram \/ Handler
    \/ \E new \in {"RTS", "SQD"} : xib_modify_qp(new)
    \/ \E n \in 1 .. MaxChain : PostBegin(n) \/ PostSqd(n)
    \/ \E signaled \in BOOLEAN : PostWr(signaled) \/ PostWrFails(signaled)
    \/ send_out_cnp
    \/ \E err \in BOOLEAN : HwSend(err)
    \/ \E n \in 1 .. MaxEntries : PollBegin(n)
    \/ PollStep

Spec == Init /\ [][Next]_vars

-----------------------------------------------------------------------------
\* Management datagrams reach the MAD layer once each, in order, and in the
\* receives posted for them, whatever the tasklet and the poll interleave with.
MadsInOrder ==
    \A k \in 1 .. Len(recv_wcs) : recv_wcs[k] = [wr_id |-> k, frame |-> k]

\* No datagram is left behind: when the tasklet is done, the receives between
\* cons and gsi_cons, which the next poll reports, are those of all datagrams
\* that landed and were not reported, across the wrap of every pointer.
NoMadLeftBehind ==
    ~hdl.sched /\ hdl.left = 0 =>
        (gsi_cons + max_wr - cons) % max_wr = arrived - Len(recv_wcs)

\* Both hold until the tasklet counts a whole turn of the ring again: the eager
\* reset of rq_wrptr_db_local (rnic.c:454) makes no frame up before that.
MadsExact == ~rewound => MadsInOrder /\ NoMadLeftBehind

\* Element k is a request of the MAD layer that is to be reported.
ToReport(k) == sent[k].wr_id # CNP /\ sent[k].signaled /\ ~wire[k].err

\* Every signaled request that succeeded and that the poll has passed is
\* reported, once, in posting order and by its own id; what else is reported
\* stems from congestion notifications, whose entries keep the id they had.
SendsReported ==
    /\ \A j, k \in 1 .. Len(send_wcs) : j < k => send_wcs[j].elem < send_wcs[k].elem
    /\ \A j \in 1 .. Len(send_wcs) :
          LET k == send_wcs[j].elem IN
          /\ k \in 1 .. reaped
          /\ sent[k].wr_id = CNP \/ (ToReport(k) /\ sent[k].wr_id = send_wcs[j].wr_id)
    /\ \A k \in 1 .. reaped :
          ToReport(k) => \E j \in 1 .. Len(send_wcs) : send_wcs[j].elem = k

\* So it is as long as no entry of the ring is reused before it was polled.
SendsReportedInOrder == ~full => SendsReported
=============================================================================
