---------------------------- MODULE XibRecvQueue ----------------------------
(***************************************************************************)
(* The receive queue of a kernel QP of the ERNIC driver                    *)
(* (recipes-modules/xib-module).  A consumer posts receive work requests   *)
(* into the software ring rqe_list (xib_kernel_qp_post_recv); the hardware *)
(* lands frames in the ring of receive buffers and publishes its write     *)
(* pointer in a doorbell word; a poll of the completion queue              *)
(* (xib_poll_kernel_cq) first pops every new frame into the work requests  *)
(* (xib_pop_rq) and then reports them.                                     *)
(*                                                                         *)
(* post_recv runs under rq_lock and the poll under cq_lock, so the two run *)
(* concurrently with each other and with the hardware: the poll is a       *)
(* sequence of steps, numbered by poll.pc, between which anything else may *)
(* happen.  The chain of work requests of one post_recv call is a          *)
(* succession of PostRecv steps, one per iteration of its loop.            *)
(*                                                                         *)
(* Work requests and frames are named by their position, from 0, in the    *)
(* order the queue accepts them: wr_id is the caller's cookie, and two     *)
(* requests are told apart by it.                                          *)
(***************************************************************************)
EXTENDS Integers, Sequences

CONSTANTS
    rq_max_wr,    \* qp->rq.max_wr, the depth of the receive ring
    RecvCredit,   \* receives the consumer keeps posted and unreported
    MaxRecv,      \* bound: receives posted in a behaviour
    MaxEntries,   \* bound: num_entries of a poll
    ImmFrames     \* TRUE iff peers send frames with immediate data

ASSUME RecvQueueAssumption ==
    /\ rq_max_wr \in Nat \ {0}
    /\ RecvCredit \in Nat
    /\ MaxRecv \in Nat
    /\ MaxEntries \in Nat \ {0}
    /\ ImmFrames \in BOOLEAN

VARIABLES
    (* struct xib_rq *)
    prod,               \* next free entry of rqe_list
    cons,               \* next entry to report
    gsi_cons,           \* next entry to fill from the buffer ring
    rq_wrptr_db_local,  \* frames popped, as a ring position in 0..rq_max_wr
    rqe_list,           \* entry -> the work request stored in it
    (* memory shared with the hardware *)
    rq_buf,             \* receive buffer -> the frame in it
    rq_db,              \* the write pointer doorbell, qp1_rq_db_v[qpn]
    RQ_CONS_IDX,        \* the consumer index register
    (* immediate data, delivered beside the frames by AXI DMA *)
    rq_noti,            \* notifications not yet served by the DMA interrupt
    imm_inv_data,       \* entry -> the frame whose immediate is pending there
    (* the consumer *)
    sgl,                \* work request -> the frame copied to its buffers
    poll,               \* the poll in progress
    recv_wcs,           \* completions reported so far
    (* history *)
    posted,             \* receives accepted by post_recv
    arrived,            \* frames landed by the hardware
    popped              \* frames taken by xib_pop_rq

rqVars == <<prod, cons, gsi_cons, rq_wrptr_db_local, rqe_list>>
hwVars == <<rq_buf, rq_db, rq_noti, arrived>>
vars == <<prod, cons, gsi_cons, rq_wrptr_db_local, rqe_list, rq_buf, rq_db,
          RQ_CONS_IDX, rq_noti, imm_inv_data, sgl, poll, recv_wcs, posted,
          arrived, popped>>

Slots == 0 .. rq_max_wr - 1
NoWr == -1       \* a zeroed struct xib_rqe
NoFrame == -1    \* an empty buffer, or isvalid = false
delivered == Len(recv_wcs)
-----------------------------------------------------------------------------
(* The ring arithmetic of the driver. *)

\* Faulty forms: the increment wraps one entry early, or not at all.
RingIncEarly(i) == IF i + 2 >= rq_max_wr THEN 0 ELSE i + 1

RingIncNoWrap(i) == i + 1

\* xib_rq_prod_inc, xib_rq_cons_inc and xib_inc_sw_gsi_cons
RingInc(i) == (i + 1) % rq_max_wr

\* The position a free-running count n has in a pointer that runs over
\* 1..rq_max_wr after it leaves 0, as the hardware's write pointer and
\* rq_wrptr_db_local do (axidma.c indexes entry rq_pi_ptr - 1).
RingPtr(n) == IF n = 0 THEN 0 ELSE ((n - 1) % rq_max_wr) + 1

\* Faulty form: the case of a wrapped pointer is dropped.
GetRecdNoWrap(local, current) ==
    IF current <= local THEN 0 ELSE current - local

\* Faulty form: one frame too many when the pointer has wrapped.
GetRecdOffByOne(local, current) ==
    IF current = local THEN 0
    ELSE IF local > current THEN (current + rq_max_wr + 1) - local
    ELSE current - local

\* xib_get_rq_recd: frames between the local pointer and the doorbell.
xib_get_rq_recd(local, current) ==
    IF current = local THEN 0
    ELSE IF local > current THEN (current + rq_max_wr) - local
    ELSE current - local

\* Faulty form: the frames behind the end of the ring are not counted.
PendingNoWrap(rq_pi, rq_ci) ==
    IF rq_pi = rq_ci THEN 0
    ELSE IF rq_pi > rq_ci THEN rq_pi - rq_ci
    ELSE rq_pi

\* get_rq_pending_cnt: frames between the consumer index register and the
\* doorbell.
get_rq_pending_cnt(rq_pi, rq_ci) ==
    IF rq_pi = rq_ci THEN 0
    ELSE IF rq_pi > rq_ci THEN rq_pi - rq_ci
    ELSE (rq_max_wr - rq_ci) + rq_pi

\* The lazy wrap at the head of the loops: entry max_wr is entry 0.
WrapLocal(local) == IF local = rq_max_wr THEN 0 ELSE local

IdlePoll == [pc |-> "idle", recd |-> 0, loop |-> 0, i |-> 0, n |-> 0]
-----------------------------------------------------------------------------
Init ==
    /\ prod = 0 /\ cons = 0 /\ gsi_cons = 0 /\ rq_wrptr_db_local = 0
    /\ rqe_list = [s \in Slots |-> NoWr]
    /\ rq_buf = [s \in Slots |-> NoFrame]
    /\ rq_db = 0 /\ RQ_CONS_IDX = 0
    /\ rq_noti = << >>
    /\ imm_inv_data = [s \in Slots |-> NoFrame]
    /\ sgl = [w \in 0 .. MaxRecv - 1 |-> NoFrame]
    /\ poll = IdlePoll
    /\ recv_wcs = << >>
    /\ posted = 0 /\ arrived = 0 /\ popped = 0

\* One iteration of xib_kernel_qp_post_recv.  The consumer keeps at most
\* RecvCredit receives outstanding; the driver itself checks nothing.
PostRecv ==
    /\ posted < MaxRecv
    /\ posted - delivered < RecvCredit
    /\ rqe_list' = [rqe_list EXCEPT ![prod] = posted]
    /\ prod' = RingInc(prod)
    /\ posted' = posted + 1
    /\ UNCHANGED <<cons, gsi_cons, rq_wrptr_db_local, RQ_CONS_IDX,
                   imm_inv_data, sgl, poll, recv_wcs, popped, hwVars>>

\* The iteration of a request that does not fit the receive buffers, or has
\* too many segments: the entry is zeroed before the check rejects it.
PostRecvTooLong ==
    /\ posted < MaxRecv
    /\ posted - delivered < RecvCredit
    /\ rqe_list' = [rqe_list EXCEPT ![prod] = NoWr]
    /\ UNCHANGED <<prod, cons, gsi_cons, rq_wrptr_db_local, RQ_CONS_IDX,
                   imm_inv_data, sgl, poll, recv_wcs, posted, popped, hwVars>>

\* The hardware (external) lands a frame and moves its write pointer.  Peers
\* follow their protocol's flow control: a frame is sent to a posted receive.
HwReceive(imm) ==
    /\ arrived < posted
    /\ rq_buf' = [rq_buf EXCEPT ![arrived % rq_max_wr] = arrived]
    /\ rq_db' = RingPtr(arrived + 1)
    /\ rq_noti' = IF imm THEN Append(rq_noti, arrived) ELSE rq_noti
    /\ arrived' = arrived + 1
    /\ UNCHANGED <<rqVars, RQ_CONS_IDX, imm_inv_data, sgl, poll, recv_wcs,
                   posted, popped>>

\* The entry a notification is for.
NotiEntry(rq_pi_ptr) == rq_pi_ptr - 1

\* axidma_rq_recv: the DMA interrupt serves the completed notifications, each
\* naming the entry its frame landed in (rq_pi_ptr - 1).  It takes no lock of
\* the queue, so it runs between any two steps of a poll.
axidma_rq_recv ==
    /\ rq_noti # << >>
    /\ LET f == Head(rq_noti)
           rq_pi_ptr == RingPtr(f + 1)
       IN  imm_inv_data' = [imm_inv_data EXCEPT ![NotiEntry(rq_pi_ptr)] = f]
    /\ rq_noti' = Tail(rq_noti)
    /\ UNCHANGED <<rqVars, rq_buf, rq_db, RQ_CONS_IDX, sgl, poll, recv_wcs,
                   posted, arrived, popped>>
-----------------------------------------------------------------------------
(* xib_poll_kernel_cq, the receive half: xib_pop_rq, then the reports. *)

\* The poll takes cq_lock and xib_pop_rq reads the doorbell.
PollBegin(n) ==
    /\ poll.pc = "idle"
    /\ poll' = [pc |-> "copy", loop |-> 0, i |-> 0, n |-> n,
                recd |-> xib_get_rq_recd(rq_wrptr_db_local, rq_db)]
    /\ UNCHANGED <<rqVars, hwVars, RQ_CONS_IDX, imm_inv_data, sgl, recv_wcs,
                   posted, popped>>

\* Faulty form: the request to fill is looked up with the cursor of the
\* reports.
RequestAtCons == rqe_list[cons]

\* The request that takes the next frame.
RequestToFill == rqe_list[gsi_cons]

\* The frame at the local pointer is copied into the next work request.
PopCopy ==
    /\ poll.pc = "copy" /\ poll.loop < poll.recd
    /\ rq_wrptr_db_local' = WrapLocal(rq_wrptr_db_local)
    /\ LET w == RequestToFill
       IN  sgl' = IF w = NoWr THEN sgl   \* num_sge = 0: nothing is copied
                  ELSE [sgl EXCEPT ![w] = rq_buf[rq_wrptr_db_local']]
    /\ poll' = [poll EXCEPT !.pc = "consume"]
    /\ UNCHANGED <<prod, cons, gsi_cons, rqe_list, hwVars, RQ_CONS_IDX,
                   imm_inv_data, recv_wcs, posted, popped>>

\* The cursors move and the buffer is given back to the hardware.
PopConsume ==
    /\ poll.pc = "consume"
    /\ gsi_cons' = RingInc(gsi_cons)
    /\ rq_wrptr_db_local' = rq_wrptr_db_local + 1
    /\ RQ_CONS_IDX' = rq_wrptr_db_local'
    /\ popped' = popped + 1
    /\ poll' = [poll EXCEPT !.pc = "copy", !.loop = @ + 1]
    /\ UNCHANGED <<prod, cons, rqe_list, hwVars, imm_inv_data, sgl, recv_wcs,
                   posted>>

PopDone ==
    /\ poll.pc = "copy" /\ poll.loop >= poll.recd
    /\ poll' = [poll EXCEPT !.pc = "report"]
    /\ UNCHANGED <<rqVars, hwVars, RQ_CONS_IDX, imm_inv_data, sgl, recv_wcs,
                   posted, popped>>

\* Faulty form: a reported immediate stays valid.
KeepImm == imm_inv_data

\* isvalid = false
TakeImm == [imm_inv_data EXCEPT ![cons] = NoFrame]

\* One completion: the request of the entry, the data its buffers now hold
\* and the immediate recorded for the entry, which is taken.
Report ==
    /\ poll.pc = "report" /\ poll.i < poll.n /\ cons # gsi_cons
    /\ LET w == rqe_list[cons]
       IN  recv_wcs' = Append(recv_wcs,
                [wr_id |-> w,
                 data  |-> IF w = NoWr THEN NoFrame ELSE sgl[w],
                 imm   |-> imm_inv_data[cons]])
    /\ imm_inv_data' = TakeImm
    /\ cons' = RingInc(cons)
    /\ poll' = [poll EXCEPT !.i = @ + 1]
    /\ UNCHANGED <<prod, gsi_cons, rq_wrptr_db_local, rqe_list, hwVars,
                   RQ_CONS_IDX, sgl, posted, popped>>

\* The receive half is done: the budget is spent or nothing is left.
ReportDone ==
    /\ poll.pc = "report" /\ (poll.i >= poll.n \/ cons = gsi_cons)
    /\ poll' = IdlePoll
    /\ UNCHANGED <<rqVars, hwVars, RQ_CONS_IDX, imm_inv_data, sgl, recv_wcs,
                   posted, popped>>
-----------------------------------------------------------------------------
PollStep == PopCopy \/ PopConsume \/ PopDone \/ Report \/ ReportDone

Next ==
    \/ PostRecv
    \/ PostRecvTooLong
    \/ \E imm \in {FALSE, ImmFrames} : HwReceive(imm)
    \/ axidma_rq_recv
    \/ \E n \in 1 .. MaxEntries : PollBegin(n)
    \/ PollStep

Spec == Init /\ [][Next]_vars

(* The completion handler polls again after every interrupt (comp_handler) *)
(* and a poll that began runs to its end under cq_lock.                    *)
Fairness ==
    /\ WF_vars(PollStep)
    /\ WF_vars(\E n \in 1 .. MaxEntries : PollBegin(n))

FairSpec == Spec /\ Fairness
-----------------------------------------------------------------------------
(* Properties.  They hold when RecvCredit < rq_max_wr.  With as many receives *)
(* outstanding as the ring has entries, a full ring looks like an empty one   *)
(* to xib_get_rq_recd and to the test cons # gsi_cons.                        *)

WcType == [wr_id : Int, data : Int, imm : Int]

PollType ==
    [pc : {"idle", "copy", "consume", "report"},
     recd : Int, loop : Nat, i : Nat, n : Nat]

\* Every variable keeps its type: the cursors stay inside the ring that the
\* code indexes with them.
TypeOK ==
    /\ prod \in Slots /\ cons \in Slots /\ gsi_cons \in Slots
    /\ rq_wrptr_db_local \in 0 .. rq_max_wr
    /\ rqe_list \in [Slots -> Int]
    /\ rq_buf \in [Slots -> Int]
    /\ rq_db \in 0 .. rq_max_wr
    /\ RQ_CONS_IDX \in 0 .. rq_max_wr
    /\ rq_noti \in Seq(Nat)
    /\ imm_inv_data \in [Slots -> Int]
    /\ sgl \in [0 .. MaxRecv - 1 -> Int]
    /\ poll \in PollType
    /\ recv_wcs \in Seq(WcType)
    /\ posted \in Nat /\ arrived \in Nat /\ popped \in Nat

\* Receives complete in posting order, each once, and each reports the frame
\* the peer sent to it: the wc of xib_poll_kernel_cq names the oldest
\* unreported request and its buffers hold that request's frame, whatever
\* post_recv and the hardware did between the steps of the poll.
RecvInOrder ==
    \A k \in 1 .. delivered :
        recv_wcs[k].wr_id = k - 1 /\ recv_wcs[k].data = k - 1

\* xib_pop_rq never pops a frame that has not landed: what a poll still has
\* to pop is among the frames behind the doorbell it read.
NoPhantomFrame ==
    poll.pc = "copy" => popped + (poll.recd - poll.loop) <= arrived

\* No ring entry is reused while it is in use: the entries of unreported
\* receives still hold them (post_recv does not overrun the reports), and the
\* buffers not yet given back through RQ_CONS_IDX still hold their frames.
NoEntryOverrun ==
    /\ \A k \in delivered .. posted - 1 : rqe_list[k % rq_max_wr] = k
    /\ \A f \in popped .. arrived - 1 : rq_buf[f % rq_max_wr] = f

\* The consumer index register and the doorbell tell the hardware and
\* get_rq_pending_cnt exactly how many frames are unprocessed, across every
\* wrap of either pointer, even between the copy of a frame and the
\* update of the register.
PendingCountExact == get_rq_pending_cnt(rq_db, RQ_CONS_IDX) = arrived - popped

\* An immediate is reported at most once (isvalid is taken by the report),
\* although the DMA interrupt may record it before or after its frame is
\* reported.
ImmAtMostOnce ==
    \A j, k \in 1 .. delivered :
        recv_wcs[j].imm = recv_wcs[k].imm /\ recv_wcs[j].imm # NoFrame => j = k

\* An immediate is reported with its own frame or, when the DMA interrupt is
\* served late, with a later frame of the same ring entry: never before its
\* frame and never on another entry.
ImmFromSameEntry ==
    \A k \in 1 .. delivered :
        recv_wcs[k].imm # NoFrame =>
            /\ recv_wcs[k].imm <= recv_wcs[k].data
            /\ (recv_wcs[k].data - recv_wcs[k].imm) % rq_max_wr = 0

\* The immediates of imm_inv_data reach the consumer once, never early and never
\* on another ring entry, however late the interrupt of the DMA is served.
ImmExact == ImmAtMostOnce /\ ImmFromSameEntry
=============================================================================
