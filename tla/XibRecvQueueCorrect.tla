------------------------ MODULE XibRecvQueueCorrect -------------------------
(***************************************************************************)
(* Why the kernel QP's receive queue is correct: the inductive invariant   *)
(* behind its safety properties, and the refinement mapping under which it *)
(* implements RecvService.  Both need a consumer that leaves one entry of  *)
(* the ring free.                                                          *)
(***************************************************************************)
EXTENDS XibRecvQueue

ASSUME CreditAssumption == RecvCredit < rq_max_wr
-----------------------------------------------------------------------------
(* The inductive invariant.  Each cursor is the remainder of a history     *)
(* counter, and the counters are never a full turn of the ring apart.      *)

PollInv ==
    /\ poll.loop <= poll.recd
    /\ poll.pc = "consume" => poll.loop < poll.recd
    /\ poll.pc \in {"copy", "consume"} =>
           popped + (poll.recd - poll.loop) <= arrived

CounterInv ==
    /\ delivered <= popped /\ popped <= arrived /\ arrived <= posted
    /\ posted <= delivered + RecvCredit
    /\ posted <= MaxRecv

CursorInv ==
    /\ prod = posted % rq_max_wr
    /\ cons = delivered % rq_max_wr
    /\ gsi_cons = popped % rq_max_wr
    /\ rq_db = RingPtr(arrived)
    /\ RQ_CONS_IDX = RingPtr(popped)
    /\ rq_wrptr_db_local = IF poll.pc = "consume" THEN popped % rq_max_wr
                                                  ELSE RingPtr(popped)

\* What is stored where: requests in the ring, frames in the buffers until
\* they are popped and in the buffers of their requests afterwards.
RequestInv == \A k \in delivered .. posted - 1 : rqe_list[k % rq_max_wr] = k

FrameInv == \A f \in popped .. arrived - 1 : rq_buf[f % rq_max_wr] = f

CopyInv ==
    /\ \A f \in delivered .. popped - 1 : sgl[f] = f
    /\ poll.pc = "consume" => sgl[popped] = popped

IInv ==
    /\ TypeOK
    /\ CounterInv
    /\ CursorInv
    /\ PollInv
    /\ RequestInv
    /\ FrameInv
    /\ CopyInv
    /\ RecvInOrder
-----------------------------------------------------------------------------
(* The immediates.  The interrupt serves the notifications in the order of *)
(* their frames, so that what it recorded, or what was reported, is older  *)
(* than every notification that waits.                                     *)

NotiInv ==
    /\ \A i \in 1 .. Len(rq_noti) : rq_noti[i] < arrived
    /\ \A i, j \in 1 .. Len(rq_noti) : i < j => rq_noti[i] < rq_noti[j]

\* An immediate waits in the entry of its frame, and is not reported yet.
EntryInv ==
    \A s \in Slots : imm_inv_data[s] # NoFrame =>
        /\ imm_inv_data[s] \in 0 .. arrived - 1
        /\ imm_inv_data[s] % rq_max_wr = s
        /\ \A i \in 1 .. Len(rq_noti) : imm_inv_data[s] < rq_noti[i]
        /\ \A k \in 1 .. delivered : recv_wcs[k].imm # imm_inv_data[s]

ReportedInv ==
    \A k \in 1 .. delivered : \A i \in 1 .. Len(rq_noti) : recv_wcs[k].imm < rq_noti[i]

ImmInv == NotiInv /\ EntryInv /\ ReportedInv /\ ImmExact
-----------------------------------------------------------------------------
(* The refinement mapping.  The pending receives are read from rqe_list at *)
(* the driver's own cursors, the frames from the buffers of the requests   *)
(* they were copied to or, when they were not popped yet, from the ring of *)
(* receive buffers at the driver's local pointer.                          *)

\* The ring entry j places after entry e.
EntryAfter(e, j) == (e + j) % rq_max_wr

PendingRequests ==
    [j \in 1 .. posted - delivered |-> rqe_list[EntryAfter(cons, j - 1)]]

InboxFrames ==
    [j \in 1 .. arrived - delivered |->
        IF j <= popped - delivered
          THEN sgl[rqe_list[EntryAfter(cons, j - 1)]]
          ELSE rq_buf[EntryAfter(rq_wrptr_db_local,
                                 j - (popped - delivered) - 1)]]

Reports ==
    [k \in 1 .. delivered |->
        [wr_id |-> recv_wcs[k].wr_id, data |-> recv_wcs[k].data]]

Service == INSTANCE RecvService WITH
    Requests <- 0 .. MaxRecv - 1,
    Frames   <- 0 .. MaxRecv - 1,
    pending  <- PendingRequests,
    inbox    <- InboxFrames,
    done     <- Reports

\* Every step of post_recv, of the hardware and of the poll is a step of the
\* service or invisible to its users (in particular xib_pop_rq's copy and its
\* moves of the cursors are, in every interleaving), and the poll reports every
\* frame the service owes its consumer: a wrap of a pointer loses none.
ImplementsFairRecvService == Service!FairSpec
=============================================================================
