---------------------------- MODULE XibSendQueue ----------------------------
(***************************************************************************)
(* The send queue of a kernel QP of the ERNIC driver: __xib_post_send with *)
(* xrnic_send_wr, the hardware, and the send half of xib_poll_kernel_cq.   *)
(*                                                                         *)
(* post_send runs under sq_lock and the poll under cq_lock: the two        *)
(* interleave with each other and with the hardware.  A post_send call is  *)
(* two steps per work request of its chain (fill the entry, ring the       *)
(* doorbell); a poll is one step per completion.                           *)
(*                                                                         *)
(* In state SQD the requests are kept on a list that the next poll flushes *)
(* with IB_WC_WR_FLUSH_ERR.  That list has no common lock: it is modelled  *)
(* for consumers that post and poll from one context (ConcurrentPost =     *)
(* FALSE), as the completion worker of xkperftest_server.c does.           *)
(*                                                                         *)
(* A request is named by its number in the order it is offered, and so is  *)
(* the staging buffer allocated for it.                                    *)
(***************************************************************************)
EXTENDS Integers, Sequences

CONSTANTS
    sq_max_wr,       \* qp->sq.max_wr, the depth of the send ring
    SendCredit,      \* ring entries the consumer keeps occupied at most
    MaxSend,         \* bound: requests offered in a behaviour
    MaxChain,        \* bound: length of a chain of requests
    MaxEntries,      \* bound: num_entries of a poll
    Opcodes,         \* the operations the consumer uses
    QpStates,        \* the states the consumer moves the QP through
    ConcurrentPost,  \* FALSE iff the consumer posts and polls in one context
    SqMemIsPs,       \* module parameter sq_mem = "ps" (the default is "pl")
    Failures         \* how a request may fail: "ENOMEM", "EINVAL"

IbOpcodes == {"IB_WR_SEND", "IB_WR_RDMA_READ", "IB_WR_RDMA_WRITE",
              "IB_WR_LOCAL_INV"}

\* What the constants may be.
ConstantsOK ==
    /\ sq_max_wr \in Nat \ {0}
    /\ SendCredit \in Nat
    /\ MaxSend \in Nat
    /\ MaxChain \in Nat \ {0}
    /\ MaxEntries \in Nat \ {0}
    /\ Opcodes \subseteq IbOpcodes
    /\ QpStates \subseteq {"RTS", "SQD", "ERR"}
    /\ ConcurrentPost \in BOOLEAN
    /\ SqMemIsPs \in BOOLEAN
    /\ Failures \subseteq {"ENOMEM", "EINVAL"}
    /\ "SQD" \in QpStates => ~ConcurrentPost

VARIABLES
    state,             \* qp->state
    (* struct xib_sq *)
    sq_cmpl_db_local,  \* next free entry of the ring
    send_cq_db_local,  \* completions reaped, as a position in 0..sq_max_wr
    wr_id_array,       \* entry -> [wr_id, signaled]
    pl_buf_list,       \* entry -> the staging buffer last stored in it
    sqd_wr_list,       \* requests posted in state SQD
    sqd_length,
    post_send_count, sq_polled_count,
    sq_drained,        \* complete(&qp->sq_drained) was called
    (* memory and registers shared with the hardware *)
    wqe,               \* entry -> the work queue element, [wr_id, opcode]
    cqe,               \* entry -> the completion queue element, [opcode, err]
    SQ_PROD_IDX, CQ_HEAD_PTR,
    (* the callers *)
    post,              \* the post_send call in progress, which holds sq_lock
    poll,              \* the poll in progress, which holds cq_lock
    bufs,              \* staging buffers allocated and not freed
    send_wcs,          \* completions reported for ring entries
    flush_wcs,         \* requests reported with IB_WC_WR_FLUSH_ERR
    (* history *)
    offered,           \* requests offered so far
    sent,              \* requests handed to the hardware, in order
    executed,          \* elements the hardware completed, in order
    reaped,            \* completions passed by the poll
    accepted_sqd,      \* requests of calls that returned 0 in state SQD
    bad_free           \* xib_free_coherent got a buffer that is not allocated

ringVars == <<sq_cmpl_db_local, wr_id_array, pl_buf_list, wqe, SQ_PROD_IDX>>
hwVars == <<cqe, CQ_HEAD_PTR, executed>>
sqdVars == <<sqd_wr_list, sqd_length, flush_wcs, accepted_sqd>>
reapVars == <<send_cq_db_local, sq_polled_count, sq_drained, send_wcs, reaped,
              bad_free>>
vars == <<state, ringVars, hwVars, sqdVars, reapVars, post_send_count, post,
          poll, bufs, offered, sent>>

Slots == 0 .. sq_max_wr - 1
NoBuf == -1
-----------------------------------------------------------------------------
(* Operation codes: enum xrnic_wc_opcod of rnic.h. *)
XRNIC_RDMA_WRITE == 0
XRNIC_SEND_ONLY == 2
XRNIC_RDMA_READ == 4
XRNIC_INVALID_OPC == -1

xib_wr_code(op) ==
    CASE op = "IB_WR_SEND"       -> XRNIC_SEND_ONLY
      [] op = "IB_WR_RDMA_READ"  -> XRNIC_RDMA_READ
      [] op = "IB_WR_RDMA_WRITE" -> XRNIC_RDMA_WRITE
      [] OTHER                   -> XRNIC_INVALID_OPC

\* struct xrnic_wr stores the code in a u8.
WqeOpcode(op) == xib_wr_code(op) % 256

\* The position of a free-running count in a pointer over 1..sq_max_wr.
RingPtr(n) == IF n = 0 THEN 0 ELSE ((n - 1) % sq_max_wr) + 1

WrapLocal(local) == IF local = sq_max_wr THEN 0 ELSE local

NoReq == [wr_id |-> -1, opcode |-> 0, signaled |-> FALSE]
IdlePost == [pc |-> "idle", left |-> 0, req |-> NoReq]
IdlePoll == [pc |-> "idle", head |-> 0, i |-> 0, n |-> 0]

Init ==
    /\ state = "RTS"
    /\ sq_cmpl_db_local = 0 /\ send_cq_db_local = 0
    /\ wr_id_array = [s \in Slots |-> [wr_id |-> 0, signaled |-> FALSE]]
    /\ pl_buf_list = [s \in Slots |-> NoBuf]
    /\ sqd_wr_list = << >> /\ sqd_length = 0
    /\ post_send_count = 0 /\ sq_polled_count = 0 /\ sq_drained = FALSE
    /\ wqe = [s \in Slots |-> [wr_id |-> 0, opcode |-> 0]]
    /\ cqe = [s \in Slots |-> [opcode |-> 0, err |-> FALSE]]
    /\ SQ_PROD_IDX = 0 /\ CQ_HEAD_PTR = 0
    /\ post = IdlePost /\ poll = IdlePoll
    /\ bufs = {} /\ send_wcs = << >> /\ flush_wcs = << >>
    /\ offered = 0 /\ sent = << >> /\ executed = << >> /\ reaped = 0
    /\ accepted_sqd = {} /\ bad_free = FALSE
-----------------------------------------------------------------------------
(* xib_modify_qp, as far as this queue sees it: the state word is written  *)
(* with no lock.  The core (external) admits these transitions.            *)
ib_modify_qp_is_ok(new) ==
    \/ new = "ERR"
    \/ state = "RTS" /\ new = "SQD"
    \/ state = "SQD" /\ new = "RTS"

xrnic_qp_modify(new) ==
    /\ ib_modify_qp_is_ok(new)
    /\ state' = new
    /\ UNCHANGED <<ringVars, hwVars, sqdVars, reapVars, post_send_count, post,
                   poll, bufs, offered, sent>>
-----------------------------------------------------------------------------
(* __xib_post_send *)

\* The call counts itself, takes sq_lock and looks at the state once.  The
\* consumer keeps at most SendCredit ring entries occupied; the driver itself
\* checks only the length of the SQD list.
PostBegin(n) ==
    /\ post.pc = "idle"
    /\ ConcurrentPost \/ poll.pc = "idle"
    /\ offered + n <= MaxSend
    /\ state = "SQD" \/ Len(sent) - reaped + n <= SendCredit
    /\ post_send_count' = post_send_count + 1
    /\ post' = [pc |-> IF state = "SQD" THEN "sqd" ELSE "wr", left |-> n,
                req |-> NoReq]
    /\ UNCHANGED <<state, ringVars, hwVars, sqdVars, reapVars, poll, bufs,
                   offered, sent>>

\* A request of the chain fills the entry at sq_cmpl_db_local.  Only sends
\* are staged: the macro tested in front of the staging of reads and writes
\* (ARCH_HAS_) is never defined, so their element points at the caller's
\* memory.  The check for an unsupported operation reads a u8.
PostWr(op, signaled) ==
    LET slot == sq_cmpl_db_local
        req  == [wr_id |-> offered, opcode |-> WqeOpcode(op),
                 signaled |-> signaled]
    IN
    /\ post.pc = "wr"
    /\ wr_id_array' = [wr_id_array EXCEPT
                         ![slot] = [wr_id |-> offered, signaled |-> signaled]]
    /\ IF op = "IB_WR_SEND"
         THEN /\ bufs' = bufs \cup {offered}
              /\ pl_buf_list' = [pl_buf_list EXCEPT ![slot] = offered]
         ELSE UNCHANGED <<bufs, pl_buf_list>>
    /\ ~(WqeOpcode(op) < 0)
    /\ wqe' = [wqe EXCEPT
                 ![slot] = [wr_id |-> offered, opcode |-> WqeOpcode(op)]]
    /\ offered' = offered + 1
    /\ post' = [post EXCEPT !.pc = "bell", !.req = req]
    /\ UNCHANGED <<state, sq_cmpl_db_local, SQ_PROD_IDX, hwVars, sqdVars,
                   reapVars, post_send_count, poll, sent>>

\* The exit of a failed request: sq_lock is released.
PostFailed == IdlePost

\* A send whose staging buffer cannot be allocated (-ENOMEM), or whose data
\* exceed the limit of xib_prepare_sgl (-EINVAL: the buffer stays allocated).
\* The entry was filled already; the rest of the chain is not posted.
PostWrFails(signaled, why) ==
    LET slot == sq_cmpl_db_local
        staged == why = "EINVAL"
    IN
    /\ post.pc = "wr"
    /\ "IB_WR_SEND" \in Opcodes
    /\ wr_id_array' = [wr_id_array EXCEPT
                         ![slot] = [wr_id |-> offered, signaled |-> signaled]]
    /\ bufs' = IF staged THEN bufs \cup {offered} ELSE bufs
    /\ pl_buf_list' = [pl_buf_list EXCEPT
                         ![slot] = IF staged THEN offered ELSE NoBuf]
    /\ offered' = offered + 1
    /\ post' = PostFailed
    /\ UNCHANGED <<state, sq_cmpl_db_local, wqe, SQ_PROD_IDX, hwVars, sqdVars,
                   reapVars, post_send_count, poll, sent>>

\* Faulty form: the doorbell is written after the wrap.
DoorbellWrapped(local) == WrapLocal(local + 1)

\* The index the doorbell is given, over 1..sq_max_wr.
Doorbell(local) == local + 1

\* xrnic_send_wr: the local index moves, the producer doorbell is written and
\* the index wraps; the loop goes on with the rest of the chain.
xrnic_send_wr ==
    /\ post.pc = "bell"
    /\ SQ_PROD_IDX' = Doorbell(sq_cmpl_db_local)
    /\ sq_cmpl_db_local' = WrapLocal(sq_cmpl_db_local + 1)
    /\ sent' = Append(sent, post.req)
    /\ post' = IF post.left = 1 THEN IdlePost
               ELSE [pc |-> "wr", left |-> post.left - 1, req |-> NoReq]
    /\ UNCHANGED <<state, wr_id_array, pl_buf_list, wqe, hwVars, sqdVars,
                   reapVars, post_send_count, poll, bufs, offered>>

\* The loop of the SQD branch links requests while there is room.
SqdRoom(left) ==
    IF left < sq_max_wr - sqd_length THEN left ELSE sq_max_wr - sqd_length

LinkSqd(n) ==
    /\ sqd_wr_list' = sqd_wr_list \o [j \in 1 .. n |-> offered + j - 1]
    /\ sqd_length' = sqd_length + n
    /\ offered' = offered + post.left

\* The whole chain is taken: the test for too many requests compares with >
\* after a loop that stops at max_wr, so the call returns 0 in every case.
PostSqd ==
    /\ post.pc = "sqd"
    /\ LinkSqd(SqdRoom(post.left))
    /\ accepted_sqd' = accepted_sqd \cup (offered .. offered + post.left - 1)
    /\ post' = IdlePost
    /\ UNCHANGED <<state, ringVars, hwVars, reapVars, flush_wcs,
                   post_send_count, poll, bufs, sent>>

\* A list node cannot be allocated: the call returns with sq_lock held.
PostSqdFails ==
    /\ post.pc = "sqd" /\ "ENOMEM" \in Failures
    /\ \E n \in 0 .. SqdRoom(post.left) - 1 : LinkSqd(n)
    /\ post' = [IdlePost EXCEPT !.pc = "stuck"]
    /\ UNCHANGED <<state, ringVars, hwVars, reapVars, flush_wcs, accepted_sqd,
                   post_send_count, poll, bufs, sent>>
-----------------------------------------------------------------------------
\* The hardware (external) completes the element after the last completed one
\* while the producer index is ahead, writes its completion element and moves
\* the completion queue head.
HwComplete(err) ==
    LET done == Len(executed)
        slot == done % sq_max_wr
    IN
    /\ RingPtr(done) # SQ_PROD_IDX
    /\ executed' = Append(executed, [wr_id |-> wqe[slot].wr_id,
                                     opcode |-> wqe[slot].opcode, err |-> err])
    /\ cqe' = [cqe EXCEPT ![slot] = [opcode |-> wqe[slot].opcode, err |-> err]]
    /\ CQ_HEAD_PTR' = RingPtr(done + 1)
    /\ UNCHANGED <<state, ringVars, sqdVars, reapVars, post_send_count, post,
                   poll, bufs, offered, sent>>
-----------------------------------------------------------------------------
(* xib_poll_kernel_cq, the send half. *)

\* Faulty form: the mask on the register is one short.
HeadOneShort == IF CQ_HEAD_PTR = sq_max_wr THEN sq_max_wr - 1 ELSE CQ_HEAD_PTR

\* The completion queue head as the poll reads it.
cur_send_cq_head == CQ_HEAD_PTR

\* The poll holds cq_lock and reads the completion queue head once.
PollBegin(n) ==
    /\ poll.pc = "idle"
    /\ ConcurrentPost \/ post.pc \in {"idle", "stuck"}
    /\ poll' = [pc |-> "reap", head |-> cur_send_cq_head, i |-> 0, n |-> n]
    /\ UNCHANGED <<state, ringVars, hwVars, sqdVars, reapVars, post_send_count,
                   post, bufs, offered, sent>>

\* Faulty form: the location of the send queue is not looked at.
FreesEveryBuffer(opcode) ==
    opcode \in {XRNIC_SEND_ONLY, XRNIC_RDMA_READ, XRNIC_RDMA_WRITE}

\* Which completions return the staging buffer of their entry.
FreesBuffer(opcode) ==
    \/ opcode = XRNIC_SEND_ONLY
    \/ opcode \in {XRNIC_RDMA_READ, XRNIC_RDMA_WRITE} /\ ~SqMemIsPs

\* Which completions are reported: the others go to skip_cqe.
ReportsWc(entry) == entry.signaled

\* One completion: the staging buffer is returned and, if the request was
\* signaled, a wc is reported and counted.
Reap ==
    LET slot   == WrapLocal(send_cq_db_local)
        entry  == wr_id_array[slot]
        frees  == FreesBuffer(cqe[slot].opcode)
    IN
    /\ poll.pc = "reap" /\ poll.i < poll.n /\ send_cq_db_local # poll.head
    /\ bufs' = IF frees THEN bufs \ {pl_buf_list[slot]} ELSE bufs
    /\ bad_free' = (bad_free \/ (frees /\ pl_buf_list[slot] \notin bufs))
    /\ IF ReportsWc(entry)
         THEN /\ send_wcs' = Append(send_wcs,
                    [wr_id |-> entry.wr_id, err |-> cqe[slot].err])
              /\ sq_polled_count' = sq_polled_count + 1
              /\ sq_drained' = (sq_drained \/
                    (state # "RTS" /\ post_send_count = sq_polled_count + 1))
              /\ poll' = [poll EXCEPT !.i = @ + 1]
         ELSE UNCHANGED <<send_wcs, sq_polled_count, sq_drained, poll>>
    /\ send_cq_db_local' = slot + 1
    /\ reaped' = reaped + 1
    /\ UNCHANGED <<state, ringVars, hwVars, sqdVars, post_send_count, post,
                   offered, sent>>

ReapDone ==
    /\ poll.pc = "reap"
    /\ poll.i >= poll.n \/ send_cq_db_local = poll.head
    /\ poll' = [poll EXCEPT !.pc = "flush"]
    /\ UNCHANGED <<state, ringVars, hwVars, sqdVars, reapVars, post_send_count,
                   post, bufs, offered, sent>>

\* Faulty form: the length of the list is not brought down.
SameLength == sqd_length

FlushedLength == sqd_length - 1

\* The requests of the SQD list are reported with a flush error while the
\* budget lasts.
Flush ==
    /\ poll.pc = "flush" /\ poll.i < poll.n /\ sqd_wr_list # << >>
    /\ flush_wcs' = Append(flush_wcs, Head(sqd_wr_list))
    /\ sqd_wr_list' = Tail(sqd_wr_list)
    /\ sqd_length' = FlushedLength
    /\ poll' = [poll EXCEPT !.i = @ + 1]
    /\ UNCHANGED <<state, ringVars, hwVars, reapVars, accepted_sqd,
                   post_send_count, post, bufs, offered, sent>>

FlushDone ==
    /\ poll.pc = "flush" /\ (poll.i >= poll.n \/ sqd_wr_list = << >>)
    /\ poll' = IdlePoll
    /\ UNCHANGED <<state, ringVars, hwVars, sqdVars, reapVars, post_send_count,
                   post, bufs, offered, sent>>
-----------------------------------------------------------------------------
PostStep ==
    \/ \E op \in Opcodes, signaled \in BOOLEAN : PostWr(op, signaled)
    \/ \E signaled \in BOOLEAN, why \in Failures : PostWrFails(signaled, why)
    \/ xrnic_send_wr
    \/ PostSqd
    \/ PostSqdFails

PollStep == Reap \/ ReapDone \/ Flush \/ FlushDone

Next ==
    \/ \E new \in QpStates : xrnic_qp_modify(new)
    \/ \E n \in 1 .. MaxChain : PostBegin(n)
    \/ PostStep
    \/ \E err \in BOOLEAN : HwComplete(err)
    \/ \E n \in 1 .. MaxEntries : PollBegin(n)
    \/ PollStep

Spec == Init /\ [][Next]_vars

(* A call that began runs to its end, the hardware completes what it was    *)
(* handed, and the consumer polls again after each interrupt.               *)
Fairness ==
    /\ WF_vars(PostStep)
    /\ WF_vars(\E err \in BOOLEAN : HwComplete(err))
    /\ WF_vars(\E n \in 1 .. MaxEntries : PollBegin(n))
    /\ WF_vars(PollStep)

FairSpec == Spec /\ Fairness
-----------------------------------------------------------------------------
(* Properties.  Those on the ring hold when SendCredit < sq_max_wr: with as *)
(* many requests in flight as entries, sq_max_wr completions bring the head *)
(* back to send_cq_db_local and the poll sees none of them.                 *)

Request == [wr_id : Int, opcode : Int, signaled : BOOLEAN]

\* Every variable keeps its type: the indices stay inside the ring.
TypeOK ==
    /\ state \in {"RTS", "SQD", "ERR"}
    /\ sq_cmpl_db_local \in Slots /\ send_cq_db_local \in 0 .. sq_max_wr
    /\ wr_id_array \in [Slots -> [wr_id : Int, signaled : BOOLEAN]]
    /\ pl_buf_list \in [Slots -> Int]
    /\ sqd_wr_list \in Seq(Int) /\ sqd_length \in Nat
    /\ post_send_count \in Nat /\ sq_polled_count \in Nat
    /\ sq_drained \in BOOLEAN
    /\ wqe \in [Slots -> [wr_id : Int, opcode : Int]]
    /\ cqe \in [Slots -> [opcode : Int, err : BOOLEAN]]
    /\ SQ_PROD_IDX \in 0 .. sq_max_wr /\ CQ_HEAD_PTR \in 0 .. sq_max_wr
    /\ post \in [pc : {"idle", "wr", "bell", "sqd", "stuck"}, left : Nat,
                 req : Request]
    /\ poll \in [pc : {"idle", "reap", "flush"}, head : 0 .. sq_max_wr,
                 i : Nat, n : Nat]
    /\ bufs \in SUBSET Int
    /\ send_wcs \in Seq([wr_id : Int, err : BOOLEAN])
    /\ flush_wcs \in Seq(Int)
    /\ offered \in Nat /\ reaped \in Nat
    /\ sent \in Seq(Request)
    /\ executed \in Seq([wr_id : Int, opcode : Int, err : BOOLEAN])
    /\ accepted_sqd \in SUBSET Int
    /\ bad_free \in BOOLEAN

\* The hardware executes the posted requests, each once and in order: the
\* doorbell of xrnic_send_wr never exposes an element that is unwritten or
\* already overwritten by a later post.
ExecutedInOrder ==
    /\ Len(executed) <= Len(sent)
    /\ \A k \in 1 .. Len(executed) :
          /\ executed[k].wr_id = sent[k].wr_id
          /\ executed[k].opcode = sent[k].opcode

\* The poll reports exactly the signaled requests among those it reaped, each
\* once, in posting order and with the outcome the hardware gave it.
SendInOrder ==
    /\ \A j, k \in 1 .. Len(send_wcs) : j < k => send_wcs[j].wr_id < send_wcs[k].wr_id
    /\ {<<w.wr_id, w.err>> : w \in {send_wcs[j] : j \in 1 .. Len(send_wcs)}} =
         {<<executed[k].wr_id, executed[k].err>> :
            k \in {m \in 1 .. reaped : sent[m].signaled}}

\* The poll never reaps past the hardware: an entry it reads, with its
\* request and its staging buffer, belongs to a completed request.
ReapBehindHardware == reaped <= Len(executed) /\ Len(executed) <= Len(sent)

\* The staging buffer of a send stays allocated, and stored in its entry,
\* until the send is reaped: neither a later post nor an earlier completion
\* takes it from the hardware.
InFlightBuffersLive ==
    \A k \in reaped + 1 .. Len(sent) :
        sent[k].opcode = XRNIC_SEND_ONLY =>
            /\ sent[k].wr_id \in bufs
            /\ pl_buf_list[(k - 1) % sq_max_wr] = sent[k].wr_id

\* A completion returns the staging buffer its own request allocated:
\* xib_free_coherent is never called for a buffer that is not allocated.
NoBadFree == ~bad_free

\* Requests linked in state SQD are flushed once, in order, and the length
\* that limits the list counts exactly the requests on it.
SqdFlushInOrder ==
    LET all == flush_wcs \o sqd_wr_list IN
    /\ \A j, k \in 1 .. Len(all) : j < k => all[j] < all[k]
    /\ sqd_length = Len(sqd_wr_list)
    /\ sqd_length <= sq_max_wr

\* __xib_post_send answers "Number of work requests in SQD exceeded maximum
\* limit" to requests the list cannot take: a request of a call that returned
\* 0 is on the list or was flushed.
SqdAcceptedKept ==
    \A w \in accepted_sqd :
        \/ \E j \in 1 .. Len(flush_wcs) : flush_wcs[j] = w
        \/ \E j \in 1 .. Len(sqd_wr_list) : sqd_wr_list[j] = w
=============================================================================
