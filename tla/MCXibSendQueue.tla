--------------------------- MODULE MCXibSendQueue ---------------------------
(***************************************************************************)
(* Three instances of the send queue; a behaviour is one of them.  "ring"  *)
(* is a ring of four entries that wraps, with chains, posts and polls that *)
(* interleave.  "failures" adds reads, requests that fail in the middle of *)
(* a post and fairness.  "sqd" moves the QP through its states and fills   *)
(* the list of state SQD.                                                  *)
(***************************************************************************)
EXTENDS Integers, Sequences

CONSTANT MaxEntries      \* bound: num_entries of a poll

VARIABLES
    part,
    state, sq_cmpl_db_local, send_cq_db_local, wr_id_array, pl_buf_list, sqd_wr_list,
    sqd_length, post_send_count, sq_polled_count, sq_drained, wqe, cqe, SQ_PROD_IDX,
    CQ_HEAD_PTR, post, poll, bufs, send_wcs, flush_wcs, offered, sent, executed, reaped,
    accepted_sqd, bad_free

vars == <<part, state, sq_cmpl_db_local, send_cq_db_local, wr_id_array, pl_buf_list,
          sqd_wr_list, sqd_length, post_send_count, sq_polled_count, sq_drained, wqe, cqe,
          SQ_PROD_IDX, CQ_HEAD_PTR, post, poll, bufs, send_wcs, flush_wcs, offered, sent,
          executed, reaped, accepted_sqd, bad_free>>

QR == INSTANCE XibSendQueue WITH
        sq_max_wr <- 4, SendCredit <- 3, MaxSend <- 5, MaxChain <- 2,
        Opcodes <- {"IB_WR_SEND"}, QpStates <- {"RTS"},
        ConcurrentPost <- TRUE, SqMemIsPs <- TRUE, Failures <- {}
QF == INSTANCE XibSendQueue WITH
        sq_max_wr <- 2, SendCredit <- 1, MaxSend <- 4, MaxChain <- 1,
        Opcodes <- {"IB_WR_SEND", "IB_WR_RDMA_READ"}, QpStates <- {"RTS"},
        ConcurrentPost <- TRUE, SqMemIsPs <- TRUE, Failures <- {"ENOMEM", "EINVAL"}
QD == INSTANCE XibSendQueue WITH
        sq_max_wr <- 2, SendCredit <- 1, MaxSend <- 4, MaxChain <- 3,
        Opcodes <- {"IB_WR_SEND"}, QpStates <- {"RTS", "SQD", "ERR"},
        ConcurrentPost <- FALSE, SqMemIsPs <- TRUE, Failures <- {"ENOMEM"}

ASSUME PartsAssumption == QR!ConstantsOK /\ QF!ConstantsOK /\ QD!ConstantsOK

Init == \/ part = "ring" /\ QR!Init
        \/ part = "failures" /\ QF!Init
        \/ part = "sqd" /\ QD!Init

Next == /\ UNCHANGED part
        /\ \/ part = "ring" /\ QR!Next
           \/ part = "failures" /\ QF!Next
           \/ part = "sqd" /\ QD!Next

InFailures(A) == part = "failures" /\ A /\ UNCHANGED part

(* As in XibSendQueue: a call that began runs to its end, the hardware        *)
(* completes what it was handed, the consumer polls again.                    *)
Fairness ==
    /\ WF_vars(InFailures(QF!PostStep))
    /\ WF_vars(InFailures(\E err \in BOOLEAN : QF!HwComplete(err)))
    /\ WF_vars(InFailures(\E n \in 1 .. MaxEntries : QF!PollBegin(n)))
    /\ WF_vars(InFailures(QF!PollStep))

Spec == Init /\ [][Next]_vars /\ Fairness
-----------------------------------------------------------------------------
\* The hardware executes the requests of __xib_post_send in order and the poll
\* reports those it reaped, in order and never ahead of the hardware; no index
\* leaves the ring.
HardwareInOrder ==
    /\ part = "ring" => /\ QR!TypeOK
                        /\ QR!ExecutedInOrder /\ QR!SendInOrder /\ QR!ReapBehindHardware
    /\ part = "failures" => QF!ExecutedInOrder /\ QF!SendInOrder /\ QF!ReapBehindHardware

\* The staging buffer of a send lives until the send is reaped, and each is
\* freed once, also when a later request failed.
BuffersSafe ==
    /\ part = "ring" => QR!InFlightBuffersLive /\ QR!NoBadFree
    /\ part = "failures" => QF!InFlightBuffersLive /\ QF!NoBadFree

\* The list of state SQD is flushed once, in order, and its length is exact.
SqdListExact == part = "sqd" => QD!SqdFlushInOrder

\* Once the last request was offered, every signaled request the hardware took
\* has been reported and every call of __xib_post_send has given sq_lock back,
\* the calls that failed included.
SendsEnd ==
    <>[](part = "failures" =>
            /\ post.pc = "idle"
            /\ \A k \in 1 .. Len(sent) : sent[k].signaled => reaped >= k)
=============================================================================
