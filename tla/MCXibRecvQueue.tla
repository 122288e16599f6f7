--------------------------- MODULE MCXibRecvQueue ---------------------------
(***************************************************************************)
(* Small instances of the kernel QP's receive queue for TLC.  The ring has *)
(* four entries and the consumer keeps at most three receives posted; the  *)
(* bounds of the configurations let every cursor pass the end of the ring. *)
(***************************************************************************)
EXTENDS XibRecvQueueCorrect

\* The bounds let the ring wrap.
ASSUME WrapAssumption == MaxRecv > rq_max_wr
=============================================================================
