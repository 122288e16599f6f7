------------------------------ MODULE XibHwAccl ------------------------------
(***************************************************************************)
(* Handing a kernel QP's receive queue over to the hardware handshake      *)
(* (xib_modify_qp with IB_ENABLE_QP_HW_ACCL, that is xib_enable_hw_accl).  *)
(* From then on the hardware counts the frames its user logic still has to *)
(* process from the number the driver leaves in STAT_RQ_PROD_IDX.          *)
(*                                                                         *)
(* modify_qp takes no lock of the queue, so the handover is two steps: the *)
(* doorbell words are programmed, and reset on the way; then the pending   *)
(* frames are counted from the doorbell and the consumer index register.   *)
(***************************************************************************)
EXTENDS XibRecvQueue

VARIABLES
    accl,         \* "off", "reset" (between the two steps), "on"
    rem_rx_pkts   \* the low half of STAT_RQ_PROD_IDX as the driver wrote it

acclVars == <<accl, rem_rx_pkts>>

AcclInit == Init /\ accl = "off" /\ rem_rx_pkts = 0

\* xrnic_get_rq_db_addr returns the address of the doorbell word for the
\* register and zeroes the word.
ProgramDoorbell ==
    /\ accl = "off"
    /\ rq_db' = 0
    /\ accl' = "reset"
    /\ UNCHANGED <<rem_rx_pkts, rqVars, rq_buf, rq_noti, arrived, RQ_CONS_IDX,
                   imm_inv_data, sgl, poll, recv_wcs, posted, popped>>

\* The pending frames are counted and the handshake is enabled.
EnableHandshake ==
    /\ accl = "reset"
    /\ rem_rx_pkts' = get_rq_pending_cnt(rq_db, RQ_CONS_IDX)
    /\ accl' = "on"
    /\ UNCHANGED vars

\* Until the handshake is on the driver serves the queue as before.
AcclNext ==
    \/ accl # "on" /\ Next /\ UNCHANGED acclVars
    \/ ProgramDoorbell
    \/ EnableHandshake

AcclSpec == AcclInit /\ [][AcclNext]_<<vars, acclVars>>

\* "the first 16 bits of STAT RQ PI must have number of Rx pkts that are not
\* processed": the number the hardware starts from is that of the frames that
\* landed and were not popped.
AcclPendingIsUnprocessed == accl = "on" => rem_rx_pkts = arrived - popped
=============================================================================
