------------------------------- MODULE MCDriver ------------------------------
(***************************************************************************)
(* Small instances of the parts of the driver that do not meet each other: *)
(* a behaviour is one of the memory regions, of the handshake driver, of   *)
(* the block RAM, of the flow control files, or of QP1 (once with many     *)
(* datagrams that arrive, once with many that are sent).  The variables of *)
(* the other parts are 0.                                                  *)
(***************************************************************************)
EXTENDS Integers, Sequences, FiniteSets

CONSTANTS
    Mr, Pd, MaxCount,                                     \* XibMr
    Qp, Ctx, Base, Depth, UserDepth, Slot, MaxPi,         \* HwHs
    Caller, tot_mem, Sizes, Round, BRAM_ALLOC_UNIT, DmaAddrs, MaxGrants,   \* XibBram
    PfcAttr, Overlap, MaxStores,                          \* XibPfc
    Cnp, MaxChain, MaxEntries,                            \* XibGsi
    Discipline                                            \* XibMr and HwHs

VARIABLES
    part,
    mr_map, pd_map, lock, pds, mrs, entry, noti,
    qp_list, ernic, mutx, ctx, rcfg, eng, wqe, run_wqe_idx, round, oops,
    mem_free, mem_alloc, free_mem, bram_grants, bram_call, lost, spoilt,
    pfc_reg, store, last,
    prod, cons, gsi_cons, rq_wrptr_db_local, rqe_list, rq_buf, rq_db, arrived, hdl,
    sq_cmpl_db_local, send_cq_db_local, wr_id_array, sqd_wr_list, state, send_sgl,
    SQ_PROD_IDX, CQ_HEAD_PTR, cqe_err, post, poll, posted, offered, recv_wcs,
    send_wcs, flush_wcs, sent, wire, reaped, rewound, full

M == INSTANCE XibMr
H == INSTANCE HwHs
B == INSTANCE XibBram WITH grants <- bram_grants, call <- bram_call
P == INSTANCE XibPfc
GR == INSTANCE XibGsi WITH max_wr <- 3, RecvCredit <- 2, MaxRecv <- 5, MaxSend <- 1
GS == INSTANCE XibGsi WITH max_wr <- 2, RecvCredit <- 1, MaxRecv <- 0, MaxSend <- 3

mrVars == <<mr_map, pd_map, lock, pds, mrs, entry, noti>>
hsVars == <<qp_list, ernic, mutx, ctx, rcfg, eng, wqe, run_wqe_idx, round, oops>>
bramVars == <<mem_free, mem_alloc, free_mem, bram_grants, bram_call, lost, spoilt>>
pfcVars == <<pfc_reg, store, last>>
gsiVars == <<prod, cons, gsi_cons, rq_wrptr_db_local, rqe_list, rq_buf, rq_db, arrived,
             hdl, sq_cmpl_db_local, send_cq_db_local, wr_id_array, sqd_wr_list, state,
             send_sgl, SQ_PROD_IDX, CQ_HEAD_PTR, cqe_err, post, poll, posted, offered,
             recv_wcs, send_wcs, flush_wcs, sent, wire, reaped, rewound, full>>
vars == <<part, mrVars, hsVars, bramVars, pfcVars, gsiVars>>

MrOff == /\ mr_map = 0 /\ pd_map = 0 /\ lock = 0 /\ pds = 0 /\ mrs = 0 /\ entry = 0
         /\ noti = 0
HsOff == /\ qp_list = 0 /\ ernic = 0 /\ mutx = 0 /\ ctx = 0 /\ rcfg = 0 /\ eng = 0
         /\ wqe = 0 /\ run_wqe_idx = 0 /\ round = 0 /\ oops = 0
BramOff == /\ mem_free = 0 /\ mem_alloc = 0 /\ free_mem = 0 /\ bram_grants = 0
           /\ bram_call = 0 /\ lost = 0 /\ spoilt = 0
PfcOff == pfc_reg = 0 /\ store = 0 /\ last = 0
GsiOff == /\ prod = 0 /\ cons = 0 /\ gsi_cons = 0 /\ rq_wrptr_db_local = 0
          /\ rqe_list = 0 /\ rq_buf = 0 /\ rq_db = 0 /\ arrived = 0 /\ hdl = 0
          /\ sq_cmpl_db_local = 0 /\ send_cq_db_local = 0 /\ wr_id_array = 0
          /\ sqd_wr_list = 0 /\ state = 0 /\ send_sgl = 0 /\ SQ_PROD_IDX = 0
          /\ CQ_HEAD_PTR = 0 /\ cqe_err = 0 /\ post = 0 /\ poll = 0 /\ posted = 0
          /\ offered = 0 /\ recv_wcs = 0 /\ send_wcs = 0 /\ flush_wcs = 0 /\ sent = 0
          /\ wire = 0 /\ reaped = 0 /\ rewound = 0 /\ full = 0

Init ==
    \/ part = "mr" /\ M!Init /\ HsOff /\ BramOff /\ PfcOff /\ GsiOff
    \/ part = "hs" /\ H!Init /\ MrOff /\ BramOff /\ PfcOff /\ GsiOff
    \/ part = "bram" /\ B!Init /\ MrOff /\ HsOff /\ PfcOff /\ GsiOff
    \/ part = "pfc" /\ P!Init /\ MrOff /\ HsOff /\ BramOff /\ GsiOff
    \/ part = "gsi_recv" /\ GR!Init /\ MrOff /\ HsOff /\ BramOff /\ PfcOff
    \/ part = "gsi_send" /\ GS!Init /\ MrOff /\ HsOff /\ BramOff /\ PfcOff

Next ==
    \/ part = "mr" /\ M!Next /\ UNCHANGED <<part, hsVars, bramVars, pfcVars, gsiVars>>
    \/ part = "hs" /\ H!Next /\ UNCHANGED <<part, mrVars, bramVars, pfcVars, gsiVars>>
    \/ part = "bram" /\ B!Next /\ UNCHANGED <<part, mrVars, hsVars, pfcVars, gsiVars>>
    \/ part = "pfc" /\ P!Next /\ UNCHANGED <<part, mrVars, hsVars, bramVars, gsiVars>>
    \/ part = "gsi_recv" /\ GR!Next
         /\ UNCHANGED <<part, mrVars, hsVars, bramVars, pfcVars>>
    \/ part = "gsi_send" /\ GS!Next
         /\ UNCHANGED <<part, mrVars, hsVars, bramVars, pfcVars>>

Spec == Init /\ [][Next]_vars
-----------------------------------------------------------------------------
\* No two regions in use share an index of mr_map, whichever registrations,
\* deregistrations and invalidations of peers run against each other.
IndexNamesOneMr == part = "mr" => M!IndexNamesOneMr

\* The hardware entry of a region in use is its own, and a key that a peer has
\* invalidated names no entry that still holds the region.
EntrySound == part = "mr" => M!EntryIsOwners /\ M!InvalidatedIsCleared

\* The handshake engine and the ERNIC agree about the ring of every QP that is
\* bound to a context, through commits with and without rebind and resets.
EngineAndErnicAgree == part = "hs" => H!EngineAndErnicAgree

\* When the handshake device is closed, no QP is left in the handshake, and no
\* reset has followed a QP that does not exist.
ClosedRestoresQps == part = "hs" => H!ClosedRestoresQps

\* Block RAM is not given out twice, and the free list and free_mem say what is
\* free, until a freed block is joined to one it does not touch, DMA memory is
\* freed into the manager, or two calls overlap.
BramExact == part = "bram" => B!BramExact

\* Every flow control file shows the last value it accepted.
StoredIsShown == part = "pfc" => P!StoredIsShown

\* Until the tasklet counts a whole turn of the ring again, management datagrams
\* are reported once each, in order and in the receives posted for them, and
\* none is left behind when the tasklet is done.
MadsExact ==
    /\ part = "gsi_recv" => GR!MadsExact
    /\ part = "gsi_send" => GS!MadsExact

\* As long as QP1's send ring is not overrun, every signaled send that succeeded
\* is reported, once, in order and by its own id, also with congestion
\* notifications in the ring.
SendsReportedInOrder ==
    /\ part = "gsi_recv" => GR!SendsReportedInOrder
    /\ part = "gsi_send" => GS!SendsReportedInOrder
=============================================================================
