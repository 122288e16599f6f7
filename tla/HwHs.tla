-------------------------------- MODULE HwHs --------------------------------
(***************************************************************************)
(* The driver of the hardware handshake engine (hw_hs.c).  The engine      *)
(* sends on ERNIC QPs by itself: for each of its QP contexts it keeps the   *)
(* ring it writes to (eng), while the ERNIC keeps the ring it reads from    *)
(* (ernic).  The driver binds a QP to a context with HH_CONFIG and          *)
(* HH_QPCTX_COMMIT and takes the QPs back with HH_RESET and at close.       *)
(*                                                                         *)
(* The device is opened by one file at a time, so its ioctls do not         *)
(* overlap.  QPs are created and destroyed through another file.            *)
(***************************************************************************)
EXTENDS Integers

CONSTANTS
    Qp,          \* numbers of the data QPs, 1..n
    Ctx,         \* slots of the context table, 0..HH_NUM_CTX - 1
    Base,        \* addresses of the rings callers supply, > 0
    Depth,       \* depths they ask for; 0 stands for 1
    UserDepth,   \* sq.max_wr of a QP: never one of Depth here
    Slot,        \* of the WQE store
    Discipline,  \* what callers respect, see Calm below
    MaxPi        \* bound on the rounds of a ring

VARIABLES
    qp_list,     \* the QPs that exist
    ernic,       \* per QP: its registers
    mutx,        \* the device is open
    ctx, rcfg,   \* struct hw_hs_dev
    eng,         \* the context table of the engine
    wqe,         \* slot of the WQE store -> context it refers to
    run_wqe_idx,
    round,       \* "idle", "started" or "sent"
    oops         \* qp_list was followed for a QP that does not exist

vars == <<qp_list, ernic, mutx, ctx, rcfg, eng, wqe, run_wqe_idx, round, oops>>

OWN == 0         \* the ring of the RDMA driver
None == -1
FreshQp == [hsk |-> FALSE, cqe |-> TRUE, pi |-> 0, depth |-> UserDepth,
            db |-> "driver", base |-> OWN]

Init ==
    /\ qp_list = {} /\ ernic = [q \in Qp |-> FreshQp]
    /\ mutx = FALSE
    /\ ctx = [c \in Ctx |-> [qp_num |-> 0, valid |-> FALSE]]
    /\ rcfg = [qp_num |-> 0, qp_cnt |-> 0]
    /\ eng = [c \in Ctx |-> [qp |-> 0, base |-> OWN, depth |-> 0, pi |-> 0]]
    /\ wqe = [s \in Slot |-> None] /\ run_wqe_idx \in Slot
    /\ round = "idle" /\ oops = FALSE

(* What the callers do.  "distinct": two valid contexts never name one QP.  *)
(* "keep": a config-only commit keeps the QP, the base and the depth.       *)
(* "one_qp": a context is rebound to another QP only after a reset.         *)
(* "outlive": a QP the handshake holds is destroyed only after close, and   *)
(* the QP that reset falls back to exists.                                  *)
(* "settled": contexts, WQEs and the index are not changed while a round    *)
(* runs.  "fresh": a round uses a context committed since the last reset.   *)
Calm(d, cond) == d \in Discipline => cond

Fallback == IF rcfg.qp_num = 0 THEN 1 ELSE rcfg.qp_num
Bound == {ctx[c].qp_num : c \in {d \in Ctx : ctx[d].valid}}
-----------------------------------------------------------------------------
\* Other users of the device create and destroy QPs (external to this driver;
\* the registers of a new QP are set up by xib).
CreateQp(q) ==
    /\ q \notin qp_list
    /\ qp_list' = qp_list \cup {q}
    /\ ernic' = [ernic EXCEPT ![q] = FreshQp]
    /\ UNCHANGED <<mutx, ctx, rcfg, eng, wqe, run_wqe_idx, round, oops>>

DestroyQp(q) ==
    /\ q \in qp_list
    /\ Calm("outlive", ~mutx)
    /\ qp_list' = qp_list \ {q}
    /\ UNCHANGED <<ernic, mutx, ctx, rcfg, eng, wqe, run_wqe_idx, round, oops>>

\* A kernel QP posts on its own ring while it is not in the handshake.
PostOwn(q) ==
    /\ q \in qp_list /\ ~ernic[q].hsk /\ ernic[q].base = OWN
    /\ ernic[q].pi < MaxPi
    /\ ernic' = [ernic EXCEPT ![q].pi = @ + 1]
    /\ UNCHANGED <<qp_list, mutx, ctx, rcfg, eng, wqe, run_wqe_idx, round, oops>>

hh_dev_open ==
    /\ ~mutx
    /\ Calm("outlive", Qp \subseteq qp_list)
    /\ mutx' = TRUE
    /\ UNCHANGED <<qp_list, ernic, ctx, rcfg, eng, wqe, run_wqe_idx, round, oops>>

DepthOf(d) == IF d = 0 THEN 1 ELSE d

\* The ERNIC side of a binding: the ring is pointed at sq_base, and setup_qps
\* clears the pointers, sets the depth and enables the handshake.
Enabled(r, base, depth) ==
    [r EXCEPT !.hsk = TRUE, !.cqe = FALSE, !.pi = 0, !.db = "engine",
              !.depth = depth, !.base = base]

\* setup_qps(HH_DIS_STATE): depth and doorbell return to those of the user QP;
\* the base of the ring and QP_CQE_EN stay.
Disabled(r) ==
    [r EXCEPT !.hsk = FALSE, !.pi = 0, !.db = "driver", !.depth = UserDepth]

\* Faulty form: a config-only commit clears the indices of the ERNIC too.
ResyncAlways(c, q, base, depth, rebind) ==
    /\ eng' = [eng EXCEPT ![c] = [qp |-> q, base |-> base, depth |-> depth,
                                  pi |-> IF rebind THEN 0 ELSE @.pi]]
    /\ ernic' = [ernic EXCEPT ![q] = Enabled(@, base, depth)]
    /\ ctx' = [ctx EXCEPT ![c] = [qp_num |-> q, valid |-> TRUE]]

\* hw_hs_qpctx_commit stages the set, commits it, and on a rebind sets up the
\* QP; a context out of the table is refused before that.
hw_hs_qpctx_commit(c, q, base, depth, rebind) ==
    /\ eng' = [eng EXCEPT ![c] = [qp |-> q, base |-> base, depth |-> depth,
                                  pi |-> IF rebind THEN 0 ELSE @.pi]]
    /\ ernic' = IF rebind THEN [ernic EXCEPT ![q] = Enabled(@, base, depth)]
                ELSE ernic
    /\ ctx' = [ctx EXCEPT ![c] = [qp_num |-> q, valid |-> TRUE]]

CallersAgree(c, q, base, depth, rebind) ==
    /\ Calm("outlive", q \in qp_list)
    /\ Calm("distinct", \A d \in Ctx \ {c} : ~(ctx[d].valid /\ ctx[d].qp_num = q))
    /\ Calm("one_qp", ctx[c].valid => ctx[c].qp_num = q)
    /\ Calm("keep", ~rebind => /\ ctx[c].valid
                               /\ eng[c].qp = q /\ eng[c].base = base
                               /\ eng[c].depth = depth)
    /\ Calm("distinct", \A p \in Qp : ernic[p].base = base => p = q)

HH_QPCTX_COMMIT(c, q, base, d, rebind) ==
    /\ mutx /\ CallersAgree(c, q, base, DepthOf(d), rebind)
    /\ Calm("settled", round = "idle")
    /\ hw_hs_qpctx_commit(c, q, base, DepthOf(d), rebind)
    /\ UNCHANGED <<qp_list, mutx, rcfg, wqe, run_wqe_idx, round, oops>>

\* HH_CONFIG: round scalars, a soft reset of the engine that ends the round in
\* progress, and a fresh binding of context 0.  rcfg.qp_cnt is kept but only
\* one QP is bound.
HH_CONFIG(q, base, d, cnt, idx) ==
    /\ mutx /\ CallersAgree(0, q, base, DepthOf(d), TRUE)
    /\ hw_hs_qpctx_commit(0, q, base, DepthOf(d), TRUE)
    /\ rcfg' = [qp_num |-> q, qp_cnt |-> cnt]
    /\ run_wqe_idx' = idx
    /\ round' = "idle"
    /\ UNCHANGED <<qp_list, mutx, wqe, oops>>

\* HH_CONFIG or HH_QPCTX_COMMIT with a reply slot that does not hold the
\* sequence number: the former has reset the engine and written the scalars.
ConfigRefused(idx, config) ==
    /\ mutx /\ Calm("settled", round = "idle")
    /\ run_wqe_idx' = IF config THEN idx ELSE run_wqe_idx
    /\ round' = IF config THEN "idle" ELSE round
    /\ UNCHANGED <<qp_list, ernic, mutx, ctx, rcfg, eng, wqe, oops>>

HH_WQE_COMMIT(s, c) ==
    /\ mutx /\ Calm("settled", round = "idle")
    /\ wqe' = [wqe EXCEPT ![s] = c]
    /\ UNCHANGED <<qp_list, ernic, mutx, ctx, rcfg, eng, run_wqe_idx, round, oops>>

HH_SET_WQE_IDX(s) ==
    /\ mutx /\ Calm("settled", round = "idle")
    /\ run_wqe_idx' = s
    /\ UNCHANGED <<qp_list, ernic, mutx, ctx, rcfg, eng, wqe, round, oops>>

HH_START ==
    /\ mutx /\ round = "idle" /\ wqe[run_wqe_idx] # None
    /\ Calm("fresh", ctx[wqe[run_wqe_idx]].valid)
    /\ round' = "started"
    /\ UNCHANGED <<qp_list, ernic, mutx, ctx, rcfg, eng, wqe, run_wqe_idx, oops>>

\* HH_ABORT ends the round.
HH_ABORT ==
    /\ mutx /\ round # "idle"
    /\ round' = "idle"
    /\ UNCHANGED <<qp_list, ernic, mutx, ctx, rcfg, eng, wqe, run_wqe_idx, oops>>

\* The engine writes the element at its index and rings the doorbell of the QP
\* with the next index.
EngineSends ==
    LET c == wqe[run_wqe_idx] IN
    /\ round = "started" /\ c # None /\ eng[c].qp # 0 /\ eng[c].pi < MaxPi
    /\ round' = "sent"
    /\ eng' = [eng EXCEPT ![c].pi = @ + 1]
    /\ ernic' = [ernic EXCEPT ![eng[c].qp].pi = eng[c].pi + 1]
    /\ UNCHANGED <<qp_list, mutx, ctx, rcfg, wqe, run_wqe_idx, oops>>

\* The reply arrives, or REPLY_TO expires.
EngineDone ==
    /\ round = "sent"
    /\ round' = "idle"
    /\ UNCHANGED <<qp_list, ernic, mutx, ctx, rcfg, eng, wqe, run_wqe_idx, oops>>

\* Faulty form: only context 0 is taken out.
ContextZero == {ctx[c].qp_num : c \in {d \in Ctx : d = 0 /\ ctx[d].valid}}

\* The QPs hh_reset takes out: those of the valid contexts, or, when there are
\* none, qp_cnt QPs from the one of the last configuration, or from QP 1.
ResetQps ==
    IF Bound # {} THEN Bound
    ELSE {q \in Qp : /\ q >= Fallback
                     /\ q < Fallback + DepthOf(rcfg.qp_cnt)}

\* hh_reset: setup_qps follows qp_list for each of them.
hh_reset ==
    /\ round' = "idle"
    /\ ernic' = [q \in Qp |-> IF q \in ResetQps THEN Disabled(ernic[q]) ELSE ernic[q]]
    /\ ctx' = [c \in Ctx |-> [ctx[c] EXCEPT !.valid = FALSE]]
    /\ oops' = (oops \/ ~(ResetQps \subseteq qp_list))
    /\ UNCHANGED <<qp_list, rcfg, eng, wqe, run_wqe_idx>>

HH_RESET == mutx /\ hh_reset /\ UNCHANGED mutx

hh_dev_close == mutx /\ hh_reset /\ mutx' = FALSE
-----------------------------------------------------------------------------
Next ==
    \/ \E q \in Qp : CreateQp(q) \/ DestroyQp(q) \/ PostOwn(q)
    \/ hh_dev_open \/ hh_dev_close
    \/ \E c \in Ctx, q \in Qp, b \in Base, d \in Depth, r \in BOOLEAN :
          HH_QPCTX_COMMIT(c, q, b, d, r)
    \/ \E q \in Qp, b \in Base, d \in Depth, n \in 0 .. 1, i \in Slot :
          HH_CONFIG(q, b, d, n, i)
    \/ \E i \in Slot, cfg \in BOOLEAN : ConfigRefused(i, cfg)
    \/ \E s \in Slot, c \in Ctx : HH_WQE_COMMIT(s, c)
    \/ \E s \in Slot : HH_SET_WQE_IDX(s)
    \/ HH_START \/ HH_ABORT \/ EngineSends \/ EngineDone \/ HH_RESET

Spec == Init /\ [][Next]_vars
-----------------------------------------------------------------------------
\* While a QP is in the handshake, the engine and the ERNIC agree about its
\* ring: same memory, same depth, same index.  A config-only commit must not
\* clear the ERNIC's index ("the Engine's sq_pi will desync with the ERNIC QP's
\* SQPI"), and a rebind must clear both.
EngineAndErnicAgree ==
    \A c \in Ctx :
        ctx[c].valid =>
            LET r == ernic[ctx[c].qp_num] IN
            /\ r.hsk
            /\ eng[c].qp = ctx[c].qp_num
            /\ eng[c].base = r.base /\ eng[c].depth = r.depth /\ eng[c].pi = r.pi

\* After the device is closed no QP is left in the handshake: its depth and its
\* doorbell are those of the RDMA driver, and no reset followed a QP that does
\* not exist.
ClosedRestoresQps ==
    /\ ~mutx => \A q \in qp_list : /\ ~ernic[q].hsk /\ ernic[q].db = "driver"
                                   /\ ernic[q].depth = UserDepth
    /\ ~oops

=============================================================================
