------------------------------ MODULE XibQpLife ------------------------------
(***************************************************************************)
(* The life of the QPs of the driver: create, modify and destroy (main.c,  *)
(* verbs.c) against the interrupt handler xib_irq, the tasklets it         *)
(* schedules and the recovery of a QP after a fatal error (rnic.c).        *)
(*                                                                         *)
(* Every QP has a thread of the RDMA core that calls the driver for it;    *)
(* the interrupt handler runs one event after the other and the tasklets   *)
(* run on any processor.  A QP is known to the hardware by its index       *)
(* hw_qpn.  What the driver cannot survive (a NULL or freed QP) sets crash *)
(* and ends the behaviour.  Discipline names what the users of the driver  *)
(* and the hardware are assumed to respect:                                *)
(*   "booted"   no QP but the GSI QP is created before the probe is over   *)
(*   "gsi"      the GSI QP exists from before the first RC QP until after  *)
(*              the last, as the connection manager keeps it               *)
(*   "quiet"    a QP is destroyed when its traffic has stopped and its     *)
(*              interrupts have been served                                *)
(*   "serial"   no two QPs are being destroyed at the same time            *)
(*   "settled"  no fatal error is served during the change to RTR          *)
(*   "rc"       no fatal error arrives on the GSI QP                       *)
(***************************************************************************)
EXTENDS Integers, Sequences, FiniteSets

CONSTANTS
    QP,          \* addresses of struct xib_qp
    GsiQPs,      \* those the core allocates for GSI QPs
    UserQPs,     \* those it allocates for QPs of user processes
    NULL,
    MaxQp,       \* dev_attr.max_qp
    Failures,    \* how a creation may fail: "no_buf", "late"
    Discipline,  \* see above
    Kinds,       \* the interrupts of a QP: "comp", "rq", "cnp"
    States,      \* the states modify_qp is called for, beside RTR
    ErrorsBefore, \* fatal errors of earlier QPs, served before the behaviour
    MaxEvents    \* bound: interrupts the hardware raises

IbStates == {"RESET", "INIT", "RTR", "RTS", "SQD", "ERR"}
DisciplineNames == {"booted", "gsi", "quiet", "serial", "settled", "rc"}

ASSUME QpLifeAssumption ==
    /\ IsFiniteSet(QP) /\ NULL \notin QP
    /\ GsiQPs \subseteq QP /\ UserQPs \subseteq QP /\ GsiQPs \cap UserQPs = {}
    /\ ErrorsBefore \in 0 .. MaxQp
    /\ Kinds \subseteq {"comp", "rq", "cnp"}
    /\ States \subseteq IbStates
    /\ MaxQp \in Nat \ {0, 1}
    /\ Failures \subseteq {"no_buf", "late"}
    /\ Discipline \subseteq DisciplineNames
    /\ MaxEvents \in Nat

VARIABLES
    qp,           \* the QPs: type, hw_qpn, state, buffers and where their thread is
    qp_map,       \* the indices taken in the bitmap of QP numbers
    qp_list,      \* xib->qp_list: index -> QP
    gsi_qp,       \* xib->gsi_qp
    reserved,     \* the probe has set the index of QP1 aside
    QP_CONF,      \* index -> the bits QP_ENABLE, QP_UNDER_RECOVERY, interrupts
    moved,        \* indices whose ring pointers in the hardware are not 0
    sw_override,  \* the override bit of ADV_CONF, which makes them writable
    INT_STAT,     \* pending interrupts, write 1 to clear
    int_bits,     \* per kind of interrupt, the bits of the QPs it is for
    errq, errq_wptr, in_pkt_err_db_local,  \* the ring of fatal errors
    irq,          \* what xib_irq still has to do
    task,         \* tasklets scheduled, <<QP, tasklet>>
    crash,        \* what brought the kernel down, or "no"
    (* history *)
    events,       \* interrupts raised
    faulty,       \* indices the hardware reported a fatal error for
    stopped,      \* those that xib_fatal_event has stopped
    swept         \* a pending interrupt was cleared and never looked at

tableVars == <<qp_map, qp_list, gsi_qp, reserved>>
hwVars == <<QP_CONF, moved, sw_override>>
intVars == <<INT_STAT, int_bits, irq, swept>>
errVars == <<errq, errq_wptr, in_pkt_err_db_local, faulty, stopped>>
vars == <<qp, tableVars, hwVars, intVars, errVars, task, crash, events>>

Indices == 0 .. MaxQp - 1
Owned == {"build", "live", "av", "reset1", "reset2", "reset3", "disable", "free", "unlist"}
Dying == {"reset1", "reset2", "reset3", "disable", "free", "unlist"}
Holders(i) == {q \in QP : qp[q].pc \in Owned /\ qp[q].hw_qpn = i}

ConfOff == [enable |-> FALSE, recovery |-> FALSE, irq |-> FALSE]
NoQp == [pc |-> "none", type |-> "none", hw_qpn |-> 0, state |-> "RESET",
         bufs |-> FALSE, word |-> {}, conf |-> ConfOff]

Init ==
    /\ qp = [q \in QP |-> NoQp]
    /\ qp_map = {}
    /\ qp_list = [i \in Indices |-> NULL] /\ gsi_qp = NULL /\ reserved = FALSE
    /\ QP_CONF = [i \in Indices |-> ConfOff] /\ moved = {} /\ sw_override = FALSE
    /\ INT_STAT = {} /\ int_bits = [k \in Kinds |-> {}] /\ irq = << >>
    /\ errq = [i \in Indices |-> IF i < ErrorsBefore THEN MaxQp ELSE 0]
    /\ errq_wptr = ErrorsBefore /\ in_pkt_err_db_local = ErrorsBefore
    /\ task = {} /\ crash = "no"
    /\ events = 0 /\ faulty = {} /\ stopped = {} /\ swept = FALSE

Assumes(d) == d \in Discipline
GsiUp == gsi_qp # NULL /\ qp[gsi_qp].pc = "live"
-----------------------------------------------------------------------------
(* The bitmap of QP numbers.  xib_bmap_alloc_id loads the word, looks for   *)
(* the first zero bit and stores the word back; xib_bmap_release_id clears  *)
(* its bit atomically, but its callers do not hold xib->lock, so the store  *)
(* may bring a bit back that was just released.                             *)

FirstZero(map) == CHOOSE i \in Indices \ map : \A j \in Indices \ map : i <= j

\* Faulty form: the lock is not taken.
AllocIdUnlocked(q) == TRUE

\* The creation of q takes xib->lock.
AllocIdLock(q) == \A p \in QP \ {q} : qp[p].pc # "alloc"

\* xlnx_ernic_probe sets index 0 aside for QP1, after it has registered the
\* device.
PreReserveQp1 ==
    /\ ~reserved /\ \A p \in QP : qp[p].pc # "alloc"
    /\ reserved' = TRUE
    /\ qp_map' = IF qp_map = Indices THEN qp_map
                 ELSE qp_map \cup {FirstZero(qp_map)}
    /\ UNCHANGED <<qp, qp_list, gsi_qp, hwVars, intVars, errVars, task,
                   crash, events>>
-----------------------------------------------------------------------------
(* xib_create_qp *)

\* An RC QP takes its index: first half, the bitmap is loaded.
CreateLoad(q) ==
    /\ qp[q].pc = "none" /\ q \notin GsiQPs /\ AllocIdLock(q)
    /\ Assumes("booted") => reserved
    /\ Assumes("gsi") => GsiUp
    /\ qp_map # Indices
    /\ qp' = [qp EXCEPT ![q] = [NoQp EXCEPT !.pc = "alloc", !.word = qp_map,
                            !.type = IF q \in UserQPs THEN "USER" ELSE "KERNEL",
                            !.hw_qpn = FirstZero(qp_map)]]
    /\ UNCHANGED <<qp_map, qp_list, gsi_qp, reserved, hwVars, intVars, errVars,
                   task, crash, events>>

\* "QPs are not available": the core frees the QP it allocated.
CreateNoId(q) ==
    /\ qp[q].pc = "none" /\ q \notin GsiQPs /\ AllocIdLock(q)
    /\ Assumes("booted") => reserved
    /\ qp_map = Indices
    /\ qp' = [qp EXCEPT ![q].pc = "gone"]
    /\ UNCHANGED <<tableVars, hwVars, intVars, errVars, task, crash, events>>

\* Second half: the word is stored with the bit set.
CreateStore(q) ==
    /\ qp[q].pc = "alloc"
    /\ qp_map' = qp[q].word \cup {qp[q].hw_qpn}
    /\ qp' = [qp EXCEPT ![q].pc = "build", ![q].word = {}]
    /\ UNCHANGED <<qp_list, gsi_qp, reserved, hwVars, intVars, errVars, task,
                   crash, events>>

\* The queues of an RC QP are allocated and programmed at its index.
xib_alloc_qp_buffers(r) == [r EXCEPT !.pc = "live", !.bufs = TRUE]

\* QP1 has one buffer more, from which its frames are sent.
xib_alloc_gsi_qp_buffers(r) == [r EXCEPT !.pc = "live", !.type = "GSI", !.bufs = TRUE]

\* The QP is listed under its index; the hardware has nothing against it yet.
xib_qp_add(q, i) ==
    /\ qp_list' = [qp_list EXCEPT ![i] = q]
    /\ faulty' = faulty \ {i}
    /\ stopped' = stopped \ {i}
    /\ UNCHANGED <<qp_map, reserved, hwVars, intVars, errq, errq_wptr,
                   in_pkt_err_db_local, task, crash, events>>

\* The rest of xib_create_kernel_qp: buffers, the lists of the queues, the
\* tasklets and the entry in the list.
CreateKernelDone(q) ==
    /\ qp[q].pc = "build" /\ qp[q].type = "KERNEL"
    /\ qp' = [qp EXCEPT ![q] = xib_alloc_qp_buffers(@)]
    /\ xib_qp_add(q, qp[q].hw_qpn)
    /\ UNCHANGED gsi_qp

\* The rest of xib_create_user_qp: the queues are memory of the process.
CreateUserDone(q) ==
    /\ qp[q].pc = "build" /\ qp[q].type = "USER"
    /\ qp' = [qp EXCEPT ![q].pc = "live", ![q].bufs = TRUE]
    /\ xib_qp_add(q, qp[q].hw_qpn)
    /\ UNCHANGED gsi_qp

\* xib_create_kernel_qp fails.  Without buffers the index is released and the
\* QP is freed, which the core frees once more; without memory for the lists,
\* or with too small a CQ, the index and the buffers stay taken.
CreateFails(q, why) ==
    /\ qp[q].pc = "build" /\ qp[q].type = "KERNEL"
    /\ qp' = [qp EXCEPT ![q].pc = "gone"]
    /\ qp_map' = IF why = "no_buf" THEN qp_map \ {qp[q].hw_qpn} ELSE qp_map
    /\ crash' = IF why = "no_buf" THEN "double_free" ELSE crash
    /\ UNCHANGED <<qp_list, gsi_qp, reserved, hwVars, intVars, errVars,
                   task, events>>

\* xib_gsi_create_qp: the index is 0 by definition.  The core creates one GSI
\* QP for the port.
GsiCreate(q) ==
    /\ qp[q].pc = "none" /\ q \in GsiQPs
    /\ \A p \in GsiQPs \ {q} : qp[p].pc \in {"none", "gone"}
    /\ qp' = [qp EXCEPT ![q] = xib_alloc_gsi_qp_buffers(NoQp)]
    /\ gsi_qp' = q
    /\ xib_qp_add(q, 0)

\* xib_gsi_create_qp fails for want of memory: with the buffers refused nothing
\* is left; with imm_inv_data refused gsi_qp already names the QP the core
\* frees.
GsiCreateFails(q, why) ==
    /\ qp[q].pc = "none" /\ q \in GsiQPs
    /\ \A p \in GsiQPs \ {q} : qp[p].pc \in {"none", "gone"}
    /\ qp' = [qp EXCEPT ![q] = [NoQp EXCEPT !.pc = "gone", !.type = "GSI"]]
    /\ gsi_qp' = IF why = "late" THEN q ELSE gsi_qp
    /\ UNCHANGED <<qp_map, qp_list, reserved, hwVars, intVars, errVars,
                   task, crash, events>>
-----------------------------------------------------------------------------
(* The ring of fatal errors: its write pointer runs over 1..MaxQp as those  *)
(* of the other rings do.                                                   *)

\* The place of the k-th new entry of the error ring: the local pointer wraps
\* before it is used.
ErrEntry(k) == (in_pkt_err_db_local + k - 1) % MaxQp

ErrReceived ==
    IF in_pkt_err_db_local > errq_wptr
      THEN (errq_wptr + MaxQp) - in_pkt_err_db_local
      ELSE errq_wptr - in_pkt_err_db_local

ErrIndices == {errq[ErrEntry(k)] - 1 : k \in 1 .. ErrReceived}

-----------------------------------------------------------------------------
(* xib_modify_qp *)

\* The transitions the core admits for an RC QP (ib_modify_qp_is_ok).
ib_modify_qp_is_ok(old, new) ==
    \/ new \in {"RESET", "ERR"}
    \/ <<old, new>> \in {<<"RESET", "INIT">>, <<"INIT", "INIT">>, <<"INIT", "RTR">>,
                         <<"RTR", "RTS">>, <<"RTS", "SQD">>, <<"SQD", "RTS">>}

\* QP_CONF as xrnic_qp_modify writes it for state INIT: user QPs poll.
InitConf(q) ==
    [enable |-> TRUE, recovery |-> FALSE,
     irq |-> qp[q].hw_qpn = 0 \/ qp[q].type # "USER"]

\* Every state but INIT only changes the state word.
ModifyQp(q, new) ==
    LET i == qp[q].hw_qpn IN
    /\ qp[q].pc = "live"
    /\ ib_modify_qp_is_ok(qp[q].state, new) /\ new # "RTR"
    /\ qp' = [qp EXCEPT ![q].state = new]
    /\ IF new = "INIT"
         THEN /\ QP_CONF' = [QP_CONF EXCEPT ![i] = InitConf(q)]
              /\ stopped' = stopped \ {i}
         ELSE UNCHANGED <<QP_CONF, stopped>>
    /\ UNCHANGED <<tableVars, moved, sw_override, intVars, errq, errq_wptr,
                   in_pkt_err_db_local, faulty, task, crash, events>>

\* The change to RTR carries the address vector: QP_CONF is read, its address
\* family bit is changed, and it is written back.
ModifyAvRead(q) ==
    /\ qp[q].pc = "live" /\ ib_modify_qp_is_ok(qp[q].state, "RTR")
    /\ Assumes("settled") => qp[q].hw_qpn \notin ErrIndices
    /\ qp' = [qp EXCEPT ![q].pc = "av", ![q].conf = QP_CONF[qp[q].hw_qpn]]
    /\ UNCHANGED <<tableVars, hwVars, intVars, errVars, task, crash, events>>

ModifyAvWrite(q) ==
    /\ qp[q].pc = "av"
    /\ QP_CONF' = [QP_CONF EXCEPT ![qp[q].hw_qpn] = qp[q].conf]
    /\ qp' = [qp EXCEPT ![q].pc = "live", ![q].state = "RTR", ![q].conf = ConfOff]
    /\ UNCHANGED <<tableVars, moved, sw_override, intVars, errVars, task, crash,
                   events>>
-----------------------------------------------------------------------------
(* xib_destroy_qp *)

Pending(q) ==
    \/ \E k \in Kinds : qp[q].hw_qpn + 1 \in int_bits[k]
    \/ \E t \in task : t[1] = q
    \/ qp[q].hw_qpn \in ErrIndices
    \/ qp[q].type = "GSI" /\ (irq # << >> \/ "mad" \in INT_STAT)

Goto(q, pc) == qp' = [qp EXCEPT ![q].pc = pc]

\* xrnic_reset_user_qp waits for the queues to run empty (each wait but the
\* first is given up after a second), stops the QP and turns the override on.
DestroyStop(q) ==
    /\ qp[q].pc = "live"
    /\ Assumes("quiet") => ~Pending(q)
    /\ Assumes("serial") => \A p \in QP : qp[p].pc \notin Dying
    /\ Assumes("gsi") /\ qp[q].type = "GSI" =>
          \A p \in QP : qp[p].type # "GSI" => qp[p].pc \in {"none", "gone"}
    /\ Goto(q, "reset1")
    /\ QP_CONF' = [QP_CONF EXCEPT ![qp[q].hw_qpn].enable = FALSE]
    /\ sw_override' = TRUE
    /\ UNCHANGED <<tableVars, moved, intVars, errVars, task, crash, events>>

\* Faulty form: the override is never on when the pointers are written.
ZeroedNever(i) == moved

\* The ring pointers are written with 0, which has no effect on them without
\* the override.
Zeroed(i) == IF sw_override THEN moved \ {i} ELSE moved

DestroyZero(q) ==
    /\ qp[q].pc = "reset1"
    /\ Goto(q, "reset2")
    /\ moved' = Zeroed(qp[q].hw_qpn)
    /\ UNCHANGED <<tableVars, QP_CONF, sw_override, intVars, errVars, task, crash,
                   events>>

\* The QP is enabled again, taken out of recovery, and the override is turned
\* off.
DestroyEnable(q) ==
    /\ qp[q].pc = "reset2"
    /\ Goto(q, "disable")
    /\ QP_CONF' = [QP_CONF EXCEPT ![qp[q].hw_qpn].enable = TRUE,
                                  ![qp[q].hw_qpn].recovery = FALSE]
    /\ stopped' = stopped \ {qp[q].hw_qpn}
    /\ sw_override' = FALSE
    /\ UNCHANGED <<tableVars, moved, intVars, errq, errq_wptr,
                   in_pkt_err_db_local, faulty, task, crash, events>>

\* Faulty form: QP_CONF is left as the reset wrote it.
KeepConf(conf) == conf

\* xrnic_qp_disable clears the whole of QP_CONF.
DisabledConf(conf) == ConfOff

xrnic_qp_disable(q) ==
    /\ qp[q].pc = "disable"
    /\ Goto(q, "free")
    /\ QP_CONF' = [QP_CONF EXCEPT ![qp[q].hw_qpn] = DisabledConf(@)]
    /\ UNCHANGED <<tableVars, moved, sw_override, intVars, errVars, task, crash,
                   events>>

\* The buffers and the lists of the queues are freed.
DestroyFree(q) ==
    /\ qp[q].pc = "free"
    /\ qp' = [qp EXCEPT ![q].pc = "unlist", ![q].bufs = FALSE]
    /\ UNCHANGED <<tableVars, hwVars, intVars, errVars, task, crash, events>>

\* Which destructions release the index of the QP: that of QP1 stays reserved.
FreesIndex(q) == qp[q].type \in {"KERNEL", "USER"}

\* A kernel QP leaves the list; a user QP stays there, dangling; the GSI QP
\* stays there too and is forgotten before its tasklet is waited for.
DestroyDone(q) ==
    /\ qp[q].pc = "unlist"
    /\ Goto(q, IF qp[q].type = "GSI" THEN "kill" ELSE "gone")
    /\ qp_list' = IF qp[q].type = "KERNEL"
                    THEN [qp_list EXCEPT ![qp[q].hw_qpn] = NULL] ELSE qp_list
    /\ gsi_qp' = IF qp[q].type = "GSI" THEN NULL ELSE gsi_qp
    /\ qp_map' = IF FreesIndex(q) THEN qp_map \ {qp[q].hw_qpn} ELSE qp_map
    /\ UNCHANGED <<reserved, hwVars, intVars, errVars, task, crash, events>>

\* tasklet_kill returns when the tasklet is not scheduled; then the core frees
\* the QP.
GsiTaskletKilled(q) ==
    /\ qp[q].pc = "kill" /\ <<q, "comp">> \notin task
    /\ Goto(q, "gone")
    /\ UNCHANGED <<tableVars, hwVars, intVars, errVars, task, crash, events>>
-----------------------------------------------------------------------------
(* The hardware (external). *)

Traffic(i) ==
    /\ events < MaxEvents
    /\ QP_CONF[i].enable
    /\ Assumes("quiet") => \A q \in Holders(i) : qp[q].pc \notin Dying
    /\ events' = events + 1
    /\ moved' = moved \cup {i}

\* A completion, a received frame or a congestion notification of a QP: its
\* bit, which is its QP number, and the summary bit are set.
HwEvent(i, k) ==
    /\ Traffic(i) /\ (k \in {"comp", "rq"} => QP_CONF[i].irq)
    /\ int_bits' = [int_bits EXCEPT ![k] = @ \cup {i + 1}]
    /\ INT_STAT' = INT_STAT \cup {k}
    /\ UNCHANGED <<qp, tableVars, QP_CONF, sw_override, irq, swept, errVars, task,
                   crash>>

\* A management datagram for QP1.
HwMad ==
    /\ Traffic(0)
    /\ INT_STAT' = INT_STAT \cup {"mad"}
    /\ UNCHANGED <<qp, tableVars, QP_CONF, sw_override, int_bits, irq, swept,
                   errVars, task, crash>>

\* A packet with a fatal error: its QP number is written to the error ring.
HwFatal(i) ==
    /\ Traffic(i)
    /\ Assumes("rc") => i # 0
    /\ Assumes("settled") => \A q \in Holders(i) : qp[q].pc # "av"
    /\ errq' = [errq EXCEPT ![errq_wptr % MaxQp] = i + 1]
    /\ errq_wptr' = (errq_wptr % MaxQp) + 1
    /\ faulty' = faulty \cup {i}
    /\ INT_STAT' = INT_STAT \cup {"fatal"}
    /\ UNCHANGED <<qp, tableVars, QP_CONF, sw_override, int_bits, irq, swept,
                   in_pkt_err_db_local, stopped, task, crash>>
-----------------------------------------------------------------------------
(* xib_irq *)

IrqKinds == {"comp", "rq", "cnp", "mad", "fatal"}

\* One test of the status in xib_irq.
IfSet(k, stat) == IF k \in stat THEN <<k>> ELSE << >>

\* Faulty form: the others are cleared unseen.
LooksAtFirst(stat) ==
    IF "comp" \in stat THEN <<"comp">> ELSE IfSet("rq", stat)

\* The handlers the status asks for, in the order of xib_irq.
Asked(stat) ==
    IfSet("comp", stat) \o IfSet("rq", stat) \o IfSet("cnp", stat)
        \o IfSet("mad", stat) \o IfSet("fatal", stat)

\* The status is read and cleared; the interrupt was requested after QP1 was
\* set aside.
IrqEntry ==
    /\ reserved /\ irq = << >> /\ INT_STAT # {}
    /\ irq' = Asked(INT_STAT)
    /\ INT_STAT' = {}
    /\ UNCHANGED <<qp, tableVars, hwVars, int_bits, swept, errVars, task, crash,
                   events>>

\* Faulty form: the bit number is taken for the index.
ListedUnderBit(b) == qp_list[b % MaxQp]

\* ffs counts bits from 1 and qp_list starts with QP1.
ListedFor(b) == qp_list[(b + 1) - 2]

\* The tasklets a kind of interrupt schedules on the QPs of its bits.
TasksFor(k, listed) ==
    IF k = "cnp" THEN {<<q, "cnp">> : q \in listed}
    ELSE {<<q, "comp">> : q \in {p \in listed : qp[p].type # "USER"}}

\* What following these pointers does.
FollowAll(ptrs) ==
    IF NULL \in ptrs THEN "null_qp"
    ELSE IF \E q \in ptrs : qp[q].pc = "gone" THEN "freed_qp"
    ELSE "no"

\* xib_irq_event: a missing QP is reported and used all the same.
IrqEvent(k) ==
    LET listed == {ListedFor(b) : b \in int_bits[k]} IN
    /\ irq # << >> /\ Head(irq) = k
    /\ irq' = Tail(irq)
    /\ int_bits' = [int_bits EXCEPT ![k] = {}]
    /\ crash' = FollowAll(listed)
    /\ task' = task \cup TasksFor(k, listed \ {NULL})
    /\ UNCHANGED <<qp, tableVars, hwVars, INT_STAT, swept, errVars, events>>

IrqMad ==
    /\ irq # << >> /\ Head(irq) = "mad"
    /\ irq' = Tail(irq)
    /\ crash' = FollowAll({gsi_qp})
    /\ task' = IF gsi_qp = NULL THEN task ELSE task \cup {<<gsi_qp, "comp">>}
    /\ UNCHANGED <<qp, tableVars, hwVars, INT_STAT, int_bits, swept, errVars, events>>

\* Faulty form: the QP is not disabled.
RecoverOnly(conf) == [conf EXCEPT !.recovery = TRUE]

StopConf(conf) == [conf EXCEPT !.enable = FALSE, !.recovery = TRUE]

\* xib_fatal_event: the QPs of the new entries are stopped and their handler
\* is scheduled.
IrqFatal ==
    LET hit    == ErrIndices \cap Indices
        listed == {qp_list[i] : i \in hit} \ {NULL}
    IN
    /\ irq # << >> /\ Head(irq) = "fatal"
    /\ irq' = IF errq_wptr = in_pkt_err_db_local THEN Tail(irq) ELSE <<"clear">>
    /\ QP_CONF' = [i \in Indices |->
                     IF i \in hit THEN StopConf(QP_CONF[i]) ELSE QP_CONF[i]]
    /\ stopped' = stopped \cup hit
    /\ task' = task \cup {<<q, "fatal">> : q \in listed}
    /\ crash' = FollowAll(listed)
    /\ in_pkt_err_db_local' = errq_wptr
    /\ UNCHANGED <<qp, tableVars, moved, sw_override, INT_STAT, int_bits, swept,
                   errq, errq_wptr, faulty, events>>

\* "clear fatal interrupt": INT_STAT is read, its fatal bit is added, and it is
\* written back: every interrupt pending now is cleared.
IrqClear ==
    /\ irq # << >> /\ Head(irq) = "clear"
    /\ irq' = Tail(irq)
    /\ INT_STAT' = {}
    /\ swept' = (swept \/ INT_STAT # {})
    /\ UNCHANGED <<qp, tableVars, hwVars, int_bits, errVars, task, crash, events>>
-----------------------------------------------------------------------------
(* The tasklets. *)

\* xib_comp_handler calls the handlers of the two completion queues;
\* xib_gsi_comp_handler goes through the receive ring of gsi_qp.
RunComp(q) ==
    /\ <<q, "comp">> \in task
    /\ task' = task \ {<<q, "comp">>}
    /\ crash' = IF qp[q].type = "GSI"
                  THEN IF gsi_qp # NULL /\ ~qp[gsi_qp].bufs THEN "freed_qp"
                       ELSE FollowAll({gsi_qp})
                  ELSE FollowAll({q})
    /\ UNCHANGED <<qp, tableVars, hwVars, intVars, errVars, events>>

\* xib_cnp_handler sends through the GSI QP (send_out_cnp).
RunCnp(q) ==
    /\ <<q, "cnp">> \in task
    /\ task' = task \ {<<q, "cnp">>}
    /\ crash' = IF gsi_qp # NULL /\ ~qp[gsi_qp].bufs THEN "freed_qp"
                ELSE FollowAll({q, gsi_qp})
    /\ UNCHANGED <<qp, tableVars, hwVars, intVars, errVars, events>>

\* xib_fatal_handler waits for the queues and puts the QP under recovery.  The
\* GSI QP never initialises this tasklet.
RunFatal(q) ==
    /\ <<q, "fatal">> \in task
    /\ task' = task \ {<<q, "fatal">>}
    /\ crash' = IF qp[q].type = "GSI" THEN "no_handler" ELSE FollowAll({q})
    /\ QP_CONF' = [QP_CONF EXCEPT ![qp[q].hw_qpn] = StopConf(@)]
    /\ UNCHANGED <<qp, tableVars, moved, sw_override, intVars, errVars, events>>
-----------------------------------------------------------------------------
Create(q) ==
    \/ CreateLoad(q) \/ CreateNoId(q) \/ CreateStore(q)
    \/ CreateKernelDone(q) \/ CreateUserDone(q)
    \/ \E why \in Failures : CreateFails(q, why) \/ GsiCreateFails(q, why)
    \/ GsiCreate(q)

Modify(q) ==
    \/ \E new \in States : ModifyQp(q, new)
    \/ ModifyAvRead(q) \/ ModifyAvWrite(q)

Destroy(q) ==
    \/ DestroyStop(q) \/ DestroyZero(q) \/ DestroyEnable(q)
    \/ xrnic_qp_disable(q) \/ DestroyFree(q) \/ DestroyDone(q)

Hardware ==
    \/ \E i \in Indices, k \in Kinds : HwEvent(i, k)
    \/ HwMad
    \/ \E i \in Indices : HwFatal(i)

Irq == IrqEntry \/ (\E k \in Kinds : IrqEvent(k)) \/ IrqMad \/ IrqFatal \/ IrqClear

Tasklet(q) == RunComp(q) \/ RunCnp(q) \/ RunFatal(q)

Next ==
    /\ crash = "no"
    /\ \/ PreReserveQp1
       \/ \E q \in QP : Create(q) \/ Modify(q) \/ Destroy(q) \/ GsiTaskletKilled(q) \/ Tasklet(q)
       \/ Hardware
       \/ Irq

Spec == Init /\ [][Next]_vars

(* The interrupt line is level triggered and the kernel runs what it was    *)
(* asked to run; the probe goes on to its end.                              *)
Fairness ==
    /\ WF_vars(crash = "no" /\ Irq)
    /\ WF_vars(crash = "no" /\ PreReserveQp1)
    /\ \A q \in QP : WF_vars(crash = "no" /\ Tasklet(q))

FairSpec == Spec /\ Fairness
-----------------------------------------------------------------------------
Conf == [enable : BOOLEAN, recovery : BOOLEAN, irq : BOOLEAN]
QpRecord == [pc : Owned \cup {"none", "alloc", "kill", "gone"},
             type : {"none", "KERNEL", "USER", "GSI"}, hw_qpn : Indices,
             state : IbStates, bufs : BOOLEAN, word : SUBSET Indices, conf : Conf]

\* Every variable keeps its type.
TypeOK ==
    /\ qp \in [QP -> QpRecord]
    /\ qp_map \in SUBSET Indices
    /\ qp_list \in [Indices -> QP \cup {NULL}] /\ gsi_qp \in QP \cup {NULL}
    /\ reserved \in BOOLEAN
    /\ QP_CONF \in [Indices -> Conf] /\ moved \in SUBSET Indices
    /\ sw_override \in BOOLEAN
    /\ INT_STAT \in SUBSET (Kinds \cup {"mad", "fatal"})
    /\ int_bits \in [Kinds -> SUBSET (1 .. MaxQp)]
    /\ errq \in [Indices -> 0 .. MaxQp] /\ errq_wptr \in 0 .. MaxQp
    /\ in_pkt_err_db_local \in 0 .. MaxQp
    /\ irq \in Seq(IrqKinds \cup {"clear"})
    /\ task \in SUBSET (QP \X {"comp", "cnp", "fatal"})
    /\ crash \in {"no", "null_qp", "freed_qp", "double_free", "no_handler"}
    /\ events \in 0 .. MaxEvents
    /\ faulty \in SUBSET Indices /\ stopped \in SUBSET Indices
    /\ swept \in BOOLEAN

\* Two QPs never share a hardware index, however the unlocked releases of
\* xib_destroy_qp fall into an allocation, and the list finds each QP there.
IndexIdentifiesQp ==
    /\ \A p, q \in QP :
          qp[p].pc \in Owned /\ qp[q].pc \in Owned /\ qp[p].hw_qpn = qp[q].hw_qpn
             => p = q
    /\ \A q \in QP : qp[q].pc \in Owned \ {"build"} => qp_list[qp[q].hw_qpn] = q

\* The hardware never works on a QP whose queues have been freed: while
\* QP_ENABLE is set at an index, a QP with buffers owns the index.
EnabledQpHasBuffers ==
    \A i \in Indices : QP_CONF[i].enable => \E q \in Holders(i) : qp[q].bufs

\* A QP starts with ring pointers of 0, left so by the reset of whichever QP
\* had its index before: nothing else clears them.
NewQpStartsAtZero ==
    [][\A q \in QP : qp[q].pc \in {"none", "build"} /\ qp'[q].pc = "live"
                       => qp'[q].hw_qpn \notin moved]_vars

\* xib_fatal_event stops the QPs the hardware complained about, and no other:
\* a QP is under recovery only if its own error was reported, and once the
\* error was taken from the ring it stays disabled until it is initialised or
\* reset.
FatalStopsOnlyFaulty ==
    /\ \A i \in Indices : QP_CONF[i].recovery => i \in faulty
    /\ \A i \in stopped : ~QP_CONF[i].enable

\* Under the discipline the module assumes, the interrupt handler and the
\* tasklets never meet a NULL or freed QP, and no value leaves its type.
NoCrash == crash = "no" /\ TypeOK

\* No interrupt of a QP is lost between the hardware and the handler, however
\* the two interleave: a bit that is set is announced by INT_STAT or is still on
\* the way of the handler, unless the write-back of INT_STAT in xib_fatal_event
\* swept it.
InterruptNotLost ==
    \A k \in Kinds : int_bits[k] # {} =>
        swept \/ k \in INT_STAT \/ \E j \in 1 .. Len(irq) : irq[j] = k

\* "clear fatal interrupt": serving a fatal error loses no other interrupt.
EveryInterruptServed ==
    \A k \in Kinds : (int_bits[k] # {}) ~> (int_bits[k] = {} \/ crash # "no")
=============================================================================
