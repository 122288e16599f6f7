-------------------------- MODULE XibQpLifeCorrect --------------------------
(***************************************************************************)
(* Why the life of the QPs is correct: the inductive invariants behind the *)
(* safety properties of XibQpLife.  They build on each other; each names   *)
(* the part of the discipline it needs and no more.                        *)
(***************************************************************************)
EXTENDS XibQpLife

(* Without any discipline. *)

\* xib_irq serves the fatal errors last, so going over to "clear" drops nothing
\* it was still asked for.
FatalLast == \A j \in 1 .. Len(irq) : irq[j] \in {"fatal", "clear"} => j = Len(irq)

IrqInv == FatalLast /\ InterruptNotLost
-----------------------------------------------------------------------------
(* With "booted": index 0 is the GSI QP's. *)

\* What a QP is made of at each point of its life.
ShapeInv ==
    \A q \in QP :
        /\ q \in GsiQPs =>
              /\ qp[q].pc \notin {"alloc", "build"} /\ qp[q].hw_qpn = 0
              /\ qp[q].pc \in Owned => qp[q].type = "GSI"
        /\ q \notin GsiQPs =>
              /\ qp[q].type # "GSI"
              /\ qp[q].pc \in Owned \cup {"alloc"} => qp[q].hw_qpn # 0
        /\ qp[q].bufs <=> qp[q].pc \in Owned \ {"build", "unlist"}

\* The bitmap holds the index of QP1 once it was set aside, and nothing before.
ReservedInv ==
    /\ reserved => 0 \in qp_map
    /\ ~reserved => qp_map = {} /\ \A q \in QP \ GsiQPs : qp[q].pc = "none"

\* Every index that is owned is taken in the map, and also in the word that an
\* allocation is about to store; the index it chose is not in that word.
MapInv ==
    /\ \A q \in QP \ GsiQPs : qp[q].pc \in Owned => qp[q].hw_qpn \in qp_map
    /\ \A q \in QP : qp[q].pc = "alloc" =>
          /\ reserved /\ 0 \in qp[q].word /\ qp[q].hw_qpn \notin qp[q].word
          /\ \A p \in QP \ GsiQPs : qp[p].pc \in Owned => qp[p].hw_qpn \in qp[q].word
    /\ \A p, q \in QP : qp[p].pc = "alloc" /\ qp[q].pc = "alloc" => p = q

IndexInv == ShapeInv /\ ReservedInv /\ MapInv /\ IndexIdentifiesQp

\* xrnic_qp_disable leaves the index disabled for the rest of the destruction.
ConfInv ==
    /\ EnabledQpHasBuffers
    /\ \A q \in QP : qp[q].pc = "free" => ~QP_CONF[qp[q].hw_qpn].enable
-----------------------------------------------------------------------------
(* With "booted" and "quiet": what is still to be served is for a QP that   *)
(* is there.                                                                *)

Up(q) == qp[q].pc \in {"live", "av"}
UpAt(i) == \E q \in Holders(i) : Up(q)
GsiThere == gsi_qp \in GsiQPs /\ Up(gsi_qp)

BitsServed == \A k \in Kinds : \A b \in int_bits[k] : UpAt(b - 1)
ErrorsServed == ErrIndices \subseteq Indices /\ \A i \in ErrIndices : UpAt(i)
TasksServed == \A t \in task : Up(t[1])
MadWaits == "mad" \in INT_STAT \/ \E j \in 1 .. Len(irq) : irq[j] = "mad"
MadsServed ==
    /\ \A q \in GsiQPs : qp[q].pc \in Owned => gsi_qp = q
    /\ MadWaits => GsiThere

ServedInv == BitsServed /\ ErrorsServed /\ TasksServed /\ MadsServed
-----------------------------------------------------------------------------
(* With "settled" too: recovery and stops belong to reported errors. *)

FatalInv ==
    /\ FatalStopsOnlyFaulty
    /\ \A i \in Indices : QP_CONF[i].recovery =>
          \E q \in Holders(i) : qp[q].pc \in {"live", "av", "reset1", "reset2"}
    /\ \A i \in ErrIndices : i \in faulty /\ \A q \in Holders(i) : qp[q].pc # "av"
    /\ \A t \in task : t[2] = "fatal" => qp[t[1]].hw_qpn \in faulty
    /\ \A q \in QP : qp[q].pc = "av" =>
          /\ qp[q].conf.recovery => qp[q].hw_qpn \in faulty
          /\ qp[q].conf.enable => qp[q].hw_qpn \notin stopped
-----------------------------------------------------------------------------
(* With "booted", "quiet", "gsi", "rc" and no failure that frees twice: the *)
(* GSI QP is there for all that goes through it.                            *)

GsiInv ==
    /\ crash = "no" /\ gsi_qp \in GsiQPs \cup {NULL}
    /\ \A q \in QP \ GsiQPs : qp[q].pc \notin {"none", "gone"} => GsiThere
    /\ 0 \notin ErrIndices
    /\ \A t \in task : t[2] = "fatal" => t[1] \notin GsiQPs
-----------------------------------------------------------------------------
(* With "booted", "quiet" and "serial": only a QP that is up, or one whose   *)
(* reset has yet to come, has moved its pointers.                            *)

MovedInv ==
    /\ \A i \in moved : \E q \in Holders(i) : qp[q].pc \in {"live", "av", "reset1"}
    /\ \A q \in QP : qp[q].pc = "reset1" => sw_override
    /\ \A p, q \in QP : qp[p].pc \in Dying /\ qp[q].pc \in Dying => p = q
=============================================================================
