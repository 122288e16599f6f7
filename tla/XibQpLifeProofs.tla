--------------------------- MODULE XibQpLifeProofs ---------------------------
(***************************************************************************)
(* Proofs about the life of the QPs, for any number of QPs and any size of *)
(* the tables: the invariants of XibQpLifeCorrect hold, and from them      *)
(* follow the properties of XibQpLife.                                     *)
(***************************************************************************)
EXTENDS XibQpLifeCorrect, RingLemmas, SequenceTheorems

\* The size of the tables, as the provers use it.
LEMMA SizeFacts == MaxQp \in Nat /\ MaxQp > 1 /\ 0 \in Indices /\ Indices \subseteq Nat
BY QpLifeAssumption DEF Indices

\* find_first_zero_bit: what xib_bmap_alloc_id finds in a map that is not full
\* is the least index that is free.
LEMMA FirstZeroFree ==
    ASSUME NEW map \in SUBSET Indices, map # Indices
    PROVE  /\ FirstZero(map) \in Indices /\ FirstZero(map) \notin map
           /\ \A j \in Indices \ map : FirstZero(map) <= j
<1>1. \E i \in Indices \ map : \A j \in Indices \ map : i <= j
  BY LeastElement, SizeFacts
<1> QED
  BY <1>1 DEF FirstZero

\* The handlers s are those of the kinds of K that the status has set.
Serves(s, K, stat) ==
    /\ s \in Seq(IrqKinds)
    /\ \A j \in 1 .. Len(s) : s[j] \in K \cap stat
    /\ \A x \in K \cap stat : \E j \in 1 .. Len(s) : s[j] = x

\* One more test of the status in xib_irq: after it, what the handler goes
\* through are the kinds tested so far that are set, the new one last.
LEMMA IfSetStep ==
    ASSUME NEW stat, NEW s, NEW K, NEW k \in IrqKinds, Serves(s, K, stat)
    PROVE  /\ Serves(s \o IfSet(k, stat), K \cup {k}, stat)
           /\ \A j \in 1 .. Len(s \o IfSet(k, stat)) :
                 (s \o IfSet(k, stat))[j] \in K \/ j = Len(s \o IfSet(k, stat))
<1> USE DEF Serves
<1>1. CASE k \in stat
  <2> DEFINE t == Append(s, k)
  <2>1. s \o IfSet(k, stat) = t
    BY <1>1, AppendIsConcat DEF IfSet
  <2>2. /\ t \in Seq(IrqKinds) /\ Len(t) = Len(s) + 1 /\ t[Len(s) + 1] = k
        /\ \A i \in 1 .. Len(s) : t[i] = s[i]
    BY AppendProperties
  <2> HIDE DEF t
  <2>3. Len(s) \in Nat
    OBVIOUS
  <2>4. \A j \in 1 .. Len(t) : j \in 1 .. Len(s) \/ j = Len(t)
    BY <2>2, <2>3
  <2>5. \A j \in 1 .. Len(s) : j \in 1 .. Len(t)
    BY <2>2, <2>3
  <2>6. Len(t) \in 1 .. Len(t)
    BY <2>2, <2>3
  <2> QED
    BY <1>1, <2>1, <2>2, <2>4, <2>5, <2>6
<1>2. CASE k \notin stat
  <2>1. s \o IfSet(k, stat) = s
    BY <1>2, ConcatEmptySeq DEF IfSet
  <2> QED
    BY <1>2, <2>1
<1> QED
  BY <1>1, <1>2

\* What xib_irq goes through for a status it has read: the kinds that are set,
\* each with its own handler, and the fatal errors last.
LEMMA AskedFacts ==
    ASSUME NEW stat \in SUBSET (Kinds \cup {"mad", "fatal"})
    PROVE  /\ Asked(stat) \in Seq(IrqKinds)
           /\ \A k \in stat : \E j \in 1 .. Len(Asked(stat)) : Asked(stat)[j] = k
           /\ \A j \in 1 .. Len(Asked(stat)) : Asked(stat)[j] \in stat
           /\ \A j \in 1 .. Len(Asked(stat)) :
                 Asked(stat)[j] = "fatal" => j = Len(Asked(stat))
<1> DEFINE a == << >> \o IfSet("comp", stat)
           b == a \o IfSet("rq", stat)
           c == b \o IfSet("cnp", stat)
           d == c \o IfSet("mad", stat)
           e == d \o IfSet("fatal", stat)
<1>0. /\ "comp" \in IrqKinds /\ "rq" \in IrqKinds /\ "cnp" \in IrqKinds
      /\ "mad" \in IrqKinds /\ "fatal" \in IrqKinds /\ stat \subseteq IrqKinds
  BY QpLifeAssumption DEF IrqKinds
<1>1. Asked(stat) = e
  <2>1. << >> \o IfSet("comp", stat) = IfSet("comp", stat)
    BY <1>0, ConcatEmptySeq DEF IfSet
  <2> QED
    BY <2>1 DEF Asked
<1>2. Serves(<< >>, {}, stat)
  BY DEF Serves
<1>3. Serves(a, {} \cup {"comp"}, stat)
  BY <1>0, <1>2, IfSetStep, Zenon
<1> HIDE DEF a
<1>4. Serves(b, {} \cup {"comp"} \cup {"rq"}, stat)
  BY <1>0, <1>3, IfSetStep, Zenon
<1> HIDE DEF b
<1>5. Serves(c, {} \cup {"comp"} \cup {"rq"} \cup {"cnp"}, stat)
  BY <1>0, <1>4, IfSetStep, Zenon
<1> HIDE DEF c
<1>6. Serves(d, {} \cup {"comp"} \cup {"rq"} \cup {"cnp"} \cup {"mad"}, stat)
  BY <1>0, <1>5, IfSetStep, Zenon
<1> HIDE DEF d
<1>7. /\ Serves(e, {} \cup {"comp"} \cup {"rq"} \cup {"cnp"} \cup {"mad"} \cup {"fatal"}, stat)
      /\ \A j \in 1 .. Len(e) :
            e[j] \in {} \cup {"comp"} \cup {"rq"} \cup {"cnp"} \cup {"mad"} \/ j = Len(e)
  BY <1>0, <1>6, IfSetStep, ZenonT(30)
<1> HIDE DEF e
<1>8. /\ e \in Seq(IrqKinds)
      /\ \A j \in 1 .. Len(e) : e[j] \in stat
      /\ \A x \in IrqKinds \cap stat : \E j \in 1 .. Len(e) : e[j] = x
  BY <1>7 DEF Serves, IrqKinds
<1>9. \A j \in 1 .. Len(e) : e[j] = "fatal" => j = Len(e)
  BY <1>7
<1> QED
  BY <1>0, <1>1, <1>8, <1>9
-----------------------------------------------------------------------------
(* Types. *)

\* An update of one element of a function keeps its type.
LEMMA UpdateType ==
    ASSUME NEW S, NEW T, NEW f \in [S -> T], NEW x \in S, NEW v \in T
    PROVE  [f EXCEPT ![x] = v] \in [S -> T]
OBVIOUS

\* The fields of a QP.
LEMMA QpFields ==
    ASSUME NEW r \in QpRecord
    PROVE  /\ r.pc \in Owned \cup {"none", "alloc", "kill", "gone"}
           /\ r.hw_qpn \in Indices /\ r.word \in SUBSET Indices
           /\ r.conf \in Conf /\ r.bufs \in BOOLEAN
BY DEF QpRecord

\* A step that only moves the thread of a QP keeps the type of the QPs.
LEMMA PcType ==
    ASSUME NEW f \in [QP -> QpRecord], NEW q \in QP,
           NEW pc \in Owned \cup {"none", "alloc", "kill", "gone"}
    PROVE  [f EXCEPT ![q].pc = pc] \in [QP -> QpRecord]
<1>1. [f[q] EXCEPT !.pc = pc] \in QpRecord
  BY DEF QpRecord
<1> QED
  BY <1>1

\* QP_CONF keeps its type when one register is written.
LEMMA ConfType ==
    ASSUME NEW f \in [Indices -> Conf], NEW i \in Indices,
           NEW e \in BOOLEAN, NEW r \in BOOLEAN
    PROVE  /\ [f EXCEPT ![i].enable = e] \in [Indices -> Conf]
           /\ [f EXCEPT ![i].enable = e, ![i].recovery = r] \in [Indices -> Conf]
           /\ ConfOff \in Conf /\ StopConf(f[i]) \in Conf
<1>1. [f[i] EXCEPT !.enable = e] \in Conf /\ [f[i] EXCEPT !.enable = e, !.recovery = r] \in Conf
  BY DEF Conf
<1> QED
  BY <1>1 DEF Conf, ConfOff, StopConf

LEMMA NoQpType == NoQp \in QpRecord
BY SizeFacts DEF NoQp, QpRecord, ConfOff, Conf, IbStates

\* Every step of a creation keeps the types.
LEMMA CreateType ==
    ASSUME TypeOK, NEW q \in QP, Create(q)
    PROVE  TypeOK'
<1> USE QpLifeAssumption, SizeFacts
<1>0. qp \in [QP -> QpRecord] /\ qp[q] \in QpRecord
  BY DEF TypeOK
<1>1. CASE CreateLoad(q)
  <2>1. FirstZero(qp_map) \in Indices /\ qp_map \in SUBSET Indices
    BY <1>1, FirstZeroFree DEF CreateLoad, TypeOK
  <2>2. [NoQp EXCEPT !.pc = "alloc", !.word = qp_map,
                     !.type = IF q \in UserQPs THEN "USER" ELSE "KERNEL",
                     !.hw_qpn = FirstZero(qp_map)] \in QpRecord
    BY <2>1, NoQpType DEF QpRecord
  <2>3. qp' \in [QP -> QpRecord]
    BY <1>0, <1>1, <2>2, UpdateType DEF CreateLoad
  <2> QED
    BY <1>1, <2>3 DEF CreateLoad, TypeOK, hwVars, intVars, errVars
<1>2. CASE CreateNoId(q)
  <2>1. qp' \in [QP -> QpRecord]
    BY <1>0, <1>2, PcType DEF CreateNoId
  <2> QED
    BY <1>2, <2>1 DEF CreateNoId, TypeOK, tableVars, hwVars, intVars, errVars
<1>3. CASE CreateStore(q)
  <2>1. [qp[q] EXCEPT !.pc = "build", !.word = {}] \in QpRecord
    BY <1>0 DEF QpRecord, Owned
  <2>2. qp' \in [QP -> QpRecord]
    BY <1>0, <1>3, <2>1 DEF CreateStore
  <2>3. qp_map' \in SUBSET Indices
    BY <1>0, <1>3, QpFields DEF CreateStore
  <2> QED
    BY <1>3, <2>2, <2>3 DEF CreateStore, TypeOK, hwVars, intVars, errVars
<1>4. CASE CreateKernelDone(q)
  <2>1. xib_alloc_qp_buffers(qp[q]) \in QpRecord
    BY <1>0 DEF xib_alloc_qp_buffers, QpRecord, Owned
  <2>2. qp' \in [QP -> QpRecord]
    BY <1>0, <1>4, <2>1 DEF CreateKernelDone
  <2> QED
    BY <1>0, <1>4, <2>2, QpFields
       DEF CreateKernelDone, xib_qp_add, TypeOK, hwVars, intVars
<1>5. CASE CreateUserDone(q)
  <2>1. [qp[q] EXCEPT !.pc = "live", !.bufs = TRUE] \in QpRecord
    BY <1>0 DEF QpRecord, Owned
  <2>2. qp' \in [QP -> QpRecord]
    BY <1>0, <1>5, <2>1 DEF CreateUserDone
  <2> QED
    BY <1>0, <1>5, <2>2, QpFields DEF CreateUserDone, xib_qp_add, TypeOK, hwVars, intVars
<1>6. ASSUME NEW why \in Failures, CreateFails(q, why) PROVE TypeOK'
  <2>1. qp' \in [QP -> QpRecord]
    BY <1>0, <1>6, PcType DEF CreateFails
  <2>2. qp_map' \in SUBSET Indices /\ crash' \in {crash, "double_free"}
    BY <1>6 DEF CreateFails, TypeOK
  <2> QED
    BY <1>6, <2>1, <2>2 DEF CreateFails, TypeOK, hwVars, intVars, errVars
<1>7. ASSUME NEW why \in Failures, GsiCreateFails(q, why) PROVE TypeOK'
  <2>1. [NoQp EXCEPT !.pc = "gone", !.type = "GSI"] \in QpRecord
    BY NoQpType DEF QpRecord
  <2>2. qp' \in [QP -> QpRecord]
    BY <1>0, <1>7, <2>1 DEF GsiCreateFails
  <2> QED
    BY <1>7, <2>2 DEF GsiCreateFails, TypeOK, hwVars, intVars, errVars
<1>8. CASE GsiCreate(q)
  <2>1. xib_alloc_gsi_qp_buffers(NoQp) \in QpRecord
    BY NoQpType DEF xib_alloc_gsi_qp_buffers, QpRecord, Owned
  <2>2. qp' \in [QP -> QpRecord]
    BY <1>0, <1>8, <2>1 DEF GsiCreate
  <2> QED
    BY <1>8, <2>2 DEF GsiCreate, xib_qp_add, TypeOK, hwVars, intVars
<1> QED
  BY <1>1, <1>2, <1>3, <1>4, <1>5, <1>6, <1>7, <1>8 DEF Create

\* Every step of a modification keeps the types.
LEMMA ModifyType ==
    ASSUME TypeOK, NEW q \in QP, Modify(q)
    PROVE  TypeOK'
<1> USE QpLifeAssumption, SizeFacts
<1>0. /\ qp \in [QP -> QpRecord] /\ qp[q] \in QpRecord /\ qp[q].hw_qpn \in Indices
      /\ QP_CONF \in [Indices -> Conf]
  BY QpFields DEF TypeOK
<1>1. ASSUME NEW new \in States, ModifyQp(q, new) PROVE TypeOK'
  <2>1. [qp[q] EXCEPT !.state = new] \in QpRecord
    BY <1>0 DEF QpRecord
  <2>2. qp' \in [QP -> QpRecord]
    BY <1>0, <1>1, <2>1 DEF ModifyQp
  <2>3. InitConf(q) \in Conf
    BY DEF InitConf, Conf
  <2>4. QP_CONF' \in [Indices -> Conf] /\ stopped' \in SUBSET Indices
    <3>1. CASE new = "INIT"
      <4>1. /\ QP_CONF' = [QP_CONF EXCEPT ![qp[q].hw_qpn] = InitConf(q)]
            /\ stopped' = stopped \ {qp[q].hw_qpn}
        BY <1>1, <3>1 DEF ModifyQp
      <4> QED
        BY <1>0, <2>3, <4>1, UpdateType DEF TypeOK
    <3>2. CASE new # "INIT"
      BY <1>1, <3>2 DEF ModifyQp, TypeOK
    <3> QED
      BY <3>1, <3>2
  <2> QED
    BY <1>1, <2>2, <2>4 DEF ModifyQp, TypeOK, tableVars, intVars
<1>2. CASE ModifyAvRead(q)
  <2>1. [qp[q] EXCEPT !.pc = "av", !.conf = QP_CONF[qp[q].hw_qpn]] \in QpRecord
    BY <1>0 DEF QpRecord, Owned
  <2>2. qp' \in [QP -> QpRecord]
    BY <1>0, <1>2, <2>1 DEF ModifyAvRead
  <2> QED
    BY <1>2, <2>2 DEF ModifyAvRead, TypeOK, tableVars, intVars, hwVars, errVars
<1>3. CASE ModifyAvWrite(q)
  <2>1. [qp[q] EXCEPT !.pc = "live", !.state = "RTR", !.conf = ConfOff] \in QpRecord
    BY <1>0 DEF QpRecord, Owned, IbStates, Conf, ConfOff
  <2>2. qp' \in [QP -> QpRecord]
    BY <1>0, <1>3, <2>1 DEF ModifyAvWrite
  <2>3. QP_CONF' \in [Indices -> Conf]
    BY <1>0, <1>3, QpFields DEF ModifyAvWrite
  <2> QED
    BY <1>3, <2>2, <2>3 DEF ModifyAvWrite, TypeOK, tableVars, intVars, errVars
<1> QED
  BY <1>1, <1>2, <1>3 DEF Modify

\* Every step of a destruction keeps the types.
LEMMA DestroyType ==
    ASSUME TypeOK, NEW q \in QP, Destroy(q)
    PROVE  TypeOK'
<1> USE QpLifeAssumption, SizeFacts
<1>0. /\ qp \in [QP -> QpRecord] /\ qp[q] \in QpRecord /\ qp[q].hw_qpn \in Indices
      /\ QP_CONF \in [Indices -> Conf] /\ ConfOff \in Conf
  BY QpFields, ConfType DEF TypeOK
<1>1. ASSUME NEW pc \in Owned \cup {"kill", "gone"}, Goto(q, pc) PROVE qp' \in [QP -> QpRecord]
  BY <1>0, <1>1, PcType DEF Goto
<1>2. CASE DestroyStop(q)
  <2>1. qp' \in [QP -> QpRecord]
    BY <1>1, <1>2 DEF DestroyStop, Owned
  <2>2. QP_CONF' \in [Indices -> Conf]
    BY <1>0, <1>2, ConfType DEF DestroyStop
  <2> QED
    BY <1>2, <2>1, <2>2 DEF DestroyStop, TypeOK, tableVars, intVars, errVars
<1>3. CASE DestroyZero(q)
  <2>1. qp' \in [QP -> QpRecord]
    BY <1>1, <1>3 DEF DestroyZero, Owned
  <2> QED
    BY <1>3, <2>1 DEF DestroyZero, Zeroed, TypeOK, tableVars, intVars, errVars
<1>4. CASE DestroyEnable(q)
  <2>1. qp' \in [QP -> QpRecord]
    BY <1>1, <1>4 DEF DestroyEnable, Owned
  <2>2. QP_CONF' \in [Indices -> Conf]
    BY <1>0, <1>4, ConfType DEF DestroyEnable
  <2> QED
    BY <1>4, <2>1, <2>2 DEF DestroyEnable, TypeOK, tableVars, intVars
<1>5. CASE xrnic_qp_disable(q)
  <2>1. qp' \in [QP -> QpRecord]
    BY <1>1, <1>5 DEF xrnic_qp_disable, Owned
  <2>2. QP_CONF' \in [Indices -> Conf]
    BY <1>0, <1>5 DEF xrnic_qp_disable, DisabledConf
  <2> QED
    BY <1>5, <2>1, <2>2 DEF xrnic_qp_disable, TypeOK, tableVars, intVars, errVars
<1>6. CASE DestroyFree(q)
  <2>1. [qp[q] EXCEPT !.pc = "unlist", !.bufs = FALSE] \in QpRecord
    BY <1>0 DEF QpRecord, Owned
  <2>2. qp' \in [QP -> QpRecord]
    BY <1>0, <1>6, <2>1 DEF DestroyFree
  <2> QED
    BY <1>6, <2>2 DEF DestroyFree, TypeOK, tableVars, hwVars, intVars, errVars
<1>7. CASE DestroyDone(q)
  <2>1. qp' \in [QP -> QpRecord]
    BY <1>1, <1>7 DEF DestroyDone
  <2>2. /\ qp_list' \in [Indices -> QP \cup {NULL}] /\ gsi_qp' \in QP \cup {NULL}
        /\ qp_map' \in SUBSET Indices
    BY <1>0, <1>7 DEF DestroyDone, TypeOK
  <2> QED
    BY <1>7, <2>1, <2>2 DEF DestroyDone, TypeOK, hwVars, intVars, errVars
<1> QED
  BY <1>2, <1>3, <1>4, <1>5, <1>6, <1>7 DEF Destroy

\* The hardware keeps the types; its write pointer stays inside its ring.
LEMMA HardwareType ==
    ASSUME TypeOK, Hardware
    PROVE  TypeOK'
<1> USE QpLifeAssumption, SizeFacts
<1>1. ASSUME NEW i \in Indices, NEW k \in Kinds, HwEvent(i, k) PROVE TypeOK'
  <2>1. i + 1 \in 1 .. MaxQp
    BY DEF Indices
  <2>2. int_bits' \in [Kinds -> SUBSET (1 .. MaxQp)]
    BY <1>1, <2>1 DEF HwEvent, TypeOK
  <2>3. events' \in 0 .. MaxEvents
    BY <1>1 DEF HwEvent, Traffic, TypeOK
  <2> QED
    BY <1>1, <2>2, <2>3 DEF HwEvent, Traffic, TypeOK, tableVars, errVars
<1>2. CASE HwMad
  BY <1>2 DEF HwMad, Traffic, TypeOK, tableVars, errVars
<1>3. ASSUME NEW i \in Indices, HwFatal(i) PROVE TypeOK'
  <2>1. errq_wptr % MaxQp \in Indices /\ i + 1 \in 0 .. MaxQp
    BY DivMod DEF TypeOK, Indices
  <2>2. errq_wptr' \in 0 .. MaxQp
    BY <1>3, <2>1 DEF Indices, HwFatal
  <2>3. errq' \in [Indices -> 0 .. MaxQp]
    BY <1>3, <2>1 DEF TypeOK, HwFatal
  <2>4. events' \in 0 .. MaxEvents
    BY <1>3 DEF HwFatal, Traffic, TypeOK
  <2> QED
    BY <1>3, <2>2, <2>3, <2>4 DEF HwFatal, Traffic, TypeOK, tableVars
<1> QED
  BY <1>1, <1>2, <1>3 DEF Hardware

\* What xib_irq leaves for its next handlers.
LEMMA IrqTail ==
    ASSUME TypeOK, irq # << >>
    PROVE  /\ Head(irq) \in IrqKinds \cup {"clear"} /\ Head(irq) = irq[1]
           /\ Tail(irq) \in Seq(IrqKinds \cup {"clear"})
           /\ Len(irq) \in Nat /\ Len(Tail(irq)) = Len(irq) - 1
           /\ \A j \in 1 .. Len(Tail(irq)) : Tail(irq)[j] = irq[j + 1]
BY HeadTailProperties DEF TypeOK

\* xib_irq keeps the types: each handler indexes the list with a bit of its
\* own register, or with an error number it has checked.
LEMMA IrqType ==
    ASSUME TypeOK, Irq
    PROVE  TypeOK'
<1> USE QpLifeAssumption, SizeFacts
<1>1. CASE IrqEntry
  <2>1. Asked(INT_STAT) \in Seq(IrqKinds)
    BY AskedFacts DEF TypeOK
  <2>2. Asked(INT_STAT) \in Seq(IrqKinds \cup {"clear"})
    BY <2>1
  <2> QED
    BY <1>1, <2>2 DEF IrqEntry, TypeOK, tableVars, hwVars, errVars
<1>2. ASSUME NEW k \in Kinds, IrqEvent(k) PROVE TypeOK'
  <2>1. \A b \in int_bits[k] : ListedFor(b) \in QP \cup {NULL}
    <3>1. \A b \in int_bits[k] : b \in 1 .. MaxQp /\ (b + 1) - 2 \in Indices
      BY DEF TypeOK, Indices
    <3> QED
      BY <3>1 DEF ListedFor, TypeOK
  <2>2. irq' \in Seq(IrqKinds \cup {"clear"})
    BY <1>2, IrqTail DEF IrqEvent
  <2>3. TasksFor(k, {ListedFor(b) : b \in int_bits[k]} \ {NULL})
            \subseteq QP \X {"comp", "cnp", "fatal"}
    BY <2>1 DEF TasksFor
  <2>4. crash' \in {"no", "null_qp", "freed_qp"}
    BY <1>2 DEF IrqEvent, FollowAll
  <2>5. int_bits' \in [Kinds -> SUBSET (1 .. MaxQp)]
    BY <1>2 DEF IrqEvent, TypeOK
  <2> QED
    BY <1>2, <2>2, <2>3, <2>4, <2>5 DEF IrqEvent, TypeOK, tableVars, hwVars, errVars
<1>3. CASE IrqMad
  <2>1. irq' \in Seq(IrqKinds \cup {"clear"})
    BY <1>3, IrqTail DEF IrqMad
  <2>2. crash' \in {"no", "null_qp", "freed_qp"}
    BY <1>3 DEF IrqMad, FollowAll
  <2> QED
    BY <1>3, <2>1, <2>2 DEF IrqMad, TypeOK, tableVars, hwVars, errVars
<1>4. CASE IrqFatal
  <2>1. irq' \in Seq(IrqKinds \cup {"clear"})
    <3>1. <<"clear">> \in Seq(IrqKinds \cup {"clear"})
      OBVIOUS
    <3>2. irq' = Tail(irq) \/ irq' = <<"clear">>
      BY <1>4 DEF IrqFatal
    <3> QED
      BY <1>4, <3>1, <3>2, IrqTail DEF IrqFatal
  <2>2. QP_CONF' \in [Indices -> Conf]
    <3>1. \A i \in Indices : QP_CONF[i] \in Conf /\ StopConf(QP_CONF[i]) \in Conf
      BY ConfType DEF TypeOK
    <3> QED
      BY <1>4, <3>1 DEF IrqFatal
  <2>3. task' \in SUBSET (QP \X {"comp", "cnp", "fatal"})
    <3>1. \A i \in Indices : qp_list[i] \in QP \cup {NULL}
      BY DEF TypeOK
    <3>2. {qp_list[i] : i \in ErrIndices \cap Indices} \ {NULL} \subseteq QP
      BY <3>1
    <3> QED
      BY <1>4, <3>2 DEF IrqFatal, TypeOK
  <2>4. crash' \in {"no", "null_qp", "freed_qp"}
    BY <1>4 DEF IrqFatal, FollowAll
  <2>5. stopped' \in SUBSET Indices /\ in_pkt_err_db_local' \in 0 .. MaxQp
    BY <1>4 DEF IrqFatal, TypeOK
  <2> QED
    BY <1>4, <2>1, <2>2, <2>3, <2>4, <2>5 DEF IrqFatal, TypeOK, tableVars
<1>5. CASE IrqClear
  <2>1. irq' \in Seq(IrqKinds \cup {"clear"})
    BY <1>5, IrqTail DEF IrqClear
  <2> QED
    BY <1>5, <2>1 DEF IrqClear, TypeOK, tableVars, hwVars, errVars
<1> QED
  BY <1>1, <1>2, <1>3, <1>4, <1>5 DEF Irq

\* The tasklets keep the types.
LEMMA TaskletType ==
    ASSUME TypeOK, NEW q \in QP, Tasklet(q)
    PROVE  TypeOK'
<1> USE QpLifeAssumption, SizeFacts
<1>1. CASE RunComp(q)
  BY <1>1 DEF RunComp, FollowAll, TypeOK, tableVars, hwVars, intVars, errVars
<1>2. CASE RunCnp(q)
  BY <1>2 DEF RunCnp, FollowAll, TypeOK, tableVars, hwVars, intVars, errVars
<1>3. CASE RunFatal(q)
  <2>1. QP_CONF' \in [Indices -> Conf]
    BY <1>3, ConfType, QpFields, ZenonT(30) DEF RunFatal, TypeOK
  <2> QED
    BY <1>3, <2>1 DEF RunFatal, FollowAll, TypeOK, tableVars, intVars, errVars
<1> QED
  BY <1>1, <1>2, <1>3 DEF Tasklet

\* The wait for the tasklet of the GSI QP ends: only the thread of the
\* destruction moves, and the QP owned nothing any more.
LEMMA KilledFrame ==
    ASSUME qp \in [QP -> QpRecord], NEW q \in QP, GsiTaskletKilled(q)
    PROVE  /\ qp'[q] = [qp[q] EXCEPT !.pc = "gone"] /\ qp[q].pc = "kill"
           /\ qp'[q].pc = "gone" /\ qp'[q].hw_qpn = qp[q].hw_qpn
           /\ qp'[q].type = qp[q].type /\ qp'[q].bufs = qp[q].bufs
           /\ \A p \in QP \ {q} : qp'[p] = qp[p]
           /\ \A p \in QP : qp'[p] = qp[p] \/ (p = q /\ qp'[p].pc = "gone")
           /\ UNCHANGED <<tableVars, hwVars, intVars, errVars, task, crash>>
           /\ \A i \in Indices : Holders(i)' = Holders(i)
           /\ \A p \in QP : Up(p)' = Up(p)
<1>1. qp' = [qp EXCEPT ![q] = [qp[q] EXCEPT !.pc = "gone"]] /\ qp[q].pc = "kill"
  BY DEF GsiTaskletKilled, Goto
<1>2. /\ qp'[q] = [qp[q] EXCEPT !.pc = "gone"] /\ \A p \in QP \ {q} : qp'[p] = qp[p]
  BY <1>1
<1>3. /\ qp'[q].pc = "gone" /\ qp'[q].hw_qpn = qp[q].hw_qpn
      /\ qp'[q].type = qp[q].type /\ qp'[q].bufs = qp[q].bufs
  BY <1>2 DEF QpRecord
<1>4. "kill" \notin Owned /\ "gone" \notin Owned
  BY DEF Owned
<1>5. \A i \in Indices : Holders(i)' = Holders(i)
  BY <1>1, <1>2, <1>3, <1>4 DEF Holders
<1>6. \A p \in QP : Up(p)' = Up(p)
  BY <1>1, <1>2, <1>3 DEF Up
<1>7. UNCHANGED <<tableVars, hwVars, intVars, errVars, task, crash>>
  BY DEF GsiTaskletKilled
<1> QED
  BY <1>1, <1>2, <1>3, <1>5, <1>6, <1>7

\* Every variable keeps its type, whatever the users of the driver do: no QP
\* number, error number or ring pointer leaves the tables it indexes.
THEOREM QpTypeCorrect == Spec => []TypeOK
<1>1. Init => TypeOK
  <2> SUFFICES ASSUME Init PROVE TypeOK
    OBVIOUS
  <2>1. qp \in [QP -> QpRecord]
    BY NoQpType DEF Init
  <2>2. QP_CONF \in [Indices -> Conf]
    BY DEF Init, Conf, ConfOff
  <2>3. errq \in [Indices -> 0 .. MaxQp] /\ errq_wptr \in 0 .. MaxQp
    BY QpLifeAssumption, SizeFacts DEF Init
  <2>4. irq \in Seq(IrqKinds \cup {"clear"})
    BY DEF Init
  <2>5. int_bits \in [Kinds -> SUBSET (1 .. MaxQp)]
    BY DEF Init
  <2>6. /\ qp_list \in [Indices -> QP \cup {NULL}] /\ gsi_qp \in QP \cup {NULL}
        /\ in_pkt_err_db_local \in 0 .. MaxQp /\ events \in 0 .. MaxEvents
    BY QpLifeAssumption DEF Init
  <2> QED
    BY <2>1, <2>2, <2>3, <2>4, <2>5, <2>6 DEF Init, TypeOK
<1>2. ASSUME TypeOK, Next PROVE TypeOK'
  <2>1. CASE PreReserveQp1
    BY <1>2, <2>1, FirstZeroFree DEF PreReserveQp1, TypeOK, hwVars, intVars, errVars
  <2>2. ASSUME NEW q \in QP, GsiTaskletKilled(q) PROVE TypeOK'
    <3>1. qp' \in [QP -> QpRecord]
      BY <1>2, <2>2, PcType DEF GsiTaskletKilled, Goto, TypeOK
    <3> QED
      BY <1>2, <2>2, <3>1 DEF GsiTaskletKilled, TypeOK, tableVars, hwVars, intVars, errVars
  <2> QED
    BY <1>2, <2>1, <2>2, CreateType, ModifyType, DestroyType, TaskletType, HardwareType, IrqType
       DEF Next
<1>3. ASSUME TypeOK, UNCHANGED vars PROVE TypeOK'
  BY <1>3 DEF TypeOK, vars, tableVars, hwVars, intVars, errVars
<1> QED
  BY <1>1, <1>2, <1>3, PTL DEF Spec
-----------------------------------------------------------------------------
(* Interrupts.  No discipline is needed. *)

\* The threads that create, modify and destroy QPs, and the tasklets, never
\* touch the interrupt registers or the progress of xib_irq.
LEMMA ThreadsLeaveInterrupts ==
    ASSUME NEW q \in QP,
           PreReserveQp1 \/ Create(q) \/ Modify(q) \/ Destroy(q) \/ Tasklet(q)
    PROVE  UNCHANGED intVars
<1>1. CASE PreReserveQp1 \/ Create(q)
  BY <1>1 DEF PreReserveQp1, Create, CreateLoad, CreateNoId, CreateStore, CreateKernelDone,
              CreateUserDone, CreateFails, GsiCreateFails, GsiCreate, xib_qp_add
<1>2. CASE Modify(q) \/ Tasklet(q)
  BY <1>2 DEF Modify, ModifyQp, ModifyAvRead, ModifyAvWrite, Tasklet, RunComp, RunCnp, RunFatal
<1>3. CASE Destroy(q)
  BY <1>3 DEF Destroy, DestroyStop, DestroyZero, DestroyEnable, xrnic_qp_disable, DestroyFree,
              DestroyDone
<1> QED
  BY <1>1, <1>2, <1>3

\* xib_irq goes on to its next handler.
LEMMA IrqGoesOn ==
    ASSUME TypeOK, FatalLast, irq # << >>, irq' = Tail(irq)
    PROVE  /\ FatalLast'
           /\ \A k : (\E j \in 1 .. Len(irq) : irq[j] = k) /\ k # Head(irq)
                        => \E j \in 1 .. Len(irq') : irq'[j] = k
<1>1. /\ Len(irq) \in Nat /\ Len(irq') = Len(irq) - 1 /\ Head(irq) = irq[1]
      /\ \A j \in 1 .. Len(irq') : irq'[j] = irq[j + 1]
  BY IrqTail
<1>2. FatalLast'
  <2> SUFFICES ASSUME NEW j \in 1 .. Len(irq'), irq'[j] \in {"fatal", "clear"}
               PROVE  j = Len(irq')
    BY DEF FatalLast
  <2>1. j + 1 \in 1 .. Len(irq) /\ irq[j + 1] \in {"fatal", "clear"}
    BY <1>1
  <2>2. j + 1 = Len(irq)
    BY <2>1 DEF FatalLast
  <2>3. Len(irq') = Len(irq) - 1 /\ Len(irq) \in Int /\ j \in Int
    BY ONLY <1>1, j \in 1 .. Len(irq')
  <2> QED
    BY ONLY <2>2, <2>3
<1>3. ASSUME NEW k, NEW j \in 1 .. Len(irq), irq[j] = k, k # Head(irq)
      PROVE  \E i \in 1 .. Len(irq') : irq'[i] = k
  <2>1. j # 1
    BY <1>1, <1>3
  <2>2. j - 1 \in 1 .. Len(irq') /\ irq'[j - 1] = irq[(j - 1) + 1] /\ (j - 1) + 1 = j
    BY <1>1, <2>1
  <2> QED
    BY <1>3, <2>2
<1> QED
  BY <1>2, <1>3

\* The hardware and xib_irq lose no interrupt between them.
LEMMA IrqInvStep ==
    ASSUME TypeOK, IrqInv, Hardware \/ Irq
    PROVE  IrqInv'
<1>0. FatalLast /\ InterruptNotLost /\ "mad" \notin Kinds /\ "fatal" \notin Kinds /\ "clear" \notin Kinds
  BY QpLifeAssumption DEF IrqInv
<1>1. ASSUME NEW i \in Indices, NEW k \in Kinds, HwEvent(i, k) PROVE IrqInv'
  <2>1. FatalLast'
    BY <1>0, <1>1 DEF FatalLast, HwEvent
  <2>2. InterruptNotLost'
    <3>1. /\ INT_STAT' = INT_STAT \cup {k} /\ irq' = irq /\ swept' = swept
          /\ \A x \in Kinds \ {k} : int_bits'[x] = int_bits[x]
      BY <1>1 DEF HwEvent, TypeOK
    <3> QED
      BY <1>0, <3>1 DEF InterruptNotLost
  <2> QED
    BY <2>1, <2>2 DEF IrqInv
<1>2. CASE HwMad \/ \E i \in Indices : HwFatal(i)
  BY <1>0, <1>2 DEF IrqInv, FatalLast, InterruptNotLost, HwMad, HwFatal
<1>3. CASE IrqEntry
  <2>1. FatalLast'
    <3>1. \A j \in 1 .. Len(Asked(INT_STAT)) : Asked(INT_STAT)[j] # "clear"
      BY AskedFacts, QpLifeAssumption DEF TypeOK
    <3> QED
      BY <1>3, <3>1, AskedFacts DEF FatalLast, IrqEntry, TypeOK
  <2>2. InterruptNotLost'
    <3>1. \A k \in INT_STAT : \E j \in 1 .. Len(irq') : irq'[j] = k
      BY <1>3, AskedFacts DEF IrqEntry, TypeOK
    <3>2. int_bits' = int_bits /\ swept' = swept /\ Len(irq) = 0
      BY <1>3 DEF IrqEntry
    <3> QED
      BY <1>0, <3>1, <3>2 DEF InterruptNotLost
  <2> QED
    BY <2>1, <2>2 DEF IrqInv
<1>4. ASSUME NEW k \in Kinds, IrqEvent(k) PROVE IrqInv'
  <2>1. irq # << >> /\ irq' = Tail(irq) /\ Head(irq) = k
    BY <1>4 DEF IrqEvent
  <2>2. /\ int_bits'[k] = {} /\ \A x \in Kinds \ {k} : int_bits'[x] = int_bits[x]
        /\ INT_STAT' = INT_STAT /\ swept' = swept
    BY <1>4 DEF IrqEvent, TypeOK
  <2>3. InterruptNotLost'
    BY <1>0, <2>1, <2>2, IrqGoesOn DEF InterruptNotLost
  <2> QED
    BY <1>0, <2>1, <2>3, IrqGoesOn DEF IrqInv
<1>5. CASE IrqMad
  <2>1. irq # << >> /\ irq' = Tail(irq) /\ Head(irq) = "mad"
    BY <1>5 DEF IrqMad
  <2>2. InterruptNotLost'
    BY <1>0, <1>5, <2>1, IrqGoesOn DEF InterruptNotLost, IrqMad
  <2> QED
    BY <1>0, <2>1, <2>2, IrqGoesOn DEF IrqInv
<1>6. CASE IrqFatal
  <2>1. irq # << >> /\ Head(irq) = "fatal" /\ Head(irq) = irq[1] /\ Len(irq) \in Nat
    BY <1>6, IrqTail DEF IrqFatal
  <2>2. 1 \in 1 .. Len(irq)
    BY <2>1 DEF TypeOK
  <2>3. Len(irq) = 1
    BY <1>0, <2>1, <2>2 DEF FatalLast
  <2>4. \A j \in 1 .. Len(irq) : irq[j] = "fatal"
    BY <2>1, <2>3
  <2>5. FatalLast'
    <3>1. CASE irq' = Tail(irq)
      BY <1>0, <2>1, <3>1, IrqGoesOn
    <3>2. CASE irq' = <<"clear">>
      BY <3>2 DEF FatalLast
    <3> QED
      BY <1>6, <3>1, <3>2 DEF IrqFatal
  <2>6. InterruptNotLost'
    <3>1. int_bits' = int_bits /\ swept' = swept /\ INT_STAT' = INT_STAT
      BY <1>6 DEF IrqFatal
    <3> QED
      BY <1>0, <2>4, <3>1 DEF InterruptNotLost
  <2> QED
    BY <2>5, <2>6 DEF IrqInv
<1>7. CASE IrqClear
  <2>1. irq # << >> /\ irq' = Tail(irq) /\ Head(irq) = "clear"
    BY <1>7 DEF IrqClear
  <2>2. InterruptNotLost'
    BY <1>0, <1>7, <2>1, IrqGoesOn DEF InterruptNotLost, IrqClear
  <2> QED
    BY <1>0, <2>1, <2>2, IrqGoesOn DEF IrqInv
<1> QED
  BY <1>1, <1>2, <1>3, <1>4, <1>5, <1>6, <1>7 DEF Hardware, Irq

\* However the hardware, xib_irq and the tasklets interleave, a bit that is set
\* in an interrupt register is announced or on the way of the handler, unless
\* the write-back of INT_STAT in xib_fatal_event swept it; and xib_irq has
\* nothing left to do behind its fatal handler.
THEOREM QpInterruptNotLost == Spec => []InterruptNotLost
<1>1. Init => IrqInv
  BY DEF Init, IrqInv, FatalLast, InterruptNotLost
<1>2. ASSUME TypeOK, IrqInv, Next PROVE IrqInv'
  <2>1. ASSUME UNCHANGED intVars PROVE IrqInv'
    BY <1>2, <2>1 DEF IrqInv, FatalLast, InterruptNotLost, intVars
  <2>2. CASE PreReserveQp1
    BY <2>1, <2>2 DEF PreReserveQp1
  <2>3. CASE \E q \in QP : GsiTaskletKilled(q)
    BY <2>1, <2>3 DEF GsiTaskletKilled
  <2> QED
    BY <1>2, <2>1, <2>2, <2>3, IrqInvStep, ThreadsLeaveInterrupts DEF Next
<1>3. ASSUME IrqInv, UNCHANGED vars PROVE IrqInv'
  BY <1>3 DEF IrqInv, FatalLast, InterruptNotLost, vars, intVars
<1>4. IrqInv => InterruptNotLost
  BY DEF IrqInv
<1> QED
  BY <1>1, <1>2, <1>3, <1>4, QpTypeCorrect, PTL DEF Spec
-----------------------------------------------------------------------------
(* Indices.  The discipline is "booted". *)

\* The hardware, xib_irq and the tasklets leave the QPs and the tables alone.
LEMMA OthersLeaveQps ==
    ASSUME Hardware \/ Irq \/ \E q \in QP : Tasklet(q)
    PROVE  qp' = qp /\ UNCHANGED tableVars
BY DEF Hardware, HwEvent, HwMad, HwFatal, Irq, IrqEntry, IrqEvent, IrqMad, IrqFatal, IrqClear,
       Tasklet, RunComp, RunCnp, RunFatal

\* The invariant of the indices depends on the QPs and the tables only.
LEMMA IndexInvFrame ==
    ASSUME IndexInv, qp' = qp, UNCHANGED tableVars
    PROVE  IndexInv'
BY DEF IndexInv, ShapeInv, ReservedInv, MapInv, IndexIdentifiesQp, tableVars

\* A step on a QP that is listed, which stays listed with its index.
LEMMA IndexInvMove ==
    ASSUME TypeOK, IndexInv, NEW q \in QP, TypeOK',
           \A p \in QP \ {q} : qp'[p] = qp[p],
           qp[q].pc \in Owned \ {"build"}, qp'[q].pc \in Owned \ {"build"},
           qp'[q].hw_qpn = qp[q].hw_qpn, qp'[q].type = qp[q].type,
           qp'[q].bufs <=> qp'[q].pc # "unlist",
           UNCHANGED tableVars
    PROVE  IndexInv'
<1> USE DEF IndexInv
<1>0. "build" \in Owned /\ "alloc" \notin Owned /\ "none" \notin Owned
  BY DEF Owned
<1>1. ShapeInv'
  BY <1>0 DEF ShapeInv
<1>2. ReservedInv'
  BY <1>0 DEF ReservedInv, tableVars, ShapeInv
<1>3. MapInv'
  BY <1>0 DEF MapInv, tableVars
<1>4. IndexIdentifiesQp'
  BY <1>0 DEF IndexIdentifiesQp, tableVars
<1> QED
  BY <1>1, <1>2, <1>3, <1>4

\* Modifications and the destruction up to its last step are such steps.
LEMMA MoveIsMove ==
    ASSUME TypeOK, TypeOK', ShapeInv, NEW q \in QP,
           \/ Modify(q) \/ DestroyStop(q) \/ DestroyZero(q) \/ DestroyEnable(q)
           \/ xrnic_qp_disable(q) \/ DestroyFree(q)
    PROVE  /\ \A p \in QP \ {q} : qp'[p] = qp[p]
           /\ qp[q].pc \in Owned \ {"build"} /\ qp'[q].pc \in Owned \ {"build"}
           /\ qp'[q].hw_qpn = qp[q].hw_qpn /\ qp'[q].type = qp[q].type
           /\ qp'[q].bufs <=> qp'[q].pc # "unlist"
           /\ UNCHANGED tableVars
<1>0. /\ qp \in [QP -> QpRecord]
      /\ qp[q].pc \in Owned \ {"build", "unlist"} => qp[q].bufs
  BY DEF TypeOK, ShapeInv
<1>1. CASE Modify(q)
  BY <1>0, <1>1 DEF Modify, ModifyQp, ModifyAvRead, ModifyAvWrite, Owned, QpRecord
<1>2. CASE DestroyStop(q) \/ DestroyZero(q) \/ DestroyEnable(q) \/ xrnic_qp_disable(q)
  BY <1>0, <1>2 DEF DestroyStop, DestroyZero, DestroyEnable, xrnic_qp_disable, Goto, Owned,
                    QpRecord
<1>3. CASE DestroyFree(q)
  BY <1>0, <1>3 DEF DestroyFree, Owned, QpRecord
<1> QED
  BY <1>1, <1>2, <1>3

\* The probe finds the bitmap empty and takes index 0.
LEMMA IndexInvReserve ==
    ASSUME TypeOK, IndexInv, PreReserveQp1
    PROVE  IndexInv'
<1>1. qp_map' = {0} /\ reserved' = TRUE /\ qp' = qp /\ qp_list' = qp_list
  <2>1. qp_map = {}
    BY DEF IndexInv, ReservedInv, PreReserveQp1
  <2>2. FirstZero({}) = 0
    BY SizeFacts, FirstZeroFree, {} \in SUBSET Indices, {} # Indices DEF Indices
  <2> QED
    BY <2>1, <2>2, SizeFacts DEF PreReserveQp1
<1>2. \A q \in QP : qp[q].pc # "alloc" /\ (q \notin GsiQPs => qp[q].pc = "none")
  BY DEF PreReserveQp1, IndexInv, ReservedInv
<1> QED
  BY <1>1, <1>2 DEF IndexInv, ShapeInv, ReservedInv, MapInv, IndexIdentifiesQp, Owned

\* A creation that has loaded the bitmap: xib->lock is its own, the index it
\* found is free in the word it loaded, and the word holds all that is owned.
LEMMA IndexInvLoad ==
    ASSUME TypeOK, TypeOK', IndexInv, "booted" \in Discipline, NEW q \in QP, CreateLoad(q)
    PROVE  IndexInv'
<1> USE DEF IndexInv
<1>0. /\ FirstZero(qp_map) \in Indices /\ FirstZero(qp_map) \notin qp_map
      /\ reserved /\ 0 \in qp_map
  BY FirstZeroFree DEF CreateLoad, TypeOK, Assumes, ReservedInv
<1>1. /\ qp'[q].pc = "alloc" /\ qp'[q].word = qp_map /\ qp'[q].hw_qpn = FirstZero(qp_map)
      /\ qp'[q].type # "GSI" /\ ~qp'[q].bufs
      /\ \A p \in QP \ {q} : qp'[p] = qp[p]
      /\ qp[q].pc = "none" /\ q \notin GsiQPs
      /\ \A p \in QP \ {q} : qp[p].pc # "alloc"
      /\ UNCHANGED tableVars
  BY DEF CreateLoad, AllocIdLock, TypeOK, NoQp, tableVars
<1>2. "alloc" \notin Owned /\ "none" \notin Owned
  BY DEF Owned
<1>3. ShapeInv'
  BY <1>0, <1>1, <1>2 DEF ShapeInv
<1>4. ReservedInv'
  BY <1>0, <1>1, <1>2 DEF ReservedInv, tableVars
<1>5. MapInv'
  BY <1>0, <1>1, <1>2 DEF MapInv, tableVars
<1>6. IndexIdentifiesQp'
  BY <1>0, <1>1, <1>2 DEF IndexIdentifiesQp, tableVars
<1> QED
  BY <1>3, <1>4, <1>5, <1>6

\* The word is stored: the index becomes the QP's, although releases that fell
\* between the load and the store are undone.
LEMMA IndexInvStore ==
    ASSUME TypeOK, TypeOK', IndexInv, NEW q \in QP, CreateStore(q)
    PROVE  IndexInv'
<1> USE DEF IndexInv
<1>1. /\ qp[q].pc = "alloc" /\ qp'[q].pc = "build" /\ qp'[q].hw_qpn = qp[q].hw_qpn
      /\ qp'[q].type = qp[q].type /\ qp'[q].bufs = qp[q].bufs
      /\ \A p \in QP \ {q} : qp'[p] = qp[p]
      /\ qp_map' = qp[q].word \cup {qp[q].hw_qpn}
      /\ qp_list' = qp_list /\ reserved' = reserved
  BY DEF CreateStore, TypeOK, QpRecord
<1>2. "alloc" \notin Owned /\ "build" \in Owned
  BY DEF Owned
<1>3. /\ q \notin GsiQPs /\ reserved /\ 0 \in qp[q].word /\ qp[q].hw_qpn \notin qp[q].word
      /\ qp[q].hw_qpn # 0
      /\ \A p \in QP \ GsiQPs : qp[p].pc \in Owned => qp[p].hw_qpn \in qp[q].word
      /\ \A p \in GsiQPs : p \in QP /\ qp[p].hw_qpn = 0
      /\ \A p \in QP \ {q} : qp[p].pc # "alloc"
  BY <1>1, QpLifeAssumption DEF ShapeInv, MapInv
<1>4. ShapeInv'
  BY <1>1, <1>2, <1>3 DEF ShapeInv
<1>5. ReservedInv'
  BY <1>1, <1>3 DEF ReservedInv
<1>6. MapInv'
  BY <1>1, <1>2, <1>3 DEF MapInv
<1>7. IndexIdentifiesQp'
  <2>1. \A p \in QP \ {q} : qp[p].pc \in Owned => qp[p].hw_qpn # qp[q].hw_qpn
    BY <1>3
  <2> QED
    BY <1>1, <1>2, <2>1 DEF IndexIdentifiesQp
<1> QED
  BY <1>4, <1>5, <1>6, <1>7

\* The QP is built and listed.
LEMMA IndexInvDone ==
    ASSUME TypeOK, TypeOK', IndexInv, NEW q \in QP, CreateKernelDone(q) \/ CreateUserDone(q)
    PROVE  IndexInv'
<1> USE DEF IndexInv
<1>1. /\ qp[q].pc = "build" /\ qp'[q].pc = "live" /\ qp'[q].hw_qpn = qp[q].hw_qpn
      /\ qp'[q].type = qp[q].type /\ qp'[q].bufs
      /\ \A p \in QP \ {q} : qp'[p] = qp[p]
      /\ qp_map' = qp_map /\ reserved' = reserved
      /\ qp_list' = [qp_list EXCEPT ![qp[q].hw_qpn] = q]
  <2>0. qp \in [QP -> QpRecord] /\ qp[q] \in QpRecord
    BY DEF TypeOK
  <2>1. CASE CreateKernelDone(q)
    <3>1. qp' = [qp EXCEPT ![q] = [qp[q] EXCEPT !.pc = "live", !.bufs = TRUE]]
      BY <2>1 DEF CreateKernelDone, xib_alloc_qp_buffers
    <3>2. /\ qp'[q] = [qp[q] EXCEPT !.pc = "live", !.bufs = TRUE]
          /\ \A p \in QP \ {q} : qp'[p] = qp[p]
      BY <2>0, <3>1
    <3>3. /\ qp'[q].pc = "live" /\ qp'[q].hw_qpn = qp[q].hw_qpn
          /\ qp'[q].type = qp[q].type /\ qp'[q].bufs
      BY <2>0, <3>2 DEF QpRecord
    <3> QED
      BY <2>1, <3>2, <3>3 DEF CreateKernelDone, xib_qp_add
  <2>2. CASE CreateUserDone(q)
    BY <2>0, <2>2 DEF CreateUserDone, xib_qp_add, QpRecord
  <2> QED
    BY <2>1, <2>2
<1>2. "alloc" \notin Owned /\ "build" \in Owned /\ "live" \in Owned
  BY DEF Owned
<1>3. qp[q].hw_qpn \in Indices /\ qp_list \in [Indices -> QP \cup {NULL}]
  BY QpFields DEF TypeOK
<1>4. ShapeInv' /\ ReservedInv'
  BY <1>1, <1>2 DEF ShapeInv, ReservedInv
<1>5. MapInv'
  BY <1>1, <1>2 DEF MapInv
<1>6. IndexIdentifiesQp'
  <2>1. \A p \in QP \ {q} : qp[p].pc \in Owned => qp[p].hw_qpn # qp[q].hw_qpn
    BY <1>1, <1>2 DEF IndexIdentifiesQp
  <2>2. \A p \in QP \ {q} : qp[p].hw_qpn \in Indices
    BY QpFields DEF TypeOK
  <2> QED
    BY <1>1, <1>2, <1>3, <2>1, <2>2 DEF IndexIdentifiesQp
<1> QED
  BY <1>4, <1>5, <1>6

\* A creation gives up, before or after it has an index.
LEMMA IndexInvGone ==
    ASSUME TypeOK, TypeOK', IndexInv, "booted" \in Discipline, NEW q \in QP,
           CreateNoId(q) \/ \E why \in Failures : CreateFails(q, why) \/ GsiCreateFails(q, why)
    PROVE  IndexInv'
<1> USE DEF IndexInv
<1>1. /\ qp[q].pc \in {"none", "build"} /\ qp'[q].pc = "gone"
      /\ q \in GsiQPs => qp'[q].hw_qpn = 0
      /\ q \notin GsiQPs => qp'[q].type = qp[q].type
      /\ ~qp'[q].bufs
      /\ \A p \in QP \ {q} : qp'[p] = qp[p]
      /\ reserved' = reserved /\ qp_list' = qp_list
  <2>0. /\ qp \in [QP -> QpRecord] /\ qp[q] \in QpRecord
        /\ q \in GsiQPs => qp[q].hw_qpn = 0
        /\ qp[q].pc \in {"none", "build"} => ~qp[q].bufs
    BY DEF TypeOK, ShapeInv, Owned
  <2>1. CASE CreateNoId(q)
    BY <2>0, <2>1 DEF CreateNoId, QpRecord, tableVars
  <2>2. CASE \E why \in Failures : CreateFails(q, why)
    BY <2>0, <2>2 DEF CreateFails, QpRecord
  <2>3. CASE \E why \in Failures : GsiCreateFails(q, why)
    BY <2>0, <2>3 DEF GsiCreateFails, NoQp
  <2> QED
    BY <2>1, <2>2, <2>3
<1>2. \/ qp_map' = qp_map
      \/ q \notin GsiQPs /\ qp[q].pc = "build" /\ qp_map' = qp_map \ {qp[q].hw_qpn}
  BY DEF CreateNoId, CreateFails, GsiCreateFails, tableVars, ShapeInv
<1>3. "alloc" \notin Owned /\ "build" \in Owned /\ "gone" \notin Owned /\ "none" \notin Owned
  BY DEF Owned
<1>4. q \notin GsiQPs => reserved
  BY <1>1 DEF CreateNoId, CreateFails, GsiCreateFails, Assumes, ReservedInv
<1>5. ShapeInv'
  BY <1>1, <1>3 DEF ShapeInv
<1>6. ReservedInv'
  BY <1>1, <1>2, <1>3, <1>4 DEF ReservedInv, ShapeInv
<1>7. MapInv'
  <2>1. \A p \in QP \ {q} : qp[q].pc = "build" /\ qp[p].pc \in Owned => qp[p].hw_qpn # qp[q].hw_qpn
    BY <1>3 DEF IndexIdentifiesQp
  <2> QED
    BY <1>1, <1>2, <1>3, <2>1 DEF MapInv
<1>8. IndexIdentifiesQp'
  BY <1>1, <1>3 DEF IndexIdentifiesQp
<1> QED
  BY <1>5, <1>6, <1>7, <1>8

\* The GSI QP takes index 0, which no RC QP has.
LEMMA IndexInvGsi ==
    ASSUME TypeOK, TypeOK', IndexInv, NEW q \in QP, GsiCreate(q)
    PROVE  IndexInv'
<1> USE DEF IndexInv
<1>1. /\ qp[q].pc = "none" /\ q \in GsiQPs /\ qp'[q].pc = "live" /\ qp'[q].hw_qpn = 0
      /\ qp'[q].type = "GSI" /\ qp'[q].bufs
      /\ \A p \in QP \ {q} : qp'[p] = qp[p]
      /\ qp_map' = qp_map /\ reserved' = reserved
      /\ qp_list' = [qp_list EXCEPT ![0] = q]
      /\ \A p \in GsiQPs \ {q} : qp[p].pc \notin Owned
  BY DEF GsiCreate, xib_alloc_gsi_qp_buffers, xib_qp_add, TypeOK, NoQp, Owned
<1>2. /\ "alloc" \notin Owned /\ "live" \in Owned /\ "none" \notin Owned
      /\ "live" \notin {"build", "unlist"}
  BY DEF Owned
<1>3. 0 \in Indices /\ qp_list \in [Indices -> QP \cup {NULL}]
  BY SizeFacts DEF TypeOK
<1>4. ShapeInv' /\ ReservedInv'
  BY <1>1, <1>2 DEF ShapeInv, ReservedInv
<1>5. MapInv'
  BY <1>1, <1>2 DEF MapInv
<1>6. IndexIdentifiesQp'
  <2>1. \A p \in QP \ {q} : qp[p].pc \in Owned => qp[p].hw_qpn # 0
    BY <1>1 DEF ShapeInv
  <2>2. \A p \in QP \ {q} : qp[p].hw_qpn \in Indices
    BY QpFields DEF TypeOK
  <2> QED
    BY <1>1, <1>2, <1>3, <2>1, <2>2 DEF IndexIdentifiesQp
<1> QED
  BY <1>4, <1>5, <1>6

\* The end of a destruction: the index is released, without xib->lock.
LEMMA IndexInvDestroyed ==
    ASSUME TypeOK, TypeOK', IndexInv, NEW q \in QP, DestroyDone(q)
    PROVE  IndexInv'
<1> USE DEF IndexInv
<1>1. /\ qp[q].pc = "unlist" /\ qp'[q].pc \in {"kill", "gone"} /\ qp'[q].hw_qpn = qp[q].hw_qpn
      /\ qp'[q].type = qp[q].type /\ qp'[q].bufs = qp[q].bufs
      /\ \A p \in QP \ {q} : qp'[p] = qp[p]
      /\ reserved' = reserved
      /\ qp_map' \in {qp_map, qp_map \ {qp[q].hw_qpn}}
      /\ q \in GsiQPs => qp_map' = qp_map
      /\ qp_list' \in {qp_list, [qp_list EXCEPT ![qp[q].hw_qpn] = NULL]}
  BY DEF DestroyDone, Goto, FreesIndex, TypeOK, QpRecord, ShapeInv, Owned
<1>2. /\ "alloc" \notin Owned /\ "unlist" \in Owned /\ {"kill", "gone"} \cap Owned = {}
      /\ "none" \notin Owned /\ "build" # "unlist"
  BY DEF Owned
<1>3. qp[q].hw_qpn \in Indices /\ qp_list \in [Indices -> QP \cup {NULL}]
  BY QpFields DEF TypeOK
<1>4. \A p \in QP \ {q} : qp[p].pc \in Owned => qp[p].hw_qpn # qp[q].hw_qpn
  BY <1>1, <1>2 DEF IndexIdentifiesQp
<1>5. ShapeInv'
  BY <1>1, <1>2 DEF ShapeInv
<1>6. ReservedInv'
  BY <1>1, <1>2 DEF ReservedInv, ShapeInv
<1>7. MapInv'
  BY <1>1, <1>2, <1>4 DEF MapInv
<1>8. IndexIdentifiesQp'
  <2>2. \A p \in QP \ {q} : qp[p].hw_qpn \in Indices
    BY QpFields DEF TypeOK
  <2> QED
    BY <1>1, <1>2, <1>3, <1>4, <2>2 DEF IndexIdentifiesQp
<1> QED
  BY <1>5, <1>6, <1>7, <1>8

\* The wait for the tasklet of the GSI QP leaves the indices alone.
LEMMA IndexInvKilled ==
    ASSUME TypeOK, IndexInv, NEW q \in QP, GsiTaskletKilled(q)
    PROVE  IndexInv'
<1> USE DEF IndexInv
<1>1. /\ qp[q].pc = "kill" /\ qp'[q].pc = "gone" /\ qp'[q].hw_qpn = qp[q].hw_qpn
      /\ qp'[q].type = qp[q].type /\ qp'[q].bufs = qp[q].bufs
      /\ \A p \in QP \ {q} : qp'[p] = qp[p]
      /\ reserved' = reserved /\ qp_map' = qp_map /\ qp_list' = qp_list
  BY KilledFrame DEF TypeOK, tableVars
<1>2. "kill" \notin Owned /\ "gone" \notin Owned /\ "alloc" \notin Owned /\ "none" \notin Owned
  BY DEF Owned
<1>3. \A p \in QP :
         /\ qp'[p].pc \in Owned <=> qp[p].pc \in Owned
         /\ qp'[p].pc = "alloc" <=> qp[p].pc = "alloc"
         /\ qp'[p].pc \in Owned \cup {"alloc"} => qp'[p] = qp[p]
  BY <1>1, <1>2
<1>4. ShapeInv'
  BY <1>1, <1>2, <1>3 DEF ShapeInv
<1>5. ReservedInv'
  <2>1. ~reserved => q \in GsiQPs
    BY <1>1 DEF ReservedInv
  <2> QED
    BY <1>1, <2>1 DEF ReservedInv
<1>6. MapInv'
  BY <1>1, <1>2, <1>3 DEF MapInv
<1>7. IndexIdentifiesQp'
  BY <1>1, <1>2, <1>3 DEF IndexIdentifiesQp
<1> QED
  BY <1>4, <1>5, <1>6, <1>7

\* The invariant of the indices, from which two QPs never share one.
LEMMA IndexInvariant == "booted" \in Discipline => (Spec => []IndexInv)
<1> SUFFICES ASSUME "booted" \in Discipline PROVE Spec => []IndexInv
  OBVIOUS
<1>1. Init => IndexInv
  BY DEF Init, IndexInv, ShapeInv, ReservedInv, MapInv, IndexIdentifiesQp, NoQp, Owned
<1>2. ASSUME TypeOK, TypeOK', IndexInv, Next PROVE IndexInv'
  <2>1. CASE PreReserveQp1
    BY <1>2, <2>1, IndexInvReserve
  <2>2. ASSUME NEW q \in QP, Create(q) PROVE IndexInv'
    BY <1>2, <2>2, IndexInvLoad, IndexInvStore, IndexInvDone, IndexInvGone, IndexInvGsi DEF Create
  <2>3. ASSUME NEW q \in QP, Modify(q) \/ Destroy(q) PROVE IndexInv'
    <3>1. CASE DestroyDone(q)
      BY <1>2, <3>1, IndexInvDestroyed
    <3>2. CASE \/ Modify(q) \/ DestroyStop(q) \/ DestroyZero(q) \/ DestroyEnable(q)
               \/ xrnic_qp_disable(q) \/ DestroyFree(q)
      <4>1. ShapeInv
        BY <1>2 DEF IndexInv
      <4> HIDE DEF IndexInv
      <4> QED
        BY <1>2, <3>2, <4>1, MoveIsMove, IndexInvMove
    <3> QED
      BY <2>3, <3>1, <3>2 DEF Destroy
  <2>4. CASE Hardware \/ Irq \/ \E q \in QP : Tasklet(q)
    BY <1>2, <2>4, OthersLeaveQps, IndexInvFrame
  <2> QED
    BY <1>2, <2>1, <2>2, <2>3, <2>4, IndexInvKilled DEF Next
<1>3. ASSUME IndexInv, UNCHANGED vars PROVE IndexInv'
  BY <1>3, IndexInvFrame DEF vars
<1> QED
  BY <1>1, <1>2, <1>3, QpTypeCorrect, PTL DEF Spec

\* Two QPs never share a hardware index, however the releases of xib_destroy_qp,
\* which do not hold xib->lock, fall into an allocation, and qp_list finds each
\* QP under its index; the probe must have set index 0 aside first.
THEOREM QpIndexIdentifies == "booted" \in Discipline => (Spec => []IndexIdentifiesQp)
<1>1. IndexInv => IndexIdentifiesQp
  BY DEF IndexInv
<1> QED
  BY <1>1, IndexInvariant, PTL
-----------------------------------------------------------------------------
(* QP_ENABLE.  The discipline is "booted". *)

\* The creation of a QP leaves QP_CONF alone, and the QP it is about has no
\* buffers until it is listed.
LEMMA CreateIsOnOne ==
    ASSUME TypeOK, ShapeInv, NEW q \in QP, Create(q)
    PROVE  /\ QP_CONF' = QP_CONF
           /\ \A p \in QP \ {q} : qp'[p] = qp[p]
           /\ qp[q].pc \in {"none", "alloc", "build"} /\ ~qp[q].bufs
           /\ qp'[q].pc \in {"alloc", "build", "live", "gone"}
<1>0. /\ qp \in [QP -> QpRecord]
      /\ qp[q].pc \in {"none", "alloc", "build"} => ~qp[q].bufs
  BY DEF TypeOK, ShapeInv, Owned
<1>1. CASE CreateLoad(q)
  BY <1>0, <1>1 DEF CreateLoad, NoQp, hwVars
<1>5. CASE CreateNoId(q) \/ CreateStore(q)
  BY <1>0, <1>5 DEF CreateNoId, CreateStore, QpRecord, hwVars
<1>6. CASE CreateUserDone(q)
  BY <1>0, <1>6 DEF CreateUserDone, xib_qp_add, QpRecord, hwVars
<1>2. CASE CreateKernelDone(q)
  <2>1. /\ QP_CONF' = QP_CONF /\ qp[q].pc = "build"
        /\ qp' = [qp EXCEPT ![q] = xib_alloc_qp_buffers(qp[q])]
    BY <1>2 DEF CreateKernelDone, xib_qp_add, hwVars
  <2>2. xib_alloc_qp_buffers(qp[q]).pc = "live"
    BY <1>0 DEF xib_alloc_qp_buffers, QpRecord
  <2> QED
    BY <1>0, <2>1, <2>2
<1>3. CASE GsiCreate(q)
  <2>1. /\ QP_CONF' = QP_CONF /\ qp[q].pc = "none"
        /\ qp' = [qp EXCEPT ![q] = xib_alloc_gsi_qp_buffers(NoQp)]
    BY <1>3 DEF GsiCreate, xib_qp_add, hwVars
  <2>2. xib_alloc_gsi_qp_buffers(NoQp).pc = "live"
    BY DEF xib_alloc_gsi_qp_buffers, NoQp
  <2> QED
    BY <1>0, <2>1, <2>2
<1>4. CASE \E why \in Failures : CreateFails(q, why) \/ GsiCreateFails(q, why)
  BY <1>0, <1>4, ZenonT(30) DEF CreateFails, GsiCreateFails, NoQp, QpRecord, hwVars
<1> QED
  BY <1>1, <1>2, <1>3, <1>4, <1>5, <1>6 DEF Create

\* The interrupt handler, the tasklets and the hardware only ever disable.
LEMMA OthersOnlyDisable ==
    ASSUME TypeOK, Hardware \/ Irq \/ \E q \in QP : Tasklet(q)
    PROVE  \A i \in Indices : QP_CONF'[i].enable => QP_CONF[i].enable
<1>1. \A c \in Conf : StopConf(c).enable = FALSE
  BY DEF StopConf, Conf
<1>2. CASE Hardware
  BY <1>2 DEF Hardware, HwEvent, HwMad, HwFatal
<1>3. CASE IrqFatal
  BY <1>1, <1>3 DEF IrqFatal, TypeOK
<1>4. CASE Irq /\ ~IrqFatal
  BY <1>4 DEF Irq, IrqEntry, IrqEvent, IrqMad, IrqClear, hwVars
<1>5. ASSUME NEW q \in QP, RunFatal(q)
      PROVE  \A i \in Indices : QP_CONF'[i].enable => QP_CONF[i].enable
  BY <1>1, <1>5, QpFields DEF RunFatal, TypeOK
<1>6. CASE \E q \in QP : RunComp(q) \/ RunCnp(q)
  BY <1>6 DEF RunComp, RunCnp, hwVars
<1> QED
  BY <1>2, <1>3, <1>4, <1>5, <1>6 DEF Tasklet

\* While QP_ENABLE is set at an index, a QP with buffers owns the index.
LEMMA ConfInvariant == "booted" \in Discipline => (Spec => []ConfInv)
<1> SUFFICES ASSUME "booted" \in Discipline PROVE Spec => []ConfInv
  OBVIOUS
<1>1. Init => ConfInv
  BY DEF Init, ConfInv, EnabledQpHasBuffers, ConfOff, NoQp
<1>2. ASSUME TypeOK, TypeOK', IndexInv, IndexInv', ConfInv, Next PROVE ConfInv'
  <2> USE DEF ConfInv, EnabledQpHasBuffers, Holders
  <2>0. /\ ShapeInv /\ IndexIdentifiesQp /\ "gone" \notin Owned /\ "none" \notin Owned
        /\ \A q \in QP : qp[q].hw_qpn \in Indices
    BY <1>2, QpFields DEF IndexInv, Owned, TypeOK
  <2>1. CASE PreReserveQp1
    BY <1>2, <2>1 DEF PreReserveQp1, hwVars
  <2>2. ASSUME NEW q \in QP, Create(q) PROVE ConfInv'
    BY <1>2, <2>0, <2>2, CreateIsOnOne
  <2>3. ASSUME NEW q \in QP, Modify(q) PROVE ConfInv'
    <3>1. /\ \A p \in QP \ {q} : qp'[p] = qp[p]
          /\ qp'[q].pc \in {"live", "av"} /\ qp'[q].bufs /\ qp'[q].hw_qpn = qp[q].hw_qpn
      <4>1. qp'[q].pc \in {"live", "av"}
        BY <1>2, <2>3 DEF Modify, ModifyQp, ModifyAvRead, ModifyAvWrite, TypeOK, QpRecord
      <4> QED
        BY <1>2, <2>0, <2>3, <4>1, MoveIsMove
    <3>2. \A i \in Indices : i # qp[q].hw_qpn => QP_CONF'[i] = QP_CONF[i]
      BY <1>2, <2>3 DEF Modify, ModifyQp, ModifyAvRead, ModifyAvWrite, TypeOK, hwVars
    <3>3. \A p \in QP \ {q} : qp[p].pc = "free" => qp[p].hw_qpn # qp[q].hw_qpn
      BY <2>0, <2>3 DEF IndexIdentifiesQp, Owned, Modify, ModifyQp, ModifyAvRead, ModifyAvWrite
    <3> QED
      BY <1>2, <2>0, <3>1, <3>2, <3>3 DEF Owned
  <2>4. ASSUME NEW q \in QP, Destroy(q) PROVE ConfInv'
    <3>1. /\ \A p \in QP \ {q} : qp'[p] = qp[p]
          /\ qp[q].pc \in Owned /\ qp'[q].hw_qpn = qp[q].hw_qpn
          /\ qp'[q].pc \in {"reset1", "reset2", "disable", "free"} => qp'[q].bufs
      <4>1. CASE DestroyDone(q)
        BY <1>2, <4>1 DEF DestroyDone, Goto, TypeOK, QpRecord, Owned
      <4>2. CASE ~DestroyDone(q)
        BY <1>2, <2>0, <2>4, <4>2, MoveIsMove DEF Destroy
      <4> QED
        BY <4>1, <4>2
    <3>2. \A i \in Indices : i # qp[q].hw_qpn => QP_CONF'[i] = QP_CONF[i]
      BY <1>2, <2>4 DEF Destroy, DestroyStop, DestroyZero, DestroyEnable, xrnic_qp_disable,
                        DestroyFree, DestroyDone, TypeOK, hwVars
    <3>3. \A p \in QP \ {q} : qp[p].pc \in Owned => qp[p].hw_qpn # qp[q].hw_qpn
      BY <2>0, <3>1 DEF IndexIdentifiesQp
    <3>4. \/ qp'[q].pc \in {"reset1", "reset2", "disable"}
          \/ ~QP_CONF'[qp[q].hw_qpn].enable /\ qp'[q].pc \in {"free", "unlist", "kill", "gone"}
      <4>1. CASE DestroyStop(q) \/ DestroyZero(q) \/ DestroyEnable(q)
        BY <1>2, <4>1 DEF DestroyStop, DestroyZero, DestroyEnable, Goto, TypeOK, QpRecord
      <4>2. CASE xrnic_qp_disable(q)
        BY <1>2, <2>0, <4>2
           DEF xrnic_qp_disable, DisabledConf, ConfOff, Goto, TypeOK, QpRecord
      <4>3. CASE DestroyFree(q)
        BY <1>2, <2>0, <4>3 DEF DestroyFree, hwVars, TypeOK, QpRecord
      <4>4. CASE DestroyDone(q)
        <5>1. ~qp[q].bufs /\ qp[q].pc = "unlist"
          BY <1>2, <2>0, <4>4 DEF DestroyDone, ShapeInv
        <5>2. ~QP_CONF[qp[q].hw_qpn].enable
          BY <1>2, <2>0, <5>1 DEF IndexIdentifiesQp, Owned
        <5> QED
          BY <1>2, <4>4, <5>2 DEF DestroyDone, Goto, hwVars, TypeOK, QpRecord
      <4> QED
        BY <2>4, <4>1, <4>2, <4>3, <4>4 DEF Destroy
    <3> QED
      BY <1>2, <2>0, <3>1, <3>2, <3>3, <3>4 DEF Owned
  <2>5. CASE Hardware \/ Irq \/ \E q \in QP : Tasklet(q)
    BY <1>2, <2>0, <2>5, OthersLeaveQps, OthersOnlyDisable
  <2>6. ASSUME NEW q \in QP, GsiTaskletKilled(q) PROVE ConfInv'
    <3>1. /\ QP_CONF' = QP_CONF /\ \A i \in Indices : Holders(i)' = Holders(i)
          /\ \A p \in QP : qp'[p].bufs = qp[p].bufs
          /\ \A p \in QP : qp'[p].pc = "free" => qp'[p] = qp[p]
      BY <1>2, <2>6, KilledFrame DEF TypeOK, hwVars
    <3>2. \A i \in Indices : Holders(i) \subseteq QP
      BY DEF Holders
    <3> QED
      BY <1>2, <3>1, <3>2 DEF ConfInv, EnabledQpHasBuffers
  <2> QED
    BY <1>2, <2>1, <2>2, <2>3, <2>4, <2>5, <2>6 DEF Next
<1>3. ASSUME ConfInv, UNCHANGED vars PROVE ConfInv'
  BY <1>3 DEF ConfInv, EnabledQpHasBuffers, Holders, vars, hwVars
<1> QED
  BY <1>1, <1>2, <1>3, QpTypeCorrect, IndexInvariant, PTL DEF Spec

\* The hardware never works on a QP whose queues were freed: QP_ENABLE is off
\* from xrnic_qp_disable until the next QP of the index is initialised, however
\* the recovery and the other QPs write QP_CONF.
THEOREM QpEnabledHasBuffers == "booted" \in Discipline => (Spec => []EnabledQpHasBuffers)
<1>1. ConfInv => EnabledQpHasBuffers
  BY DEF ConfInv
<1> QED
  BY <1>1, ConfInvariant, PTL
-----------------------------------------------------------------------------
(* The ring of fatal errors. *)

errRing == <<errq, errq_wptr, in_pkt_err_db_local>>

\* What is new in the ring depends on the ring and its two pointers.
LEMMA ErrFrame ==
    ASSUME UNCHANGED errRing
    PROVE  ErrIndices' = ErrIndices
BY DEF errRing, ErrIndices, ErrReceived, ErrEntry

\* xib_fatal_event takes all that is new.
LEMMA ErrTaken ==
    ASSUME TypeOK, in_pkt_err_db_local' = errq_wptr, errq_wptr' = errq_wptr
    PROVE  ErrIndices' = {}
<1>1. ErrReceived' = 0
  BY DEF ErrReceived, TypeOK
<1> QED
  BY <1>1 DEF ErrIndices

\* A new error of the hardware adds its own index to those the handler will
\* find, and no other, wherever the pointers are and also when the ring is full.
LEMMA ErrAdded ==
    ASSUME TypeOK, NEW i \in Indices, HwFatal(i)
    PROVE  ErrIndices' \subseteq ErrIndices \cup {i}
<1> DEFINE L == in_pkt_err_db_local  W == errq_wptr  P == errq_wptr % MaxQp
           V == errq_wptr'
<1>0. /\ MaxQp \in Nat \ {0} /\ L \in 0 .. MaxQp /\ W \in 0 .. MaxQp /\ i \in Nat
      /\ errq \in [Indices -> 0 .. MaxQp]
  BY SizeFacts DEF TypeOK
<1>1. P = IF W = MaxQp THEN 0 ELSE W
  BY <1>0, RingMod
<1>2. /\ V = P + 1 /\ in_pkt_err_db_local' = L /\ errq' = [errq EXCEPT ![P] = i + 1]
  BY DEF HwFatal
<1>3. P \in Indices
  BY <1>0, <1>1 DEF Indices
<1>4. \A k \in Nat \ {0} : ErrEntry(k) \in Indices
  <2> SUFFICES ASSUME NEW k \in Nat \ {0} PROVE ErrEntry(k) \in Indices
    OBVIOUS
  <2>1. L + (k - 1) \in Nat
    BY <1>0
  <2>2. (L + (k - 1)) % MaxQp \in 0 .. MaxQp - 1
    BY <1>0, <2>1, DivMod
  <2>3. ErrEntry(k) = (L + (k - 1)) % MaxQp
    BY DEF ErrEntry
  <2> QED
    BY <2>2, <2>3, Zenon DEF Indices
<1> SUFFICES ASSUME NEW k \in 1 .. ErrReceived'
             PROVE  (errq[ErrEntry(k)] - 1)' \in ErrIndices \cup {i}
  BY DEF ErrIndices
<1>5. ErrReceived = IF L > W THEN (W + MaxQp) - L ELSE W - L
  BY DEF ErrReceived
<1>6. ErrReceived' = IF L > V THEN (V + MaxQp) - L ELSE V - L
  BY <1>2 DEF ErrReceived
<1>7. ErrEntry(k)' = (L + k - 1) % MaxQp /\ ErrEntry(k) = (L + k - 1) % MaxQp
  BY <1>2 DEF ErrEntry
<1> HIDE DEF L, W, P, V
<1>8. ErrReceived \in Nat /\ ErrReceived' \in Nat /\ k \in Nat \ {0} /\ L + k - 1 \in Nat
  BY <1>0, <1>1, <1>2, <1>5, <1>6
<1>9. CASE k \in 1 .. ErrReceived
  <2>1. errq'[ErrEntry(k)] \in {errq[ErrEntry(k)], i + 1}
    BY <1>0, <1>2, <1>3, <1>4, <1>8
  <2>2. errq[ErrEntry(k)] - 1 \in ErrIndices
    BY <1>9 DEF ErrIndices
  <2>3. (i + 1) - 1 = i
    BY <1>0
  <2> QED
    BY <1>7, <2>1, <2>2, <2>3
<1>10. CASE k \notin 1 .. ErrReceived
  <2>1. L + k - 1 = P \/ L + k - 1 = P + MaxQp
    BY <1>0, <1>1, <1>2, <1>5, <1>6, <1>8, <1>10
  <2>2. P \in 0 .. MaxQp - 1
    BY <1>0, <1>1
  <2>3. (L + k - 1) % MaxQp = P
    BY <1>0, <2>1, <2>2, RingMod2
  <2>4. errq'[ErrEntry(k)'] = i + 1
    BY <1>0, <1>2, <1>3, <1>7, <2>3
  <2> QED
    BY <1>0, <2>4
<1> QED
  BY <1>9, <1>10
-----------------------------------------------------------------------------
(* What is still to be served.  The discipline is "booted" and "quiet". *)

\* The threads that create, modify and destroy QPs leave to the hardware and
\* xib_irq what waits to be served.
LEMMA ThreadsLeaveWork ==
    ASSUME NEW q \in QP, PreReserveQp1 \/ Create(q) \/ Modify(q) \/ Destroy(q)
    PROVE  UNCHANGED <<intVars, errRing, task>>
<1>1. UNCHANGED intVars
  BY ThreadsLeaveInterrupts
<1>2. CASE PreReserveQp1 \/ Create(q)
  BY <1>1, <1>2 DEF PreReserveQp1, Create, CreateLoad, CreateNoId, CreateStore, CreateKernelDone,
              CreateUserDone, CreateFails, GsiCreateFails, GsiCreate, xib_qp_add, errVars, errRing
<1>3. CASE Modify(q)
  BY <1>1, <1>3 DEF Modify, ModifyQp, ModifyAvRead, ModifyAvWrite, errVars, errRing
<1>4. CASE Destroy(q)
  BY <1>1, <1>4 DEF Destroy, DestroyStop, DestroyZero, DestroyEnable, xrnic_qp_disable, DestroyFree,
              DestroyDone, errVars, errRing
<1> QED
  BY <1>2, <1>3, <1>4

\* A QP that is up owns its index, and the list finds it there.
LEMMA UpIsListed ==
    ASSUME IndexInv, NEW q \in QP, Up(q)
    PROVE  q \in Holders(qp[q].hw_qpn) /\ qp_list[qp[q].hw_qpn] = q
BY DEF IndexInv, IndexIdentifiesQp, Up, Holders, Owned

\* What waits is served as long as the QPs that are up stay so.
LEMMA ServedByThreads ==
    ASSUME TypeOK, ServedInv, UNCHANGED <<intVars, errRing, task>>, MadsServed',
           \A p \in QP : Up(p) /\ Pending(p) => Up(p)' /\ qp'[p].hw_qpn = qp[p].hw_qpn
    PROVE  ServedInv'
<1>1. ErrIndices' = ErrIndices /\ int_bits' = int_bits /\ task' = task
  BY ErrFrame DEF intVars
<1>2. \A p \in QP : Up(p) /\ Pending(p) => Up(p)' /\ qp'[p].hw_qpn = qp[p].hw_qpn
  OBVIOUS
<1>3. ASSUME NEW i \in Int, UpAt(i), \A p \in Holders(i) : Pending(p) PROVE UpAt(i)'
  BY <1>2, <1>3 DEF UpAt, Holders, Up, Owned
<1>4. BitsServed'
  <2> SUFFICES ASSUME NEW k \in Kinds, NEW b \in int_bits[k] PROVE UpAt(b - 1)'
    BY <1>1 DEF BitsServed
  <2>1. b \in Nat /\ b - 1 \in Int /\ (b - 1) + 1 = b
    BY SizeFacts DEF TypeOK
  <2>2. UpAt(b - 1)
    BY DEF ServedInv, BitsServed
  <2>3. \A p \in Holders(b - 1) : Pending(p)
    BY <2>1 DEF Holders, Pending
  <2> QED
    BY <1>3, <2>1, <2>2, <2>3
<1>5. ErrorsServed'
  <2>1. ErrIndices \subseteq Indices /\ Indices \subseteq Int
    BY SizeFacts DEF ServedInv, ErrorsServed
  <2>2. ASSUME NEW i \in ErrIndices PROVE UpAt(i)'
    <3>1. UpAt(i) /\ \A p \in Holders(i) : Pending(p)
      BY DEF ServedInv, ErrorsServed, Holders, Pending
    <3> QED
      BY <1>3, <2>1, <3>1
  <2> QED
    BY <1>1, <2>1, <2>2 DEF ErrorsServed
<1>6. TasksServed'
  <2> SUFFICES ASSUME NEW t \in task PROVE Up(t[1])'
    BY <1>1 DEF TasksServed
  <2>1. t[1] \in QP /\ Up(t[1]) /\ Pending(t[1])
    BY DEF TypeOK, ServedInv, TasksServed, Pending
  <2> QED
    BY <1>2, <2>1
<1> QED
  BY <1>4, <1>5, <1>6 DEF ServedInv

\* A thread that creates, modifies or destroys a QP, once its traffic has
\* stopped and its interrupts have been served.
LEMMA ServedThreads ==
    ASSUME TypeOK, TypeOK', IndexInv, ServedInv, "quiet" \in Discipline,
           NEW q \in QP, Create(q) \/ Modify(q) \/ Destroy(q)
    PROVE  ServedInv'
<1>0. /\ ShapeInv /\ UNCHANGED <<intVars, errRing, task>> /\ MadsServed
      /\ MadWaits' = MadWaits
      /\ NULL \notin QP /\ GsiQPs \subseteq QP
  BY ThreadsLeaveWork, QpLifeAssumption DEF IndexInv, ServedInv, intVars, MadWaits
<1>1. CASE Create(q)
  <2>1. /\ \A p \in QP \ {q} : qp'[p] = qp[p]
        /\ qp[q].pc \in {"none", "alloc", "build"}
    BY <1>0, <1>1, CreateIsOnOne
  <2>2. ~Up(q)
    BY <2>1 DEF Up
  <2>3. MadsServed'
    <3>1. CASE q \in GsiQPs
      <4>1. /\ qp[q].pc = "none" /\ \A p \in GsiQPs \ {q} : qp[p].pc \in {"none", "gone"}
            /\ qp'[q].pc = "gone" \/ gsi_qp' = q
        <5>1. GsiCreate(q) \/ \E why \in Failures : GsiCreateFails(q, why)
          BY <1>0, <1>1, <3>1 DEF Create, CreateLoad, CreateNoId, CreateStore, CreateKernelDone,
             CreateUserDone, CreateFails, ShapeInv
        <5>2. [NoQp EXCEPT !.pc = "gone", !.type = "GSI"].pc = "gone"
          BY DEF NoQp
        <5> QED
          BY <5>1, <5>2 DEF GsiCreate, GsiCreateFails, TypeOK
      <4>2. ~GsiThere
        BY <4>1 DEF GsiThere, Up
      <4>3. \A p \in GsiQPs \ {q} : qp'[p].pc \notin Owned
        BY <1>0, <2>1, <4>1 DEF Owned
      <4>4. "gone" \notin Owned
        BY DEF Owned
      <4> QED
        BY <1>0, <4>1, <4>2, <4>3, <4>4 DEF MadsServed
    <3>2. CASE q \notin GsiQPs
      <4>1. gsi_qp' = gsi_qp
        BY <1>0, <1>1, <3>2 DEF Create, CreateLoad, CreateNoId, CreateStore, CreateKernelDone,
           CreateUserDone, CreateFails, GsiCreateFails, GsiCreate, tableVars
      <4>2. GsiThere => GsiThere'
        BY <1>0, <2>1, <3>2, <4>1 DEF GsiThere, Up
      <4> QED
        BY <1>0, <2>1, <3>2, <4>1, <4>2 DEF MadsServed
    <3> QED
      BY <3>1, <3>2
  <2> QED
    BY <1>0, <2>1, <2>2, <2>3, ServedByThreads DEF Up
<1>2. CASE Modify(q)
  <2>1. /\ \A p \in QP \ {q} : qp'[p] = qp[p]
        /\ qp[q].pc \in Owned /\ qp'[q].hw_qpn = qp[q].hw_qpn /\ UNCHANGED tableVars
    BY <1>0, <1>2, MoveIsMove
  <2>2. qp'[q].pc \in {"live", "av"}
    BY <1>2 DEF Modify, ModifyQp, ModifyAvRead, ModifyAvWrite, TypeOK, QpRecord
  <2>3. MadsServed'
    <3>1. gsi_qp' = gsi_qp
      BY <2>1 DEF tableVars
    <3>2. GsiThere => GsiThere'
      BY <1>0, <2>1, <2>2, <3>1 DEF GsiThere, Up
    <3> QED
      BY <1>0, <2>1, <3>1, <3>2 DEF MadsServed
  <2> QED
    BY <1>0, <2>1, <2>2, <2>3, ServedByThreads DEF Up
<1>3. CASE Destroy(q)
  <2>1. qp[q].pc \in Owned /\ \A p \in QP \ {q} : qp'[p] = qp[p]
    <3>1. CASE DestroyDone(q)
      BY <3>1 DEF DestroyDone, Goto, TypeOK, Owned
    <3> QED
      BY <1>0, <1>3, <3>1, MoveIsMove DEF Destroy
  <2>2. Up(q) => ~Pending(q)
    BY <1>3 DEF Up, Destroy, DestroyStop, DestroyZero, DestroyEnable, xrnic_qp_disable,
                DestroyFree, DestroyDone, Assumes
  <2>3. MadsServed'
    <3>1. CASE q \in GsiQPs
      <4>1. gsi_qp = q /\ qp[q].type = "GSI"
        BY <1>0, <2>1, <3>1 DEF MadsServed, ShapeInv
      <4>2. ~MadWaits
        BY <1>0, <2>2, <4>1 DEF MadsServed, GsiThere, Pending, MadWaits
      <4>3. \A p \in GsiQPs \ {q} : qp'[p].pc \notin Owned
        BY <1>0, <2>1, <4>1 DEF MadsServed
      <4>4. gsi_qp' = q \/ qp'[q].pc \notin Owned
        BY <1>3, <4>1 DEF Destroy, DestroyStop, DestroyZero, DestroyEnable, xrnic_qp_disable,
                DestroyFree, DestroyDone, tableVars, Goto, TypeOK, QpRecord, Owned
      <4> QED
        BY <1>0, <4>1, <4>2, <4>3, <4>4 DEF MadsServed
    <3>2. CASE q \notin GsiQPs
      <4>1. gsi_qp' = gsi_qp
        BY <1>0, <1>3, <3>2 DEF Destroy, DestroyStop, DestroyZero, DestroyEnable,
                xrnic_qp_disable, DestroyFree, DestroyDone, tableVars, ShapeInv
      <4>2. GsiThere => GsiThere'
        BY <1>0, <2>1, <3>2, <4>1 DEF GsiThere, Up
      <4> QED
        BY <1>0, <2>1, <3>2, <4>1, <4>2 DEF MadsServed
    <3> QED
      BY <3>1, <3>2
  <2> QED
    BY <1>0, <2>1, <2>2, <2>3, ServedByThreads DEF Up
<1> QED
  BY <1>1, <1>2, <1>3

\* Traffic is for a QP that is up: the hardware works on enabled QPs, which
\* have buffers, and on none that is being destroyed.
LEMMA TrafficIsUp ==
    ASSUME TypeOK, IndexInv, ConfInv, "quiet" \in Discipline, NEW i \in Indices, Traffic(i)
    PROVE  UpAt(i)
<1>1. PICK q \in Holders(i) : qp[q].bufs
  BY DEF ConfInv, EnabledQpHasBuffers, Traffic
<1>2. qp[q].pc \notin Dying
  BY <1>1 DEF Traffic, Assumes
<1>3. q \in QP /\ qp[q].pc \in Owned \ {"build", "unlist"}
  BY <1>1 DEF Holders, IndexInv, ShapeInv
<1>4. Up(q)
  BY <1>2, <1>3 DEF Up, Owned, Dying
<1> QED
  BY <1>1, <1>4 DEF UpAt

\* The wait for the tasklet of the GSI QP changes nothing that is to be served.
LEMMA ServedKilled ==
    ASSUME TypeOK, IndexInv, ServedInv, NEW q \in QP, GsiTaskletKilled(q)
    PROVE  ServedInv'
<1>1. /\ \A p \in QP : qp'[p] = qp[p] \/ (p = q /\ qp'[p].pc = "gone")
      /\ gsi_qp' = gsi_qp /\ INT_STAT' = INT_STAT /\ irq' = irq /\ int_bits' = int_bits
      /\ task' = task /\ \A i \in Indices : Holders(i)' = Holders(i)
      /\ \A p \in QP : Up(p)' = Up(p)
  BY KilledFrame DEF TypeOK, tableVars, intVars
<1>2. ErrIndices' = ErrIndices
  BY KilledFrame, ErrFrame DEF TypeOK, errVars, errRing
<1>3. /\ \A i \in Indices : UpAt(i) => UpAt(i)'
      /\ \A k \in Kinds, b \in 1 .. MaxQp : b - 1 \in Indices
      /\ int_bits \in [Kinds -> SUBSET (1 .. MaxQp)] /\ task \subseteq QP \X {"comp", "cnp", "fatal"}
      /\ "gone" \notin Owned /\ MadWaits' = MadWaits
  <2>1. \A k \in Kinds, b \in 1 .. MaxQp : b - 1 \in Indices
    BY SizeFacts DEF Indices
  <2>2. \A i \in Indices : UpAt(i) => UpAt(i)'
    BY <1>1 DEF UpAt, Holders
  <2> QED
    BY <1>1, <2>1, <2>2 DEF TypeOK, MadWaits, Owned
<1>4. BitsServed' /\ ErrorsServed'
  BY <1>1, <1>2, <1>3 DEF ServedInv, BitsServed, ErrorsServed
<1>5. TasksServed'
  BY <1>1, <1>3 DEF ServedInv, TasksServed
<1>6. MadsServed'
  BY <1>1, <1>3, QpLifeAssumption DEF ServedInv, MadsServed, GsiThere
<1> QED
  BY <1>4, <1>5, <1>6 DEF ServedInv

\* A new interrupt.
LEMMA ServedHardware ==
    ASSUME TypeOK, IndexInv, ConfInv, ServedInv, "quiet" \in Discipline, Hardware
    PROVE  ServedInv'
<1> USE DEF ServedInv
<1>0. qp' = qp /\ gsi_qp' = gsi_qp /\ task' = task
  BY DEF Hardware, HwEvent, HwMad, HwFatal, tableVars
<1>1. (\A i : UpAt(i) => UpAt(i)') /\ (GsiThere <=> GsiThere')
  BY <1>0 DEF UpAt, Holders, Up, GsiThere
<1>2. TasksServed'
  BY <1>0 DEF TasksServed, Up
<1>3. ASSUME NEW i \in Indices, NEW k \in Kinds, HwEvent(i, k) PROVE ServedInv'
  <2>1. UpAt(i) /\ i \in Nat /\ (i + 1) - 1 = i
    BY <1>3, TrafficIsUp, SizeFacts DEF HwEvent
  <2>2. BitsServed'
    <3>1. \A x \in Kinds : \A b \in int_bits'[x] : b \in int_bits[x] \/ b = i + 1
      BY <1>3 DEF HwEvent, TypeOK
    <3> QED
      BY <1>1, <2>1, <3>1 DEF BitsServed
  <2>3. ErrorsServed'
    <3>1. ErrIndices' = ErrIndices
      BY <1>3, ErrFrame DEF HwEvent, errVars, errRing
    <3> QED
      BY <1>1, <3>1 DEF ErrorsServed
  <2>4. MadsServed'
    BY <1>0, <1>1, <1>3, QpLifeAssumption DEF MadsServed, MadWaits, HwEvent
  <2> QED
    BY <1>2, <2>2, <2>3, <2>4
<1>4. CASE HwMad
  <2>1. UpAt(0)
    BY <1>4, TrafficIsUp, SizeFacts DEF HwMad
  <2>2. PICK q \in QP : Up(q) /\ qp[q].hw_qpn = 0
    BY <2>1 DEF UpAt, Holders
  <2>3. qp[q].pc \in Owned
    BY <2>2 DEF Up, Owned
  <2>4. GsiThere
    BY <2>2, <2>3 DEF IndexInv, ShapeInv, MadsServed, GsiThere
  <2>5. MadsServed'
    BY <1>0, <1>1, <2>4 DEF MadsServed
  <2>6. BitsServed'
    BY <1>1, <1>4 DEF BitsServed, HwMad
  <2>7. ErrorsServed'
    <3>1. ErrIndices' = ErrIndices
      BY <1>4, ErrFrame DEF HwMad, errVars, errRing
    <3> QED
      BY <1>1, <3>1 DEF ErrorsServed
  <2> QED
    BY <1>2, <2>5, <2>6, <2>7
<1>5. ASSUME NEW i \in Indices, HwFatal(i) PROVE ServedInv'
  <2>1. UpAt(i)
    BY <1>5, TrafficIsUp DEF HwFatal
  <2>2. ErrorsServed'
    BY <1>1, <1>5, <2>1, ErrAdded DEF ErrorsServed
  <2>3. BitsServed'
    BY <1>1, <1>5 DEF BitsServed, HwFatal
  <2>4. MadsServed'
    BY <1>0, <1>1, <1>5 DEF MadsServed, MadWaits, HwFatal
  <2> QED
    BY <1>2, <2>2, <2>3, <2>4
<1> QED
  BY <1>3, <1>4, <1>5 DEF Hardware

\* The QP of an index that waits to be served is the one the list names.
LEMMA ListedIsUp ==
    ASSUME IndexInv, NEW i, UpAt(i)
    PROVE  qp_list[i] \in QP /\ Up(qp_list[i]) /\ qp[qp_list[i]].hw_qpn = i
<1>1. PICK q \in QP : Up(q) /\ qp[q].hw_qpn = i
  BY DEF UpAt, Holders
<1> QED
  BY <1>1, UpIsListed

\* The QPs whose bits are set are up, and those alone get a tasklet.
LEMMA ListedForIsUp ==
    ASSUME TypeOK, IndexInv, BitsServed, NEW k \in Kinds, NEW b \in int_bits[k]
    PROVE  ListedFor(b) \in QP /\ Up(ListedFor(b))
<1>1. b \in Nat /\ (b + 1) - 2 = b - 1
  BY SizeFacts DEF TypeOK
<1>2. UpAt(b - 1)
  BY DEF BitsServed
<1> QED
  BY <1>1, <1>2, ListedIsUp DEF ListedFor

\* xib_irq serves what waits: the tasklets it schedules are for QPs that are up.
LEMMA ServedIrq ==
    ASSUME TypeOK, IndexInv, ServedInv, Irq
    PROVE  ServedInv'
<1> USE DEF ServedInv
<1>0. qp' = qp /\ gsi_qp' = gsi_qp
  BY OthersLeaveQps DEF tableVars
<1>1. (\A i : UpAt(i) => UpAt(i)') /\ (GsiThere <=> GsiThere') /\ \A q : Up(q) <=> Up(q)'
  BY <1>0 DEF UpAt, Holders, Up, GsiThere
<1>2. ASSUME irq # << >>, irq' = Tail(irq), INT_STAT' \subseteq INT_STAT PROVE MadsServed'
  <2>1. \A j \in 1 .. Len(irq') : irq'[j] = irq[j + 1] /\ j + 1 \in 1 .. Len(irq)
    BY <1>2, IrqTail
  <2>2. MadWaits' => MadWaits
    BY <1>2, <2>1 DEF MadWaits
  <2> QED
    BY <1>0, <1>1, <2>2 DEF MadsServed
<1>3. ASSUME UNCHANGED errRing PROVE ErrorsServed'
  BY <1>1, <1>3, ErrFrame DEF ErrorsServed
<1>4. ASSUME UNCHANGED int_bits PROVE BitsServed'
  BY <1>1, <1>4 DEF BitsServed
<1>5. ASSUME \A t \in task' : t \in task \/ Up(t[1]) PROVE TasksServed'
  BY <1>1, <1>5 DEF TasksServed
<1>6. CASE IrqEntry
  <2>1. MadWaits' => MadWaits
    BY <1>6, AskedFacts DEF MadWaits, IrqEntry, TypeOK
  <2>2. MadsServed'
    BY <1>0, <1>1, <2>1 DEF MadsServed
  <2> QED
    BY <1>3, <1>4, <1>5, <1>6, <2>2 DEF IrqEntry, errVars, errRing
<1>7. ASSUME NEW k \in Kinds, IrqEvent(k) PROVE ServedInv'
  <2>1. BitsServed'
    <3>1. \A x \in Kinds : int_bits'[x] \subseteq int_bits[x]
      BY <1>7 DEF IrqEvent, TypeOK
    <3> QED
      BY <1>1, <3>1 DEF BitsServed
  <2>2. TasksServed'
    <3> DEFINE listed == {ListedFor(b) : b \in int_bits[k]}
    <3>1. \A q \in listed : Up(q)
      BY ListedForIsUp
    <3>2. task' = task \cup TasksFor(k, listed \ {NULL})
      BY <1>7 DEF IrqEvent
    <3> HIDE DEF listed
    <3>3. \A t \in TasksFor(k, listed \ {NULL}) : t[1] \in listed
      BY DEF TasksFor
    <3> QED
      BY <1>5, <3>1, <3>2, <3>3
  <2> QED
    BY <1>2, <1>3, <1>7, <2>1, <2>2 DEF IrqEvent, errVars, errRing
<1>8. CASE IrqMad
  <2>1. irq # << >> /\ Head(irq) = "mad" /\ Head(irq) = irq[1] /\ Len(irq) \in Nat
    BY <1>8, IrqTail DEF IrqMad
  <2>2. 1 \in 1 .. Len(irq)
    BY <2>1 DEF TypeOK
  <2>3. GsiThere
    BY <2>1, <2>2 DEF MadsServed, MadWaits
  <2>4. TasksServed'
    BY <1>5, <1>8, <2>3 DEF IrqMad, GsiThere
  <2> QED
    BY <1>2, <1>3, <1>4, <1>8, <2>4 DEF IrqMad, errVars, errRing
<1>9. CASE IrqFatal
  <2>1. ErrIndices' = {}
    BY <1>9, ErrTaken DEF IrqFatal
  <2>2. ErrorsServed'
    BY <2>1 DEF ErrorsServed
  <2>3. TasksServed'
    <3> DEFINE listed == {qp_list[i] : i \in ErrIndices \cap Indices} \ {NULL}
    <3>1. \A q \in listed : Up(q)
      BY ListedIsUp DEF ErrorsServed
    <3>2. task' = task \cup {<<q, "fatal">> : q \in listed}
      BY <1>9 DEF IrqFatal
    <3> HIDE DEF listed
    <3> QED
      BY <1>5, <3>1, <3>2
  <2>4. MadsServed'
    <3>1. CASE irq' = Tail(irq)
      BY <1>2, <1>9, <3>1 DEF IrqFatal
    <3>2. CASE irq' = <<"clear">>
      <4>1. MadWaits' => MadWaits
        BY <1>9, <3>2 DEF IrqFatal, MadWaits
      <4> QED
        BY <1>0, <1>1, <4>1 DEF MadsServed
    <3> QED
      BY <1>9, <3>1, <3>2 DEF IrqFatal
  <2> QED
    BY <1>4, <1>9, <2>2, <2>3, <2>4 DEF IrqFatal
<1>10. CASE IrqClear
  BY <1>2, <1>3, <1>4, <1>5, <1>10 DEF IrqClear, errVars, errRing
<1> QED
  BY <1>6, <1>7, <1>8, <1>9, <1>10 DEF Irq

\* What waits to be served is for QPs that are there: bits, errors, tasklets
\* and datagrams, however they fall between the creations and destructions.
LEMMA ServedInvariant ==
    {"booted", "quiet"} \subseteq Discipline => (Spec => []ServedInv)
<1> SUFFICES ASSUME "booted" \in Discipline, "quiet" \in Discipline PROVE Spec => []ServedInv
  OBVIOUS
<1>1. Init => ServedInv
  <2> SUFFICES ASSUME Init PROVE ServedInv
    OBVIOUS
  <2>1. ErrReceived = 0
    BY QpLifeAssumption DEF Init, ErrReceived
  <2>2. ErrorsServed
    BY <2>1 DEF ErrorsServed, ErrIndices
  <2>3. BitsServed /\ TasksServed /\ MadsServed
    BY QpLifeAssumption DEF Init, BitsServed, TasksServed, MadsServed, MadWaits, NoQp, Owned
  <2> QED
    BY <2>2, <2>3 DEF ServedInv
<1>2. ASSUME TypeOK, TypeOK', IndexInv, ConfInv, ServedInv, Next PROVE ServedInv'
  <2>1. ASSUME qp' = qp, gsi_qp' = gsi_qp, UNCHANGED <<intVars, errRing>>, task' \subseteq task
        PROVE  ServedInv'
    <3>1. ErrIndices' = ErrIndices /\ int_bits' = int_bits /\ MadWaits' = MadWaits
      BY <2>1, ErrFrame DEF intVars, MadWaits
    <3> QED
      BY <1>2, <2>1, <3>1 DEF ServedInv, BitsServed, ErrorsServed, TasksServed, MadsServed,
         UpAt, Holders, Up, GsiThere
  <2>2. CASE PreReserveQp1
    BY <2>1, <2>2 DEF PreReserveQp1, errVars, errRing
  <2>3. CASE \E q \in QP : Tasklet(q)
    BY <2>1, <2>3 DEF Tasklet, RunComp, RunCnp, RunFatal, tableVars, errVars, errRing
  <2>4. ASSUME NEW q \in QP, GsiTaskletKilled(q) PROVE ServedInv'
    BY <1>2, <2>4, ServedKilled
  <2> QED
    BY <1>2, <2>2, <2>3, <2>4, ServedThreads, ServedHardware, ServedIrq DEF Next
<1>3. ASSUME ServedInv, UNCHANGED vars PROVE ServedInv'
  <2>1. ErrIndices' = ErrIndices /\ int_bits' = int_bits /\ MadWaits' = MadWaits
    BY <1>3, ErrFrame DEF vars, intVars, errVars, errRing, MadWaits
  <2> QED
    BY <1>3, <2>1 DEF ServedInv, BitsServed, ErrorsServed, TasksServed, MadsServed,
       UpAt, Holders, Up, GsiThere, vars, tableVars
<1> QED
  BY <1>1, <1>2, <1>3, QpTypeCorrect, IndexInvariant, ConfInvariant, PTL DEF Spec
-----------------------------------------------------------------------------
(* Recovery from fatal errors.  The discipline is "booted", "quiet" and      *)
(* "settled".                                                                *)

Recovering == {"live", "av", "reset1", "reset2"}

\* A creation ends with an index that nothing is held against: no error of it
\* waits, no tasklet is for it and it is not under recovery.
LEMMA FatalCreate ==
    ASSUME TypeOK, TypeOK', IndexInv, ServedInv, FatalInv, NEW q \in QP, Create(q)
    PROVE  FatalInv'
<1>0. ShapeInv /\ IndexIdentifiesQp /\ ErrorsServed /\ TasksServed
  BY DEF IndexInv, ServedInv
<1>1. /\ QP_CONF' = QP_CONF /\ \A p \in QP \ {q} : qp'[p] = qp[p]
      /\ qp[q].pc \in {"none", "alloc", "build"} /\ qp'[q].pc \in {"alloc", "build", "live", "gone"}
  BY <1>0, CreateIsOnOne
<1>2. ErrIndices' = ErrIndices /\ task' = task
  BY ThreadsLeaveWork, ErrFrame
<1>3. \A i \in Indices : \A p \in QP :
          /\ p \in Holders(i) /\ qp[p].pc \in Recovering => p \in Holders(i)' /\ qp'[p].pc = qp[p].pc
          /\ p \in Holders(i)' /\ qp'[p].pc = "av" => p \in Holders(i) /\ qp[p].pc = "av"
  BY <1>1 DEF Holders, Recovering
<1>4. PICK S \in SUBSET Indices :
          /\ faulty' = faulty \ S /\ stopped' = stopped \ S
          /\ \A i \in S : \A p \in Holders(i) : qp[p].pc = "build"
  <2>1. CASE CreateKernelDone(q) \/ CreateUserDone(q)
    <3>1. /\ qp[q].pc \in Owned /\ faulty' = faulty \ {qp[q].hw_qpn} /\ qp[q].pc = "build"
          /\ stopped' = stopped \ {qp[q].hw_qpn}
      BY <2>1 DEF CreateKernelDone, CreateUserDone, xib_qp_add, Owned
    <3>2. {qp[q].hw_qpn} \in SUBSET Indices
      BY QpFields DEF TypeOK
    <3>3. \A p \in Holders(qp[q].hw_qpn) : p = q
      BY <1>0, <3>1 DEF IndexIdentifiesQp, Holders
    <3> QED
      BY <3>1, <3>2, <3>3
  <2>2. CASE GsiCreate(q)
    <3>1. /\ faulty' = faulty \ {0} /\ stopped' = stopped \ {0} /\ {0} \in SUBSET Indices
      BY <2>2, SizeFacts DEF GsiCreate, xib_qp_add
    <3>2. Holders(0) = {}
      BY <1>0, <2>2 DEF GsiCreate, Holders, ShapeInv, Owned
    <3> QED
      BY <3>1, <3>2
  <2>3. CASE ~CreateKernelDone(q) /\ ~CreateUserDone(q) /\ ~GsiCreate(q)
    <3>1. faulty' = faulty \ {} /\ stopped' = stopped \ {}
      BY <2>3 DEF Create, CreateLoad, CreateNoId, CreateStore, CreateFails, GsiCreateFails, errVars
    <3>2. {} \in SUBSET Indices
      OBVIOUS
    <3> QED
      BY <3>1, <3>2
  <2> QED
    BY <2>1, <2>2, <2>3
<1>5. \A i \in S : ~UpAt(i) /\ ~QP_CONF[i].recovery
  BY <1>4 DEF UpAt, Up, FatalInv
<1>6. FatalStopsOnlyFaulty'
  BY <1>1, <1>4, <1>5 DEF FatalInv, FatalStopsOnlyFaulty, TypeOK
<1>7. \A i \in Indices : QP_CONF'[i].recovery => \E p \in Holders(i)' : qp'[p].pc \in Recovering
  BY <1>1, <1>3 DEF FatalInv, Holders, Recovering
<1>8. \A i \in ErrIndices' : i \in faulty' /\ \A p \in Holders(i)' : qp'[p].pc # "av"
  <2>1. \A i \in ErrIndices : i \in Indices /\ UpAt(i) /\ i \in faulty
    BY <1>0 DEF ErrorsServed, FatalInv
  <2> QED
    BY <1>2, <1>3, <1>4, <1>5, <2>1 DEF FatalInv, Holders
<1>9. ASSUME NEW p \in QP, Up(p) PROVE qp'[p] = qp[p] /\ qp[p].hw_qpn \notin S
  <2>1. p # q /\ UpAt(qp[p].hw_qpn)
    BY <1>1, <1>9 DEF Up, UpAt, Holders, Owned
  <2> QED
    BY <1>1, <1>5, <2>1
<1>10. \A t \in task' : t[2] = "fatal" => qp'[t[1]].hw_qpn \in faulty'
  <2>1. \A t \in task : t[1] \in QP /\ Up(t[1])
    BY <1>0 DEF TypeOK, TasksServed
  <2> QED
    BY <1>2, <1>4, <1>9, <2>1 DEF FatalInv
<1>11. \A p \in QP : qp'[p].pc = "av" => Up(p) /\ qp[p].pc = "av"
  BY <1>1 DEF Up
<1>12. \A p \in QP : qp'[p].pc = "av" =>
          /\ qp'[p].conf.recovery => qp'[p].hw_qpn \in faulty'
          /\ qp'[p].conf.enable => qp'[p].hw_qpn \notin stopped'
  BY <1>4, <1>9, <1>11 DEF FatalInv
<1> QED
  BY <1>6, <1>7, <1>8, <1>10, <1>12 DEF FatalInv, Recovering

\* What the threads of a QP write while it is listed concerns its own index.
LEMMA OwnIndexOnly ==
    ASSUME TypeOK, TypeOK', IndexInv, NEW q \in QP, Modify(q) \/ Destroy(q)
    PROVE  /\ qp[q].pc \in Owned /\ qp'[q].hw_qpn = qp[q].hw_qpn
           /\ \A p \in QP \ {q} : qp'[p] = qp[p]
           /\ \A p \in QP \ {q} : qp[p].pc \in Owned => qp[p].hw_qpn # qp[q].hw_qpn
           /\ \A i \in Indices : i # qp[q].hw_qpn => QP_CONF'[i] = QP_CONF[i]
           /\ faulty' = faulty /\ stopped' \in {stopped, stopped \ {qp[q].hw_qpn}}
           /\ \A i \in Indices : i # qp[q].hw_qpn => Holders(i)' = Holders(i)
<1>0. ShapeInv /\ IndexIdentifiesQp
  BY DEF IndexInv
<1>1. /\ qp[q].pc \in Owned /\ qp'[q].hw_qpn = qp[q].hw_qpn
      /\ \A p \in QP \ {q} : qp'[p] = qp[p]
  <2>1. CASE DestroyDone(q)
    BY <2>1 DEF DestroyDone, Goto, TypeOK, QpRecord, Owned
  <2> QED
    BY <1>0, <2>1, MoveIsMove DEF Destroy
<1>2. \A p \in QP \ {q} : qp[p].pc \in Owned => qp[p].hw_qpn # qp[q].hw_qpn
  BY <1>0, <1>1 DEF IndexIdentifiesQp
<1>3. CASE Modify(q)
  <2>1. /\ \A i \in Indices : i # qp[q].hw_qpn => QP_CONF'[i] = QP_CONF[i]
        /\ faulty' = faulty /\ stopped' \in {stopped, stopped \ {qp[q].hw_qpn}}
    BY <1>3 DEF Modify, ModifyQp, ModifyAvRead, ModifyAvWrite, TypeOK, hwVars, errVars
  <2> QED
    BY <1>1, <1>2, <2>1 DEF Holders
<1>4. CASE Destroy(q)
  <2>1. /\ \A i \in Indices : i # qp[q].hw_qpn => QP_CONF'[i] = QP_CONF[i]
        /\ faulty' = faulty /\ stopped' \in {stopped, stopped \ {qp[q].hw_qpn}}
    BY <1>4 DEF Destroy, DestroyStop, DestroyZero, DestroyEnable, xrnic_qp_disable,
                DestroyFree, DestroyDone, TypeOK, hwVars, errVars
  <2> QED
    BY <1>1, <1>2, <2>1 DEF Holders
<1> QED
  BY <1>3, <1>4

\* The change to RTR writes back what it read, which no error has come between;
\* the reset of a destruction ends the recovery and the stop.
LEMMA FatalOwn ==
    ASSUME TypeOK, TypeOK', IndexInv, ServedInv, FatalInv, "quiet" \in Discipline,
           "settled" \in Discipline, NEW q \in QP, Modify(q) \/ Destroy(q)
    PROVE  FatalInv'
<1>n. PICK n \in Indices : n = qp[q].hw_qpn
  BY QpFields DEF TypeOK
<1> USE <1>n
<1>0. ShapeInv /\ IndexIdentifiesQp /\ ErrorsServed /\ TasksServed
  BY DEF IndexInv, ServedInv
<1>1. /\ qp[q].pc \in Owned /\ qp'[q].hw_qpn = n
      /\ \A p \in QP \ {q} : qp'[p] = qp[p]
      /\ \A p \in QP \ {q} : qp[p].pc \in Owned => qp[p].hw_qpn # n
      /\ \A i \in Indices : i # n => QP_CONF'[i] = QP_CONF[i]
      /\ faulty' = faulty /\ stopped' \in {stopped, stopped \ {n}}
      /\ \A i \in Indices : i # n => Holders(i)' = Holders(i)
  BY OwnIndexOnly
<1>2. ErrIndices' = ErrIndices /\ task' = task
  BY ThreadsLeaveWork, ErrFrame
<1>3. \A p \in Holders(n)' : p = q
  BY <1>1 DEF Holders
<1>4. /\ QP_CONF'[n].recovery => n \in faulty /\ q \in Holders(n)' /\ qp'[q].pc \in Recovering
      /\ n \in stopped' => ~QP_CONF'[n].enable
      /\ qp'[q].pc = "av" => /\ n \notin ErrIndices
                             /\ qp'[q].conf.recovery => n \in faulty
                             /\ qp'[q].conf.enable => n \notin stopped'
  <2>0. /\ QP_CONF \in [Indices -> Conf] /\ qp \in [QP -> QpRecord]
        /\ QP_CONF[n].recovery => n \in faulty /\ qp[q].pc \in Recovering
        /\ n \in stopped => ~QP_CONF[n].enable
        /\ qp[q].pc = "av" => /\ n \notin ErrIndices
                              /\ qp[q].conf.recovery => n \in faulty
                              /\ qp[q].conf.enable => n \notin stopped
    <3>1. \A p \in Holders(n) : p = q
      BY <1>1 DEF Holders
    <3>2. q \in Holders(n)
      BY <1>1 DEF Holders
    <3> QED
      BY <1>0, <3>1, <3>2 DEF FatalInv, FatalStopsOnlyFaulty, TypeOK, Recovering
  <2>1. ASSUME qp'[q].pc \in Owned PROVE q \in Holders(n)'
    BY <1>1, <2>1 DEF Holders
  <2>2. ASSUME NEW new \in States, ModifyQp(q, new)
        PROVE  /\ QP_CONF'[n].recovery => n \in faulty /\ q \in Holders(n)' /\ qp'[q].pc \in Recovering
               /\ n \in stopped' => ~QP_CONF'[n].enable
               /\ qp'[q].pc # "av"
    <3>1. qp'[q].pc = "live" /\ qp[q].pc = "live"
      BY <2>0, <2>2 DEF ModifyQp, QpRecord
    <3>2. \/ QP_CONF' = QP_CONF /\ stopped' = stopped
          \/ QP_CONF'[n] = InitConf(q) /\ stopped' = stopped \ {n}
      BY <1>0, <2>0, <2>2 DEF ModifyQp
    <3> QED
      BY <2>0, <2>1, <3>1, <3>2 DEF InitConf, Recovering, Owned
  <2>3. CASE ModifyAvRead(q)
    <3>1. /\ qp'[q].pc = "av" /\ qp'[q].conf = QP_CONF[n] /\ n \notin ErrIndices
          /\ QP_CONF' = QP_CONF /\ stopped' = stopped
      BY <1>0, <2>0, <2>3 DEF ModifyAvRead, Assumes, QpRecord, hwVars, errVars
    <3> QED
      BY <2>0, <2>1, <3>1 DEF Recovering, Owned
  <2>4. CASE ModifyAvWrite(q)
    <3>1. /\ qp'[q].pc = "live" /\ qp[q].pc = "av" /\ QP_CONF'[n] = qp[q].conf
          /\ stopped' = stopped
      BY <1>0, <2>0, <2>4 DEF ModifyAvWrite, QpRecord, errVars
    <3> QED
      BY <2>0, <2>1, <3>1 DEF Recovering, Owned
  <2>5. CASE DestroyStop(q) \/ DestroyZero(q)
    <3>1. /\ qp'[q].pc \in {"reset1", "reset2"}
          /\ QP_CONF'[n].recovery = QP_CONF[n].recovery
          /\ QP_CONF'[n].enable => QP_CONF[n].enable
          /\ stopped' = stopped
      BY <1>0, <2>0, <2>5 DEF DestroyStop, DestroyZero, Goto, QpRecord, Conf, errVars
    <3> QED
      BY <2>0, <2>1, <3>1 DEF Recovering, Owned
  <2>6. CASE DestroyEnable(q)
    <3>1. /\ qp'[q].pc = "disable" /\ ~QP_CONF'[n].recovery /\ stopped' = stopped \ {n}
      BY <1>0, <2>0, <2>6 DEF DestroyEnable, Goto, QpRecord, Conf
    <3> QED
      BY <3>1
  <2>7. CASE xrnic_qp_disable(q)
    <3>1. /\ qp'[q].pc = "free" /\ QP_CONF'[n] = ConfOff
      BY <1>0, <2>0, <2>7 DEF xrnic_qp_disable, DisabledConf, Goto, QpRecord, Conf
    <3> QED
      BY <3>1 DEF ConfOff
  <2>8. CASE DestroyFree(q) \/ DestroyDone(q)
    <3>1. /\ qp'[q].pc \in {"unlist", "kill", "gone"} /\ qp[q].pc \in {"free", "unlist"}
          /\ QP_CONF' = QP_CONF /\ stopped' = stopped
      BY <2>0, <2>8 DEF DestroyFree, DestroyDone, Goto, QpRecord, hwVars, errVars
    <3> QED
      BY <2>0, <3>1 DEF Recovering
  <2> QED
    BY <2>2, <2>3, <2>4, <2>5, <2>6, <2>7, <2>8 DEF Modify, Destroy
<1>5. FatalStopsOnlyFaulty'
  <2>1. \A i \in Indices : QP_CONF'[i].recovery => i \in faulty'
    BY <1>1, <1>4 DEF FatalInv, FatalStopsOnlyFaulty
  <2>2. \A i \in stopped' : ~QP_CONF'[i].enable
    BY <1>1, <1>4 DEF FatalInv, FatalStopsOnlyFaulty, TypeOK
  <2> QED
    BY <2>1, <2>2 DEF FatalStopsOnlyFaulty
<1>6. \A i \in Indices : QP_CONF'[i].recovery => \E p \in Holders(i)' : qp'[p].pc \in Recovering
  <2>1. ASSUME NEW i \in Indices, i # n, QP_CONF'[i].recovery
        PROVE  \E p \in Holders(i)' : qp'[p].pc \in Recovering
    <3>1. PICK p \in Holders(i) : qp[p].pc \in Recovering
      BY <1>1, <2>1 DEF FatalInv, Recovering
    <3>2. p # q /\ p \in QP
      BY <2>1 DEF Holders
    <3> QED
      BY <1>1, <2>1, <3>1, <3>2
  <2> QED
    BY <1>4, <2>1
<1>7. \A i \in ErrIndices' : i \in faulty' /\ \A p \in Holders(i)' : qp'[p].pc # "av"
  <2>1. ASSUME NEW i \in ErrIndices, NEW p \in Holders(i)' PROVE qp'[p].pc # "av"
    <3>1. CASE i = n
      BY <1>3, <1>4, <3>1
    <3>2. CASE i # n
      <4>1. i \in Indices /\ p \in Holders(i) /\ p # q /\ p \in QP
        BY <1>0, <1>1, <3>2 DEF ErrorsServed, Holders
      <4> QED
        BY <1>1, <4>1 DEF FatalInv
    <3> QED
      BY <3>1, <3>2
  <2> QED
    BY <1>1, <1>2, <2>1 DEF FatalInv
<1>8. \A t \in task' : t[2] = "fatal" => qp'[t[1]].hw_qpn \in faulty'
  <2>1. \A p \in QP : qp'[p].hw_qpn = qp[p].hw_qpn
    BY <1>1
  <2>2. \A t \in task : t[1] \in QP
    BY DEF TypeOK
  <2> QED
    BY <1>1, <1>2, <2>1, <2>2 DEF FatalInv
<1>9. \A p \in QP : qp'[p].pc = "av" =>
          /\ qp'[p].conf.recovery => qp'[p].hw_qpn \in faulty'
          /\ qp'[p].conf.enable => qp'[p].hw_qpn \notin stopped'
  BY <1>1, <1>4 DEF FatalInv
<1> QED
  BY <1>5, <1>6, <1>7, <1>8, <1>9 DEF FatalInv, Recovering

\* The hardware reports an error of a QP whose address vector is not being
\* written.
LEMMA FatalHardware ==
    ASSUME TypeOK, FatalInv, "settled" \in Discipline, Hardware
    PROVE  FatalInv'
<1>0. qp' = qp /\ QP_CONF' = QP_CONF /\ task' = task /\ stopped' = stopped
  BY DEF Hardware, HwEvent, HwMad, HwFatal, errVars
<1>1. \A i : Holders(i)' = Holders(i)
  BY <1>0 DEF Holders
<1>2. CASE ~\E i \in Indices : HwFatal(i)
  <2>1. ErrIndices' = ErrIndices /\ faulty' = faulty
    BY <1>2, ErrFrame DEF Hardware, HwEvent, HwMad, errVars, errRing
  <2> QED
    BY <1>0, <1>1, <2>1 DEF FatalInv, FatalStopsOnlyFaulty
<1>3. ASSUME NEW i \in Indices, HwFatal(i) PROVE FatalInv'
  <2>1. /\ ErrIndices' \subseteq ErrIndices \cup {i} /\ faulty' = faulty \cup {i}
        /\ \A q \in Holders(i) : qp[q].pc # "av"
    BY <1>3, ErrAdded DEF HwFatal, Assumes
  <2> QED
    BY <1>0, <1>1, <2>1 DEF FatalInv, FatalStopsOnlyFaulty
<1> QED
  BY <1>2, <1>3

\* xib_fatal_event stops the QPs of the errors it takes from the ring, which
\* are those the hardware reported.
LEMMA FatalIrq ==
    ASSUME TypeOK, IndexInv, ServedInv, FatalInv, Irq
    PROVE  FatalInv'
<1>0. qp' = qp /\ (\A i : Holders(i)' = Holders(i))
  BY OthersLeaveQps DEF Holders
<1>c. \A c \in Conf : StopConf(c).enable = FALSE
  BY DEF StopConf, Conf
<1>1. CASE IrqFatal
  <2>1. /\ ErrIndices' = {} /\ faulty' = faulty /\ stopped' = stopped \cup ErrIndices
        /\ ErrIndices \subseteq Indices /\ QP_CONF \in [Indices -> Conf]
        /\ \A i \in Indices : QP_CONF'[i] = IF i \in ErrIndices THEN StopConf(QP_CONF[i])
                                                                ELSE QP_CONF[i]
        /\ \A i \in ErrIndices : UpAt(i)
    BY <1>1, ErrTaken DEF IrqFatal, ServedInv, ErrorsServed, TypeOK
  <2>2. FatalStopsOnlyFaulty'
    BY <1>c, <2>1 DEF FatalInv, FatalStopsOnlyFaulty, TypeOK
  <2>3. \A i \in Indices : QP_CONF'[i].recovery => \E p \in Holders(i)' : qp'[p].pc \in Recovering
    BY <1>0, <2>1 DEF FatalInv, UpAt, Up, Recovering
  <2>4. \A t \in task' : t[2] = "fatal" => qp'[t[1]].hw_qpn \in faulty'
    <3>1. task' = task \cup {<<q, "fatal">> : q \in {qp_list[i] : i \in ErrIndices \cap Indices} \ {NULL}}
      BY <1>1 DEF IrqFatal
    <3>2. \A i \in ErrIndices : qp[qp_list[i]].hw_qpn = i
      BY <2>1, ListedIsUp
    <3> QED
      BY <1>0, <2>1, <3>1, <3>2 DEF FatalInv
  <2>5. \A p \in QP : qp[p].pc = "av" => qp[p].hw_qpn \notin ErrIndices
    BY DEF FatalInv, Holders, Owned
  <2> QED
    BY <1>0, <2>1, <2>2, <2>3, <2>4, <2>5 DEF FatalInv, Recovering
<1>2. CASE ~IrqFatal
  <2>1. /\ QP_CONF' = QP_CONF /\ UNCHANGED errVars
        /\ \A t \in task' : t[2] = "fatal" => t \in task
    <3>1. QP_CONF' = QP_CONF /\ UNCHANGED errVars
      BY <1>2 DEF Irq, IrqEntry, IrqEvent, IrqMad, IrqClear, hwVars
    <3>2. \A k, L : \A t \in TasksFor(k, L) : t[2] # "fatal"
      BY DEF TasksFor
    <3>3. ASSUME NEW k \in Kinds, IrqEvent(k) PROVE \A t \in task' : t[2] = "fatal" => t \in task
      <4>1. PICK L : task' = task \cup TasksFor(k, L)
        BY <3>3 DEF IrqEvent
      <4> QED
        BY <3>2, <4>1
    <3>4. CASE ~\E k \in Kinds : IrqEvent(k)
      <4>1. task' = task \/ task' = task \cup {<<gsi_qp, "comp">>}
        BY <1>2, <3>4 DEF Irq, IrqEntry, IrqMad, IrqClear
      <4> QED
        BY <3>1, <4>1
    <3> QED
      BY <3>1, <3>3, <3>4
  <2>2. ErrIndices' = ErrIndices /\ faulty' = faulty /\ stopped' = stopped
    BY <2>1, ErrFrame DEF errVars, errRing
  <2> QED
    BY <1>0, <2>1, <2>2 DEF FatalInv, FatalStopsOnlyFaulty
<1> QED
  BY <1>1, <1>2

\* The handler of a fatal error puts its own QP under recovery.
LEMMA FatalTasklet ==
    ASSUME TypeOK, ServedInv, FatalInv, NEW q \in QP, Tasklet(q)
    PROVE  FatalInv'
<1>0. qp' = qp /\ (\A i : Holders(i)' = Holders(i)) /\ task' \subseteq task
  BY OthersLeaveQps DEF Holders, Tasklet, RunComp, RunCnp, RunFatal
<1>1. ErrIndices' = ErrIndices /\ faulty' = faulty /\ stopped' = stopped
  BY ErrFrame DEF Tasklet, RunComp, RunCnp, RunFatal, errVars, errRing
<1>2. CASE RunFatal(q)
  <2>1. /\ QP_CONF' = [QP_CONF EXCEPT ![qp[q].hw_qpn] = StopConf(@)]
        /\ qp[q].hw_qpn \in faulty /\ Up(q) /\ qp[q].hw_qpn \in Indices
    BY <1>2, QpFields DEF RunFatal, FatalInv, ServedInv, TasksServed, TypeOK
  <2>2. \A c \in Conf : StopConf(c).enable = FALSE
    BY DEF StopConf, Conf
  <2>3. FatalStopsOnlyFaulty'
    BY <1>1, <2>1, <2>2 DEF FatalInv, FatalStopsOnlyFaulty, TypeOK
  <2>4. q \in Holders(qp[q].hw_qpn) /\ qp[q].pc \in Recovering
    BY <2>1 DEF Up, Holders, Owned, Recovering
  <2>5. \A i \in Indices : QP_CONF'[i].recovery => \E p \in Holders(i)' : qp'[p].pc \in Recovering
    BY <1>0, <2>1, <2>4 DEF FatalInv, TypeOK, Recovering
  <2> QED
    BY <1>0, <1>1, <2>3, <2>5 DEF FatalInv, Recovering
<1>3. CASE ~RunFatal(q)
  <2>1. QP_CONF' = QP_CONF
    BY <1>3 DEF Tasklet, RunComp, RunCnp, hwVars
  <2> QED
    BY <1>0, <1>1, <2>1 DEF FatalInv, FatalStopsOnlyFaulty
<1> QED
  BY <1>2, <1>3

\* xib_fatal_event and xib_fatal_handler stop the QPs the hardware complained
\* about and no other, and what they stopped stays disabled until it is
\* initialised or reset, wherever the pointers of the error ring are: as long as
\* no error is served while QP_CONF is read and written back for RTR.
THEOREM QpFatalStopsOnlyFaulty ==
    {"booted", "quiet", "settled"} \subseteq Discipline => (Spec => []FatalStopsOnlyFaulty)
<1> SUFFICES ASSUME "booted" \in Discipline, "quiet" \in Discipline, "settled" \in Discipline
             PROVE  Spec => []FatalStopsOnlyFaulty
  OBVIOUS
<1>0. {"booted", "quiet"} \subseteq Discipline
  OBVIOUS
<1>1. Init => FatalInv
  <2> SUFFICES ASSUME Init PROVE FatalInv
    OBVIOUS
  <2>1. ErrIndices = {}
    BY QpLifeAssumption DEF Init, ErrReceived, ErrIndices
  <2> QED
    BY <2>1 DEF Init, FatalInv, FatalStopsOnlyFaulty, ConfOff, NoQp
<1>2. ASSUME TypeOK, TypeOK', IndexInv, ServedInv, FatalInv, Next PROVE FatalInv'
  <2>1. CASE PreReserveQp1
    <3>1. ErrIndices' = ErrIndices
      BY <2>1, ErrFrame DEF PreReserveQp1, errVars, errRing
    <3> QED
      BY <1>2, <2>1, <3>1 DEF PreReserveQp1, FatalInv, FatalStopsOnlyFaulty, Holders, hwVars, errVars
  <2>2. ASSUME NEW q \in QP, GsiTaskletKilled(q) PROVE FatalInv'
    <3>1. /\ \A p \in QP : qp'[p] = qp[p] \/ (p = q /\ qp'[p].pc = "gone" /\ qp'[p].hw_qpn = qp[p].hw_qpn)
          /\ qp[q].pc = "kill" /\ QP_CONF' = QP_CONF /\ faulty' = faulty /\ stopped' = stopped
          /\ task' = task /\ \A i \in Indices : Holders(i)' = Holders(i)
      BY <1>2, <2>2, KilledFrame DEF TypeOK, hwVars, errVars
    <3>2. ErrIndices' = ErrIndices
      BY <1>2, <2>2, KilledFrame, ErrFrame DEF TypeOK, errVars, errRing
    <3>3. /\ \A i \in Indices : Holders(i) \subseteq QP
          /\ task \subseteq QP \X {"comp", "cnp", "fatal"} /\ ErrIndices \subseteq Indices
      BY <1>2 DEF Holders, TypeOK, ServedInv, ErrorsServed
    <3> QED
      BY <1>2, <3>1, <3>2, <3>3 DEF FatalInv, FatalStopsOnlyFaulty
  <2> QED
    BY <1>2, <2>1, <2>2, FatalCreate, FatalOwn, FatalHardware, FatalIrq, FatalTasklet DEF Next
<1>3. ASSUME FatalInv, UNCHANGED vars PROVE FatalInv'
  <2>1. ErrIndices' = ErrIndices
    BY <1>3, ErrFrame DEF vars, errVars, errRing
  <2> QED
    BY <1>3, <2>1 DEF vars, FatalInv, FatalStopsOnlyFaulty, Holders, hwVars, errVars
<1>4. FatalInv => FatalStopsOnlyFaulty
  BY DEF FatalInv
<1> QED
  BY <1>0, <1>1, <1>2, <1>3, <1>4, QpTypeCorrect, IndexInvariant, ServedInvariant, PTL DEF Spec
-----------------------------------------------------------------------------
(* Nothing crashes.  The discipline is "booted", "quiet", "gsi" and "rc". *)

\* Following pointers to QPs that are up is safe.
LEMMA FollowUp ==
    ASSUME NEW S \in SUBSET QP, \A q \in S : Up(q)
    PROVE  FollowAll(S) = "no"
BY QpLifeAssumption DEF FollowAll, Up

\* The GSI QP, while it is up, has buffers and can be followed.
LEMMA GsiSafe ==
    ASSUME IndexInv, GsiThere
    PROVE  /\ gsi_qp \in QP /\ Up(gsi_qp) /\ qp[gsi_qp].bufs /\ gsi_qp # NULL
<1>1. gsi_qp \in QP /\ Up(gsi_qp) /\ gsi_qp # NULL
  BY QpLifeAssumption DEF GsiThere
<1> QED
  BY <1>1 DEF IndexInv, ShapeInv, Up, Owned

\* The GSI QP comes before the other QPs and goes after them.
LEMMA GsiThreads ==
    ASSUME TypeOK, TypeOK', IndexInv, ServedInv, GsiInv, NEW q \in QP,
           "gsi" \in Discipline, "no_buf" \notin Failures,
           Create(q) \/ Modify(q) \/ Destroy(q)
    PROVE  GsiInv'
<1>0. /\ ShapeInv /\ MadsServed /\ GsiQPs \subseteq QP /\ NULL \notin QP
      /\ \A t \in task : t[1] \in QP
  BY QpLifeAssumption DEF IndexInv, ServedInv, TypeOK
<1>1. ErrIndices' = ErrIndices /\ task' = task
  BY ThreadsLeaveWork, ErrFrame
<1>2. ASSUME gsi_qp' \in GsiQPs \cup {NULL}, crash' = crash,
             \A p \in QP \ GsiQPs : qp'[p].pc \notin {"none", "gone"} => GsiThere'
      PROVE  GsiInv'
  BY <1>1, <1>2 DEF GsiInv
<1>3. CASE Create(q)
  <2>1. /\ crash' = crash /\ \A p \in QP \ {q} : qp'[p] = qp[p]
        /\ qp[q].pc \in {"none", "alloc", "build"}
    <3>1. crash' = crash
      BY <1>3 DEF Create, CreateLoad, CreateNoId, CreateStore, CreateKernelDone,
                  CreateUserDone, CreateFails, GsiCreateFails, GsiCreate, xib_qp_add
    <3> QED
      BY <1>0, <1>3, <3>1, CreateIsOnOne
  <2>2. CASE q \in GsiQPs
    <3>1. GsiCreate(q) \/ \E why \in Failures : GsiCreateFails(q, why)
      BY <1>0, <1>3, <2>2 DEF Create, CreateLoad, CreateNoId, CreateStore, CreateKernelDone,
             CreateUserDone, CreateFails, ShapeInv
    <3>2. /\ qp[q].pc = "none" /\ \A p \in GsiQPs \ {q} : qp[p].pc \in {"none", "gone"}
          /\ gsi_qp' \in {q, gsi_qp}
      BY <3>1 DEF GsiCreate, GsiCreateFails
    <3>3. ~GsiThere
      BY <3>2 DEF GsiThere, Up
    <3> QED
      BY <1>2, <2>1, <2>2, <3>2, <3>3 DEF GsiInv
  <2>3. CASE q \notin GsiQPs
    <3>1. gsi_qp' = gsi_qp
      BY <1>0, <1>3, <2>3 DEF Create, CreateLoad, CreateNoId, CreateStore, CreateKernelDone,
           CreateUserDone, CreateFails, GsiCreateFails, GsiCreate, tableVars
    <3>2. GsiThere => GsiThere'
      BY <1>0, <2>1, <2>3, <3>1 DEF GsiThere, Up
    <3>3. CASE qp[q].pc # "none"
      BY <1>2, <2>1, <2>3, <3>1, <3>2, <3>3 DEF GsiInv
    <3>4. CASE qp[q].pc = "none"
      <4>1. CreateLoad(q) \/ CreateNoId(q)
        BY <1>3, <2>3, <3>4 DEF Create, CreateStore, CreateKernelDone,
           CreateUserDone, CreateFails, GsiCreateFails, GsiCreate
      <4>2. CASE CreateLoad(q)
        <5>1. GsiThere
          BY <4>2 DEF CreateLoad, Assumes, GsiUp, GsiThere, Up, GsiInv
        <5> QED
          BY <1>2, <2>1, <3>1, <3>2, <5>1 DEF GsiInv
      <4>3. CASE CreateNoId(q)
        <5>1. qp'[q].pc = "gone"
          BY <4>3 DEF CreateNoId, TypeOK, QpRecord
        <5> QED
          BY <1>2, <2>1, <2>3, <3>1, <3>2, <5>1 DEF GsiInv
      <4> QED
        BY <4>1, <4>2, <4>3
    <3> QED
      BY <3>3, <3>4
  <2> QED
    BY <2>2, <2>3
<1>4. CASE Modify(q)
  <2>1. /\ \A p \in QP \ {q} : qp'[p] = qp[p]
        /\ qp[q].pc \in Owned /\ UNCHANGED tableVars
    BY <1>0, <1>4, MoveIsMove
  <2>2. qp'[q].pc \in {"live", "av"} /\ crash' = crash
    BY <1>4 DEF Modify, ModifyQp, ModifyAvRead, ModifyAvWrite, TypeOK, QpRecord
  <2>3. gsi_qp' = gsi_qp
    BY <2>1 DEF tableVars
  <2>4. GsiThere => GsiThere'
    BY <1>0, <2>1, <2>2, <2>3 DEF GsiThere, Up
  <2>5. qp[q].pc \notin {"none", "gone"}
    BY <2>1 DEF Owned
  <2> QED
    BY <1>2, <2>1, <2>2, <2>3, <2>4, <2>5 DEF GsiInv
<1>5. CASE Destroy(q)
  <2>1. qp[q].pc \in Owned /\ \A p \in QP \ {q} : qp'[p] = qp[p]
    BY <1>5, OwnIndexOnly
  <2>2. crash' = crash /\ qp[q].pc \notin {"none", "gone"}
    BY <1>5, <2>1 DEF Destroy, DestroyStop, DestroyZero, DestroyEnable, xrnic_qp_disable,
                DestroyFree, DestroyDone, Owned
  <2>3. CASE q \in GsiQPs
    <3>1. gsi_qp = q /\ qp[q].type = "GSI"
      BY <1>0, <2>1, <2>3 DEF MadsServed, ShapeInv
    <3>2. gsi_qp' \in {q, NULL}
      BY <1>5, <3>1 DEF Destroy, DestroyStop, DestroyZero, DestroyEnable, xrnic_qp_disable,
                DestroyFree, DestroyDone, tableVars
    <3>3. \A p \in QP \ GsiQPs : qp[p].pc \in {"none", "gone"}
      <4>1. CASE DestroyStop(q)
        BY <1>0, <3>1, <4>1 DEF DestroyStop, Assumes, ShapeInv
      <4>2. CASE ~DestroyStop(q)
        <5>1. ~Up(q)
          BY <1>5, <4>2 DEF Destroy, DestroyZero, DestroyEnable, xrnic_qp_disable,
                DestroyFree, DestroyDone, Up
        <5> QED
          BY <3>1, <5>1 DEF GsiInv, GsiThere
      <4> QED
        BY <4>1, <4>2
    <3> QED
      BY <1>2, <2>1, <2>2, <2>3, <3>2, <3>3
  <2>4. CASE q \notin GsiQPs
    <3>1. gsi_qp' = gsi_qp
      BY <1>0, <1>5, <2>4 DEF Destroy, DestroyStop, DestroyZero, DestroyEnable,
                xrnic_qp_disable, DestroyFree, DestroyDone, tableVars, ShapeInv
    <3>2. GsiThere => GsiThere'
      BY <1>0, <2>1, <2>4, <3>1 DEF GsiThere, Up
    <3> QED
      BY <1>2, <2>1, <2>2, <2>4, <3>1, <3>2 DEF GsiInv
  <2> QED
    BY <2>3, <2>4
<1> QED
  BY <1>3, <1>4, <1>5

\* xib_irq follows pointers to QPs that are up.
LEMMA GsiIrq ==
    ASSUME TypeOK, IndexInv, ServedInv, GsiInv, Irq
    PROVE  GsiInv'
<1>0. /\ qp' = qp /\ gsi_qp' = gsi_qp /\ (GsiThere' <=> GsiThere) /\ NULL \notin QP
      /\ BitsServed /\ ErrorsServed /\ MadsServed
  BY OthersLeaveQps, QpLifeAssumption DEF tableVars, GsiThere, Up, ServedInv
<1>1. ASSUME crash' = "no", 0 \notin ErrIndices',
             \A t \in task' : t[2] = "fatal" => t \in task \/ t[1] \notin GsiQPs
      PROVE  GsiInv'
  BY <1>0, <1>1 DEF GsiInv
<1>2. CASE IrqEntry \/ IrqClear
  <2>1. crash' = crash /\ task' = task /\ UNCHANGED errVars
    BY <1>2 DEF IrqEntry, IrqClear
  <2>2. ErrIndices' = ErrIndices
    BY <2>1, ErrFrame DEF errVars, errRing
  <2> QED
    BY <1>1, <2>1, <2>2 DEF GsiInv
<1>3. ASSUME NEW k \in Kinds, IrqEvent(k) PROVE GsiInv'
  <2> DEFINE listed == {ListedFor(b) : b \in int_bits[k]}
  <2>1. listed \in SUBSET QP /\ \A q \in listed : Up(q)
    BY <1>0, ListedForIsUp
  <2>2. crash' = FollowAll(listed) /\ task' = task \cup TasksFor(k, listed \ {NULL}) /\ UNCHANGED errVars
    BY <1>3 DEF IrqEvent
  <2> HIDE DEF listed
  <2>3. crash' = "no"
    BY <2>1, <2>2, FollowUp
  <2>4. ErrIndices' = ErrIndices
    BY <2>2, ErrFrame DEF errVars, errRing
  <2>5. \A t \in TasksFor(k, listed \ {NULL}) : t[2] # "fatal"
    BY DEF TasksFor
  <2> QED
    BY <1>1, <2>2, <2>3, <2>4, <2>5 DEF GsiInv
<1>4. CASE IrqMad
  <2>1. irq # << >> /\ Head(irq) = "mad" /\ Head(irq) = irq[1] /\ Len(irq) \in Nat
    BY <1>4, IrqTail DEF IrqMad
  <2>2. 1 \in 1 .. Len(irq)
    BY <2>1 DEF TypeOK
  <2>3. GsiThere
    BY <1>0, <2>1, <2>2 DEF MadsServed, MadWaits
  <2>4. {gsi_qp} \in SUBSET QP /\ \A q \in {gsi_qp} : Up(q)
    BY <2>3, GsiSafe
  <2>5. crash' = "no"
    BY <1>4, <2>4, FollowUp DEF IrqMad
  <2>6. UNCHANGED errVars /\ (task' = task \/ task' = task \cup {<<gsi_qp, "comp">>})
    BY <1>4 DEF IrqMad
  <2>7. ErrIndices' = ErrIndices
    BY <2>6, ErrFrame DEF errVars, errRing
  <2> QED
    BY <1>1, <2>5, <2>6, <2>7 DEF GsiInv
<1>5. CASE IrqFatal
  <2> DEFINE listed == {qp_list[i] : i \in ErrIndices \cap Indices} \ {NULL}
  <2>1. \A q \in listed : q \in QP /\ Up(q) /\ q \notin GsiQPs
    <3>1. \A i \in ErrIndices : qp_list[i] \in QP /\ Up(qp_list[i]) /\ qp[qp_list[i]].hw_qpn # 0
      BY <1>0, ListedIsUp DEF ErrorsServed, GsiInv
    <3> QED
      BY <3>1 DEF IndexInv, ShapeInv
  <2>2. crash' = FollowAll(listed) /\ task' = task \cup {<<q, "fatal">> : q \in listed}
    BY <1>5 DEF IrqFatal
  <2>3. ErrIndices' = {}
    BY <1>5, ErrTaken DEF IrqFatal
  <2> HIDE DEF listed
  <2>4. crash' = "no"
    BY <2>1, <2>2, FollowUp, listed \in SUBSET QP
  <2> QED
    BY <1>1, <2>1, <2>2, <2>3, <2>4
<1> QED
  BY <1>2, <1>3, <1>4, <1>5 DEF Irq

\* The tasklets find their QP, and the GSI QP if they go through it.
LEMMA GsiTasklet ==
    ASSUME TypeOK, IndexInv, ServedInv, GsiInv, NEW q \in QP, Tasklet(q)
    PROVE  GsiInv'
<1>0. /\ qp' = qp /\ gsi_qp' = gsi_qp /\ (GsiThere' <=> GsiThere) /\ task' \subseteq task
      /\ MadsServed /\ ShapeInv
  BY OthersLeaveQps DEF tableVars, GsiThere, Up, ServedInv, IndexInv, Tasklet, RunComp, RunCnp, RunFatal
<1>1. Up(q) /\ {q} \in SUBSET QP
  BY DEF Tasklet, RunComp, RunCnp, RunFatal, ServedInv, TasksServed
<1>2. GsiThere
  <2>1. CASE q \in GsiQPs
    BY <1>0, <1>1, <2>1 DEF GsiThere, MadsServed, Up, Owned
  <2>2. CASE q \notin GsiQPs
    BY <1>1, <2>2 DEF GsiInv, Up
  <2> QED
    BY <2>1, <2>2
<1>3. gsi_qp \in QP /\ Up(gsi_qp) /\ qp[gsi_qp].bufs
  BY <1>2, GsiSafe
<1>4. FollowAll({q}) = "no" /\ FollowAll({gsi_qp}) = "no" /\ FollowAll({q, gsi_qp}) = "no"
  BY <1>1, <1>3, FollowUp, {gsi_qp} \in SUBSET QP, {q, gsi_qp} \in SUBSET QP
<1>5. crash' = "no"
  <2>1. CASE RunComp(q)
    BY <1>3, <1>4, <2>1 DEF RunComp
  <2>2. CASE RunCnp(q)
    BY <1>3, <1>4, <2>2 DEF RunCnp
  <2>3. CASE RunFatal(q)
    <3>1. q \notin GsiQPs
      BY <2>3 DEF RunFatal, GsiInv
    <3> QED
      BY <1>0, <1>4, <2>3, <3>1 DEF RunFatal, ShapeInv
  <2> QED
    BY <2>1, <2>2, <2>3 DEF Tasklet
<1>6. ErrIndices' = ErrIndices
  BY ErrFrame DEF Tasklet, RunComp, RunCnp, RunFatal, errVars, errRing
<1> QED
  BY <1>0, <1>5, <1>6 DEF GsiInv

\* The interrupt handler and the tasklets never meet a NULL or freed QP, a GSI
\* QP that is being taken down or a tasklet that was never initialised, for any
\* number of QPs; a creation that runs out of buffers, which frees its QP twice,
\* is left out.
THEOREM QpNoCrash ==
    {"booted", "quiet", "gsi", "rc"} \subseteq Discipline /\ "no_buf" \notin Failures
        => (Spec => []NoCrash)
<1> SUFFICES ASSUME "booted" \in Discipline, "quiet" \in Discipline, "gsi" \in Discipline,
                    "rc" \in Discipline, "no_buf" \notin Failures
             PROVE  Spec => []NoCrash
  OBVIOUS
<1>0. {"booted", "quiet"} \subseteq Discipline
  OBVIOUS
<1>1. Init => GsiInv
  <2> SUFFICES ASSUME Init PROVE GsiInv
    OBVIOUS
  <2>1. ErrIndices = {}
    BY QpLifeAssumption DEF Init, ErrReceived, ErrIndices
  <2> QED
    BY <2>1 DEF Init, GsiInv, NoQp
<1>2. ASSUME TypeOK, TypeOK', IndexInv, ServedInv, GsiInv, Next PROVE GsiInv'
  <2>1. CASE PreReserveQp1
    <3>1. ErrIndices' = ErrIndices
      BY <2>1, ErrFrame DEF PreReserveQp1, errVars, errRing
    <3> QED
      BY <1>2, <2>1, <3>1 DEF PreReserveQp1, GsiInv, GsiThere, Up
  <2>2. CASE Hardware
    <3>1. qp' = qp /\ gsi_qp' = gsi_qp /\ task' = task /\ crash' = crash
      BY <2>2 DEF Hardware, HwEvent, HwMad, HwFatal, tableVars
    <3>2. 0 \notin ErrIndices'
      <4>1. CASE ~\E i \in Indices : HwFatal(i)
        <5>1. ErrIndices' = ErrIndices
          BY <2>2, <4>1, ErrFrame DEF Hardware, HwEvent, HwMad, errVars, errRing
        <5> QED
          BY <1>2, <5>1 DEF GsiInv
      <4>2. ASSUME NEW i \in Indices, HwFatal(i) PROVE 0 \notin ErrIndices'
        BY <1>2, <4>2, ErrAdded DEF HwFatal, Assumes, GsiInv
      <4> QED
        BY <4>1, <4>2
    <3> QED
      BY <1>2, <3>1, <3>2 DEF GsiInv, GsiThere, Up
  <2>3. ASSUME NEW q \in QP, GsiTaskletKilled(q) PROVE GsiInv'
    <3>1. /\ \A p \in QP : qp'[p] = qp[p] \/ (p = q /\ qp'[p].pc = "gone")
          /\ gsi_qp' = gsi_qp /\ crash' = crash /\ task' = task
          /\ \A p \in QP : Up(p)' = Up(p)
      BY <1>2, <2>3, KilledFrame DEF TypeOK, tableVars
    <3>2. ErrIndices' = ErrIndices
      BY <1>2, <2>3, KilledFrame, ErrFrame DEF TypeOK, errVars, errRing
    <3>3. GsiThere => GsiThere'
      BY <3>1, QpLifeAssumption DEF GsiThere
    <3> QED
      BY <1>2, <3>1, <3>2, <3>3 DEF GsiInv
  <2> QED
    BY <1>2, <2>1, <2>2, <2>3, GsiThreads, GsiIrq, GsiTasklet DEF Next
<1>3. ASSUME GsiInv, UNCHANGED vars PROVE GsiInv'
  <2>1. ErrIndices' = ErrIndices
    BY <1>3, ErrFrame DEF vars, errVars, errRing
  <2> QED
    BY <1>3, <2>1 DEF vars, GsiInv, GsiThere, Up, tableVars
<1>4. GsiInv /\ TypeOK => NoCrash
  BY DEF GsiInv, NoCrash
<1> QED
  BY <1>0, <1>1, <1>2, <1>3, <1>4, QpTypeCorrect, IndexInvariant, ServedInvariant, PTL DEF Spec
-----------------------------------------------------------------------------
(* The ring pointers.  The discipline is "booted", "quiet" and "serial". *)

\* A creation is about a QP that has not moved a pointer, and touches none.
LEMMA MovedCreate ==
    ASSUME TypeOK, IndexInv, MovedInv, NEW q \in QP, Create(q)
    PROVE  MovedInv'
<1>1. /\ \A p \in QP \ {q} : qp'[p] = qp[p]
      /\ qp[q].pc \in {"none", "alloc", "build"} /\ qp'[q].pc \in {"alloc", "build", "live", "gone"}
  BY CreateIsOnOne DEF IndexInv
<1>2. moved' = moved /\ sw_override' = sw_override
  BY DEF Create, CreateLoad, CreateNoId, CreateStore, CreateKernelDone,
         CreateUserDone, CreateFails, GsiCreateFails, GsiCreate, xib_qp_add, hwVars
<1> QED
  BY <1>1, <1>2 DEF MovedInv, Holders, Dying

\* The destruction of a QP resets its pointers while the override is on: the
\* only one that could turn it off is the QP itself.
LEMMA MovedOwn ==
    ASSUME TypeOK, TypeOK', IndexInv, MovedInv, "serial" \in Discipline,
           NEW q \in QP, Modify(q) \/ Destroy(q)
    PROVE  MovedInv'
<1>n. PICK n \in Indices : n = qp[q].hw_qpn
  BY QpFields DEF TypeOK
<1>0. /\ qp[q].pc \in Owned /\ qp'[q].hw_qpn = n
      /\ \A p \in QP \ {q} : qp'[p] = qp[p]
      /\ \A p \in QP \ {q} : qp[p].pc \in Owned => qp[p].hw_qpn # n
      /\ \A i \in Indices : i # n => Holders(i)' = Holders(i)
  BY <1>n, OwnIndexOnly
<1>1. moved \in SUBSET Indices /\ qp \in [QP -> QpRecord]
  BY DEF TypeOK
<1>2. \A i \in moved \ {n} : \E p \in Holders(i)' : qp'[p].pc \in {"live", "av", "reset1"}
  <2> SUFFICES ASSUME NEW i \in moved \ {n}
               PROVE  \E p \in Holders(i)' : qp'[p].pc \in {"live", "av", "reset1"}
    OBVIOUS
  <2>1. PICK p \in Holders(i) : qp[p].pc \in {"live", "av", "reset1"}
    BY DEF MovedInv
  <2>2. p \in QP \ {q}
    BY <1>n, <2>1 DEF Holders
  <2> QED
    BY <1>0, <1>1, <2>1, <2>2
<1>3. n \in moved => qp[q].pc \in {"live", "av", "reset1"}
  BY <1>0 DEF MovedInv, Holders
<1>4. ASSUME qp'[q].pc \in Owned PROVE q \in Holders(n)'
  BY <1>0, <1>4 DEF Holders
<1>5. CASE Modify(q)
  <2>1. /\ qp'[q].pc \in {"live", "av"} /\ moved' = moved /\ sw_override' = sw_override
    BY <1>1, <1>5 DEF Modify, ModifyQp, ModifyAvRead, ModifyAvWrite, QpRecord, hwVars
  <2>2. q \in Holders(n)'
    BY <1>4, <2>1 DEF Owned
  <2>3. \A i \in moved' : \E p \in Holders(i)' : qp'[p].pc \in {"live", "av", "reset1"}
    BY <1>2, <2>1, <2>2
  <2> QED
    BY <1>0, <2>1, <2>3 DEF MovedInv, Dying
<1>6. CASE DestroyStop(q)
  <2>1. /\ qp'[q].pc = "reset1" /\ moved' = moved /\ sw_override'
        /\ \A p \in QP : qp[p].pc \notin Dying
    BY <1>1, <1>6 DEF DestroyStop, Goto, Assumes, QpRecord
  <2>2. q \in Holders(n)'
    BY <1>4, <2>1 DEF Owned
  <2>3. \A i \in moved' : \E p \in Holders(i)' : qp'[p].pc \in {"live", "av", "reset1"}
    BY <1>2, <2>1, <2>2
  <2> QED
    BY <1>0, <2>1, <2>3 DEF MovedInv, Dying
<1>7. CASE Destroy(q) /\ ~DestroyStop(q)
  <2>1. qp[q].pc \in Dying /\ qp'[q].pc \notin {"live", "av", "reset1"}
    BY <1>1, <1>7 DEF Destroy, DestroyZero, DestroyEnable, xrnic_qp_disable, DestroyFree,
                      DestroyDone, Goto, QpRecord, Dying
  <2>2. \A p \in QP \ {q} : qp'[p].pc \notin Dying
    BY <1>0, <2>1 DEF MovedInv
  <2>3. moved' \subseteq moved \ {n}
    <3>1. CASE DestroyZero(q)
      BY <1>n, <3>1 DEF DestroyZero, Zeroed, MovedInv
    <3>2. CASE ~DestroyZero(q)
      <4>1. moved' = moved /\ qp[q].pc \notin {"live", "av", "reset1"}
        BY <1>7, <3>2 DEF Destroy, DestroyEnable, xrnic_qp_disable, DestroyFree,
                      DestroyDone, hwVars
      <4> QED
        BY <1>3, <4>1
    <3> QED
      BY <3>1, <3>2
  <2>4. "reset1" \in Dying
    BY DEF Dying
  <2> QED
    BY <1>2, <2>1, <2>2, <2>3, <2>4 DEF MovedInv
<1> QED
  BY <1>5, <1>6, <1>7 DEF Destroy

\* Only a QP that is up, or whose reset has yet to come, has moved its pointers.
LEMMA MovedInvariant ==
    {"booted", "quiet", "serial"} \subseteq Discipline => (Spec => []MovedInv)
<1> SUFFICES ASSUME "booted" \in Discipline, "quiet" \in Discipline, "serial" \in Discipline
             PROVE  Spec => []MovedInv
  OBVIOUS
<1>1. Init => MovedInv
  BY DEF Init, MovedInv, NoQp, Dying
<1>2. ASSUME TypeOK, TypeOK', IndexInv, ConfInv, MovedInv, Next PROVE MovedInv'
  <2>1. ASSUME qp' = qp, sw_override' = sw_override, moved' = moved PROVE MovedInv'
    BY <1>2, <2>1 DEF MovedInv, Holders
  <2>2. CASE PreReserveQp1 \/ Irq \/ \E q \in QP : Tasklet(q)
    BY <2>1, <2>2 DEF PreReserveQp1, Irq, IrqEntry, IrqEvent, IrqMad, IrqFatal, IrqClear,
       Tasklet, RunComp, RunCnp, RunFatal, hwVars
  <2>3. CASE Hardware
    <3>1. PICK i \in Indices : Traffic(i)
      BY <2>3, SizeFacts DEF Hardware, HwEvent, HwMad, HwFatal
    <3>2. qp' = qp /\ sw_override' = sw_override /\ moved' \subseteq moved \cup Indices
      BY <2>3, SizeFacts DEF Hardware, HwEvent, HwMad, HwFatal, Traffic
    <3>3. \A j \in moved' : j \in moved \/ (j \in Indices /\ UpAt(j))
      BY <1>2, <2>3, SizeFacts, TrafficIsUp DEF Hardware, HwEvent, HwMad, HwFatal, Traffic
    <3> QED
      BY <1>2, <3>2, <3>3 DEF MovedInv, UpAt, Up, Holders
  <2>4. ASSUME NEW q \in QP, GsiTaskletKilled(q) PROVE MovedInv'
    <3>1. /\ \A p \in QP : qp'[p] = qp[p] \/ (p = q /\ qp'[p].pc = "gone")
          /\ qp[q].pc = "kill" /\ moved' = moved /\ sw_override' = sw_override
          /\ \A i \in Indices : Holders(i)' = Holders(i)
      BY <1>2, <2>4, KilledFrame DEF TypeOK, hwVars
    <3>2. "gone" \notin Dying /\ moved \subseteq Indices /\ \A i \in Indices : Holders(i) \subseteq QP
      BY <1>2 DEF Dying, TypeOK, Holders
    <3> QED
      BY <1>2, <3>1, <3>2 DEF MovedInv
  <2> QED
    BY <1>2, <2>2, <2>3, <2>4, MovedCreate, MovedOwn DEF Next
<1>3. ASSUME MovedInv, UNCHANGED vars PROVE MovedInv'
  BY <1>3 DEF vars, hwVars, MovedInv, Holders
<1> QED
  BY <1>1, <1>2, <1>3, QpTypeCorrect, IndexInvariant, ConfInvariant, PTL DEF Spec

\* A QP starts with ring pointers of 0 whichever QP had its index before: the
\* reset of that QP wrote them while sw_override was on, provided that no other
\* destruction turned it off in between.
THEOREM QpNewStartsAtZero ==
    {"booted", "quiet", "serial"} \subseteq Discipline => (Spec => NewQpStartsAtZero)
<1> SUFFICES ASSUME {"booted", "quiet", "serial"} \subseteq Discipline
             PROVE  Spec => NewQpStartsAtZero
  OBVIOUS
<1>0. "booted" \in Discipline
  OBVIOUS
<1>1. ASSUME TypeOK, TypeOK', IndexInv, MovedInv, [Next]_vars
      PROVE  [\A q \in QP : qp[q].pc \in {"none", "build"} /\ qp'[q].pc = "live"
                              => qp'[q].hw_qpn \notin moved]_vars
  <2> SUFFICES ASSUME Next, NEW q \in QP, qp[q].pc \in {"none", "build"}, qp'[q].pc = "live"
               PROVE  qp'[q].hw_qpn \notin moved
    BY <1>1
  <2>1. ShapeInv /\ IndexIdentifiesQp
    BY <1>1 DEF IndexInv
  <2>2. Create(q)
    <3>1. qp'[q] # qp[q]
      BY DEF IndexInv
    <3>2. ASSUME NEW p \in QP, p # q, Create(p) \/ Modify(p) \/ Destroy(p) PROVE qp'[q] = qp[q]
      BY <1>1, <2>1, <3>2, CreateIsOnOne, OwnIndexOnly
    <3>3. ~Modify(q) /\ ~Destroy(q)
      BY DEF Modify, ModifyQp, ModifyAvRead, ModifyAvWrite, Destroy, DestroyStop, DestroyZero,
             DestroyEnable, xrnic_qp_disable, DestroyFree, DestroyDone
    <3>4. ~PreReserveQp1
      BY <3>1 DEF PreReserveQp1
    <3>5. \A p \in QP : ~GsiTaskletKilled(p)
      BY <1>1, KilledFrame DEF TypeOK
    <3> QED
      BY <3>1, <3>2, <3>3, <3>4, <3>5, OthersLeaveQps DEF Next
  <2>3. CreateKernelDone(q) \/ CreateUserDone(q) \/ GsiCreate(q)
    <3>0. qp \in [QP -> QpRecord]
      BY <1>1 DEF TypeOK
    <3>1. CreateLoad(q) => qp'[q].pc = "alloc"
      BY <3>0 DEF CreateLoad, NoQp
    <3>2. CreateNoId(q) => qp'[q].pc = "gone"
      BY <3>0 DEF CreateNoId, QpRecord
    <3>3. ~CreateStore(q)
      BY DEF CreateStore
    <3>4. ASSUME NEW why \in Failures, CreateFails(q, why) \/ GsiCreateFails(q, why)
          PROVE  qp'[q].pc = "gone"
      <4>1. [NoQp EXCEPT !.pc = "gone", !.type = "GSI"].pc = "gone"
        BY DEF NoQp
      <4> QED
        BY <3>0, <3>4, <4>1 DEF CreateFails, GsiCreateFails, QpRecord
    <3> QED
      BY <2>2, <3>1, <3>2, <3>3, <3>4 DEF Create
  <2>4. CASE GsiCreate(q)
    <3>1. qp'[q].hw_qpn = 0
      BY <1>1, <2>4 DEF GsiCreate, xib_alloc_gsi_qp_buffers, NoQp, TypeOK
    <3>2. Holders(0) = {}
      BY <2>1, <2>4 DEF GsiCreate, Holders, ShapeInv, Owned
    <3> QED
      BY <1>1, <3>1, <3>2 DEF MovedInv
  <2>5. CASE CreateKernelDone(q) \/ CreateUserDone(q)
    <3>0. qp \in [QP -> QpRecord]
      BY <1>1 DEF TypeOK
    <3>3. xib_alloc_qp_buffers(qp[q]).hw_qpn = qp[q].hw_qpn
      BY <3>0 DEF xib_alloc_qp_buffers, QpRecord
    <3>1. qp'[q].hw_qpn = qp[q].hw_qpn /\ qp[q].pc = "build"
      <4>1. CASE CreateKernelDone(q)
        BY <3>0, <3>3, <4>1 DEF CreateKernelDone
      <4>2. CASE CreateUserDone(q)
        BY <3>0, <4>2 DEF CreateUserDone, QpRecord
      <4> QED
        BY <2>5, <4>1, <4>2
    <3>2. \A p \in Holders(qp[q].hw_qpn) : p = q
      BY <2>1, <3>1 DEF IndexIdentifiesQp, Holders, Owned
    <3> QED
      BY <1>1, <3>1, <3>2 DEF MovedInv
  <2> QED
    BY <2>3, <2>4, <2>5
<1> QED
  BY <1>0, <1>1, QpTypeCorrect, IndexInvariant, MovedInvariant, PTL DEF Spec, NewQpStartsAtZero
=============================================================================
