---------------------------- MODULE DriverProofs ----------------------------
(***************************************************************************)
(* The theorems about the parts of the driver, for their composition       *)
(* MCDriver.  A part is proved about by its own steps, for any value of    *)
(* its constants; they are then found again in the steps of the            *)
(* composition, which leave "part" as it is.  In order: protection domains *)
(* and memory regions, the handshake driver, the flow control files, the   *)
(* block RAM, and QP1, whose proofs are in XibGsiProofs.                   *)
(***************************************************************************)
EXTENDS MCDriver, RingLemmas, FiniteSetTheorems

-----------------------------------------------------------------------------
(* Protection domains and memory regions, for any number of regions,       *)
(* domains and identifiers: no two regions in use share an index, and the   *)
(* entry of the hardware at the index of a region is its own.               *)

\* The regions, domains and bitmaps; None is none of the objects.
MrConstantsOK == MaxCount \in Nat /\ M!None \notin Mr /\ M!None \notin Pd

MrRecord == [pc : {"none", "load", "program", "unmapped", "live", "freed", "gone"},
             type : {"user", "reg", "fast", "dma"}, pd : Pd \cup {M!None},
             idx : 0 .. MaxCount, base : {"ram", "bram"}]
MrPdRecord == [pc : {"none", "copy", "live"}, pdn : M!Ids \cup {M!None}]
MrEntryRecord == [mr : Mr \cup {M!None}, pdn : M!Ids \cup {M!None}, base : {"ram", "bram"}]

MrTypeOK ==
    /\ mr_map \in SUBSET M!Ids /\ pd_map \in SUBSET M!Ids
    /\ lock \in [by : Mr \cup {M!None}, map : SUBSET M!Ids]
    /\ pds \in [Pd -> MrPdRecord]
    /\ mrs \in [Mr -> MrRecord]
    /\ entry \in [M!Ids -> MrEntryRecord]
    /\ noti \in SUBSET [mr : Mr, idx : 0 .. MaxCount]

\* The lock is held by the registration that has loaded the bitmap and has yet
\* to store it; the word it loaded has a free bit.
MrLockInv ==
    /\ lock.by = M!None => lock = M!Free
    /\ \A m \in Mr : mrs[m].pc = "load" <=> lock.by = m
    /\ lock # M!Free => M!FirstZero(lock.map) \in M!Ids

\* The indices in use are set in mr_map and in the word that is about to be
\* stored.
MrHeldInv ==
    \A m \in Mr : M!Held(m) =>
        /\ mrs[m].idx \in mr_map
        /\ lock # M!Free => mrs[m].idx \in lock.map

\* An invalidation on its way is for a region that is still in use.
MrNotiInv ==
    \A n \in noti : mrs[n.mr].pc = "live" /\ mrs[n.mr].type # "dma" /\ mrs[n.mr].idx = n.idx

\* A region belongs to a domain that exists.
MrPdInv == \A m \in Mr : mrs[m].pc # "none" => mrs[m].pd \in Pd /\ pds[mrs[m].pd].pc = "live"

\* A DMA region took no index: it has the one of its initial value, 0.
MrDmaInv ==
    \A m \in Mr : /\ mrs[m].type = "dma" => mrs[m].idx = 0
                  /\ mrs[m].pc \in {"load", "program"} => mrs[m].type # "dma"

MrInv == /\ MrTypeOK /\ MrLockInv /\ MrHeldInv /\ MrNotiInv /\ MrPdInv /\ MrDmaInv
         /\ M!IndexNamesOneMr
MrEntryInv == M!EntryIsOwners /\ M!InvalidatedIsCleared
-----------------------------------------------------------------------------
\* find_first_zero_bit: the least bit that is free, or MaxCount.
LEMMA MrFirstZeroFree ==
    ASSUME MrConstantsOK, NEW map \in SUBSET M!Ids
    PROVE  M!FirstZero(map) \in 0 .. MaxCount /\ M!FirstZero(map) \notin map
<1>0. M!Ids \in SUBSET Nat /\ M!Ids \subseteq 0 .. MaxCount /\ MaxCount \notin M!Ids
  BY DEF M!Ids, MrConstantsOK
<1>1. \E i \in 0 .. MaxCount : i \notin map /\ \A j \in M!Ids \ map : i <= j
  <2>1. CASE M!Ids \ map = {}
    BY <1>0, <2>1 DEF MrConstantsOK
  <2>2. CASE M!Ids \ map # {}
    <3>1. PICK i \in M!Ids \ map : \A j \in M!Ids \ map : i <= j
      BY <1>0, <2>2, LeastElement
    <3> QED
      BY <1>0, <3>1
  <2> QED
    BY <2>1, <2>2
<1> QED
  BY <1>1 DEF M!FirstZero

\* An update of one element of a function keeps its type.
LEMMA MrUpdateType ==
    ASSUME NEW S, NEW T, NEW f \in [S -> T], NEW x \in S, NEW v \in T
    PROVE  [f EXCEPT ![x] = v] \in [S -> T]
OBVIOUS

\* The value a region has before and after its life.
LEMMA MrNoMrType == MrConstantsOK => M!NoMr \in MrRecord
BY DEF M!NoMr, MrRecord, MrConstantsOK

\* The fields of a region.
LEMMA MrFields ==
    ASSUME NEW r \in MrRecord
    PROVE  /\ r.pd \in Pd \cup {M!None} /\ r.idx \in 0 .. MaxCount
           /\ r.pc \in {"none", "load", "program", "unmapped", "live", "freed", "gone"}
BY DEF MrRecord

\* Domains: a number changes only while no region uses the domain.
LEMMA MrInvPd ==
    ASSUME MrConstantsOK, MrInv, NEW p \in Pd,
           M!AllocPd(p) \/ M!AllocPdDone(p) \/ M!AllocPdFails(p) \/ M!DeallocPd(p)
    PROVE  /\ MrInv'
           /\ \A m \in Mr : mrs[m].pc # "none" => pds'[mrs[m].pd].pdn = pds[mrs[m].pd].pdn
           /\ mrs' = mrs /\ entry' = entry
<1> USE DEF MrInv
<1>1. /\ mrs' = mrs /\ entry' = entry /\ lock' = lock /\ noti' = noti /\ mr_map' = mr_map
      /\ \A q \in Pd \ {p} : pds'[q] = pds[q]
  BY DEF M!AllocPd, M!AllocPdDone, M!AllocPdFails, M!DeallocPd, MrTypeOK
<1>2. ASSUME NEW m \in Mr, mrs[m].pc # "none"
      PROVE  /\ mrs[m].pd \in Pd /\ pds'[mrs[m].pd].pc = "live"
             /\ pds'[mrs[m].pd].pdn = pds[mrs[m].pd].pdn
  <2>1. mrs[m].pd \in Pd /\ pds[mrs[m].pd].pc = "live"
    BY <1>2 DEF MrPdInv
  <2>2. mrs[m].pd = p => M!AllocPdDone(p)
    BY <2>1 DEF M!AllocPd, M!AllocPdFails, M!DeallocPd
  <2>3. M!AllocPdDone(p) => pds'[p].pc = "live" /\ pds'[p].pdn = pds[p].pdn
    BY DEF M!AllocPdDone, MrTypeOK, MrPdRecord
  <2> QED
    BY <1>1, <2>1, <2>2, <2>3
<1>3. MrTypeOK'
  <2>1. CASE M!AllocPd(p)
    BY <2>1, MrFirstZeroFree DEF M!AllocPd, MrTypeOK, MrPdRecord
  <2>2. CASE M!AllocPdDone(p) \/ M!AllocPdFails(p) \/ M!DeallocPd(p)
    BY <2>2 DEF M!AllocPdDone, M!AllocPdFails, M!DeallocPd, MrTypeOK, MrPdRecord
  <2> QED
    BY <2>1, <2>2
<1>4. MrLockInv' /\ MrHeldInv' /\ MrNotiInv' /\ MrDmaInv' /\ M!IndexNamesOneMr'
  BY <1>1 DEF MrLockInv, MrHeldInv, MrNotiInv, MrDmaInv, M!IndexNamesOneMr, M!Held
<1>5. MrPdInv'
  BY <1>1, <1>2 DEF MrPdInv
<1> QED
  BY <1>1, <1>2, <1>3, <1>4, <1>5

\* A registration takes the lock and loads the bitmap, in which the indices in
\* use are set.
LEMMA MrInvTake ==
    ASSUME MrConstantsOK, MrInv, NEW m \in Mr, NEW p \in Pd, NEW type \in {"reg", "fast"},
           M!TakesIndex(m, p, type)
    PROVE  MrInv'
<1> USE DEF MrInv
<1>0. lock = M!Free /\ M!Free.by = M!None /\ M!None \notin Mr /\ mrs[m].pc = "none" /\ pds[p].pc = "live"
  BY DEF M!TakesIndex, M!LockFree, M!Free, MrConstantsOK
<1>1. /\ mrs' = [mrs EXCEPT ![m] = [M!NoMr EXCEPT !.pc = "load", !.type = type, !.pd = p]]
      /\ mrs'[m].pc = "load" /\ mrs'[m].pd = p /\ mrs'[m].type = type /\ (\A n \in Mr \ {m} : mrs'[n] = mrs[n])
      /\ lock' = [by |-> m, map |-> mr_map] /\ M!FirstZero(mr_map) \in M!Ids
      /\ mr_map' = mr_map /\ pd_map' = pd_map /\ pds' = pds /\ entry' = entry /\ noti' = noti
  BY DEF M!TakesIndex, MrTypeOK, M!NoMr
<1>2. MrTypeOK'
  <2>1. [M!NoMr EXCEPT !.pc = "load", !.type = type, !.pd = p] \in MrRecord
    BY MrNoMrType DEF MrRecord
  <2>2. mrs' \in [Mr -> MrRecord]
    BY <1>1, <2>1, MrUpdateType DEF MrTypeOK
  <2> QED
    BY <1>1, <2>2 DEF MrTypeOK
<1>3. lock'.by = m /\ lock'.map = mr_map
  BY <1>1
<1>4. MrLockInv'
  BY <1>0, <1>1, <1>3 DEF MrLockInv
<1>5. MrHeldInv' /\ M!IndexNamesOneMr'
  BY <1>0, <1>1, <1>3 DEF MrHeldInv, M!IndexNamesOneMr, M!Held
<1>6. MrNotiInv'
  BY <1>0, <1>1 DEF MrNotiInv, MrTypeOK
<1>7. MrPdInv' /\ MrDmaInv'
  BY <1>0, <1>1 DEF MrPdInv, MrDmaInv
<1> QED
  BY <1>2, <1>4, <1>5, <1>6, <1>7

\* The word is stored: the new index was free in it, and a bit that an
\* invalidation cleared in between comes back, which costs an index and no more.
LEMMA MrInvStore ==
    ASSUME MrConstantsOK, MrInv, NEW m \in Mr, M!RegStore(m)
    PROVE  /\ MrInv' /\ entry' = entry /\ pds' = pds
           /\ mrs[m].pc = "load" /\ mrs'[m].pc \in {"program", "unmapped"}
           /\ \A n \in Mr \ {m} : mrs'[n] = mrs[n]
<1> USE DEF MrInv
<1> DEFINE z == M!FirstZero(lock.map)
<1>0. lock.by = m /\ lock # M!Free /\ M!None \notin Mr /\ M!Free.by = M!None /\ mrs[m].pc = "load"
  BY DEF M!RegStore, M!Free, MrConstantsOK
<1>1. z \in M!Ids /\ z \notin lock.map /\ z \in 0 .. MaxCount /\ lock.map \in SUBSET M!Ids
  BY <1>0, MrFirstZeroFree DEF MrLockInv, MrTypeOK
<1>2. /\ mr_map' = lock.map \cup {z} /\ lock' = M!Free /\ pd_map' = pd_map /\ pds' = pds
      /\ entry' = entry /\ noti' = noti
  BY DEF M!RegStore
<1>3. /\ mrs'[m].pc \in {"program", "unmapped"} /\ mrs'[m].idx = z /\ mrs'[m].pd = mrs[m].pd
      /\ mrs'[m].type = mrs[m].type /\ mrs'[m].base = mrs[m].base
      /\ \A n \in Mr \ {m} : mrs'[n] = mrs[n]
  BY DEF M!RegStore, MrTypeOK, MrRecord
<1> HIDE DEF z
<1>4. MrTypeOK'
  <2>0. mrs \in [Mr -> MrRecord]
    BY DEF MrTypeOK
  <2>3. \A pc \in {"unmapped", "program"} : [mrs[m] EXCEPT !.pc = pc, !.idx = z] \in MrRecord
    BY <1>1, <2>0 DEF MrRecord
  <2>4. PICK pc \in {"unmapped", "program"} :
            mrs' = [mrs EXCEPT ![m] = [mrs[m] EXCEPT !.pc = pc, !.idx = z]]
    BY <2>0 DEF M!RegStore, z
  <2>1. mrs' \in [Mr -> MrRecord]
    BY <2>0, <2>3, <2>4, MrUpdateType
  <2>2. lock' \in [by : Mr \cup {M!None}, map : SUBSET M!Ids]
    BY <1>2 DEF M!Free
  <2> QED
    BY <1>1, <1>2, <2>1, <2>2 DEF MrTypeOK
<1>5. MrLockInv'
  BY <1>0, <1>2, <1>3 DEF MrLockInv
<1>6. MrHeldInv' /\ M!IndexNamesOneMr'
  BY <1>0, <1>1, <1>2, <1>3 DEF MrHeldInv, M!IndexNamesOneMr, M!Held
<1>7. MrNotiInv'
  BY <1>0, <1>2, <1>3 DEF MrNotiInv, MrTypeOK
<1>8. MrPdInv' /\ MrDmaInv'
  BY <1>0, <1>2, <1>3 DEF MrPdInv, MrDmaInv
<1> QED
  BY <1>0, <1>2, <1>3, <1>4, <1>5, <1>6, <1>7, <1>8

\* What most steps on a region m leave alone.
MrOthersKept(m) ==
    /\ \A n \in Mr \ {m} : mrs'[n] = mrs[n]
    /\ pds' = pds /\ pd_map' = pd_map /\ lock' = lock

\* A region that is programmed stays in use with its index.
LEMMA MrInvProgram ==
    ASSUME MrConstantsOK, MrInv, NEW m \in Mr, M!RegProgram(m) \/ M!MapMrSge(m)
    PROVE  /\ MrInv' /\ M!Held(m) /\ mrs'[m].pc = "live" /\ mrs'[m].idx = mrs[m].idx
           /\ mrs'[m].pd = mrs[m].pd /\ mrs'[m].base = "ram" /\ MrOthersKept(m)
           /\ entry' = [entry EXCEPT ![mrs[m].idx] =
                          [mr |-> m, pdn |-> pds[mrs[m].pd].pdn, base |-> "ram"]]
<1> USE DEF MrInv
<1>0. mrs \in [Mr -> MrRecord] /\ mrs[m].pc \in {"program", "unmapped", "live"}
  BY DEF MrTypeOK, M!RegProgram, M!MapMrSge
<1>t. mrs[m].type # "dma"
  BY DEF M!RegProgram, M!MapMrSge, MrDmaInv
<1>1. /\ mrs' = [mrs EXCEPT ![m] = [mrs[m] EXCEPT !.pc = "live", !.base = "ram"]]
      /\ pds' = pds /\ pd_map' = pd_map /\ lock' = lock /\ mr_map' = mr_map /\ noti' = noti
      /\ entry' = [entry EXCEPT ![mrs[m].idx] =
                     [mr |-> m, pdn |-> pds[mrs[m].pd].pdn, base |-> "ram"]]
  BY <1>0 DEF M!RegProgram, M!MapMrSge, M!xrnic_reg_mr
<1>2. /\ mrs'[m].pc = "live" /\ mrs'[m].idx = mrs[m].idx /\ mrs'[m].pd = mrs[m].pd
      /\ mrs'[m].type = mrs[m].type /\ mrs'[m].base = "ram"
      /\ \A n \in Mr \ {m} : mrs'[n] = mrs[n]
  BY <1>0, <1>1 DEF MrRecord
<1>3. MrTypeOK'
  <2>1. [mrs[m] EXCEPT !.pc = "live", !.base = "ram"] \in MrRecord
    BY <1>0 DEF MrRecord
  <2>2. mrs' \in [Mr -> MrRecord]
    BY <1>0, <1>1, <2>1, MrUpdateType
  <2>3. mrs[m].pd \in Pd
    BY <1>0 DEF MrPdInv
  <2>4. [mr |-> m, pdn |-> pds[mrs[m].pd].pdn, base |-> "ram"] \in MrEntryRecord
    BY <2>3 DEF MrEntryRecord, MrTypeOK, MrPdRecord
  <2>5. entry' \in [M!Ids -> MrEntryRecord]
    BY <1>1, <2>4 DEF MrTypeOK
  <2> QED
    BY <1>1, <2>2, <2>5 DEF MrTypeOK
<1>4. MrLockInv'
  BY <1>0, <1>1, <1>2 DEF MrLockInv
<1>5. MrHeldInv' /\ M!IndexNamesOneMr'
  BY <1>0, <1>1, <1>2, <1>t DEF MrHeldInv, M!IndexNamesOneMr, M!Held
<1>6. MrNotiInv' /\ MrPdInv' /\ MrDmaInv'
  BY <1>0, <1>1, <1>2, <1>t DEF MrNotiInv, MrTypeOK, MrPdInv, MrDmaInv
<1> QED
  BY <1>0, <1>1, <1>2, <1>3, <1>4, <1>5, <1>6, <1>t DEF MrOthersKept, M!Held

\* A region of xib_get_dma_mr takes no index.
LEMMA MrInvDma ==
    ASSUME MrConstantsOK, MrInv, NEW m \in Mr, NEW p \in Pd, M!GetDmaMr(m, p)
    PROVE  /\ MrInv' /\ entry' = entry /\ MrOthersKept(m)
           /\ mrs'[m].type = "dma" /\ mrs'[m].pc = "live"
<1> USE DEF MrInv
<1>0. mrs \in [Mr -> MrRecord] /\ mrs[m].pc = "none" /\ pds[p].pc = "live"
  BY DEF MrTypeOK, M!GetDmaMr
<1>1. /\ mrs' = [mrs EXCEPT ![m] = [M!NoMr EXCEPT !.pc = "live", !.type = "dma", !.pd = p]]
      /\ pds' = pds /\ pd_map' = pd_map /\ lock' = lock /\ mr_map' = mr_map /\ noti' = noti
      /\ entry' = entry
  BY DEF M!GetDmaMr
<1>2. /\ mrs'[m].pc = "live" /\ mrs'[m].type = "dma" /\ mrs'[m].pd = p /\ mrs'[m].idx = 0
      /\ \A n \in Mr \ {m} : mrs'[n] = mrs[n]
  BY <1>0, <1>1 DEF M!NoMr
<1>3. MrTypeOK'
  <2>1. [M!NoMr EXCEPT !.pc = "live", !.type = "dma", !.pd = p] \in MrRecord
    BY MrNoMrType DEF MrRecord
  <2>2. mrs' \in [Mr -> MrRecord]
    BY <1>0, <1>1, <2>1, MrUpdateType
  <2> QED
    BY <1>1, <2>2 DEF MrTypeOK
<1>4. MrLockInv' /\ MrHeldInv' /\ M!IndexNamesOneMr'
  BY <1>0, <1>1, <1>2 DEF MrLockInv, MrHeldInv, M!IndexNamesOneMr, M!Held
<1>5. MrNotiInv' /\ MrPdInv' /\ MrDmaInv'
  BY <1>0, <1>1, <1>2 DEF MrNotiInv, MrTypeOK, MrPdInv, MrDmaInv
<1> QED
  BY <1>1, <1>2, <1>3, <1>4, <1>5 DEF MrOthersKept

\* A region goes out of use, while the lock is free: its index is released, and
\* no other region in use has that index.
LEMMA MrInvRelease ==
    ASSUME MrConstantsOK, MrInv, NEW m \in Mr, NEW r \in MrRecord, lock = M!Free,
           mrs' = [mrs EXCEPT ![m] = r], MrOthersKept(m), noti' = noti, entry' \in [M!Ids -> MrEntryRecord],
           mr_map' \in SUBSET M!Ids,
           \A i \in mr_map : i \in mr_map' \/ (M!Held(m) /\ i = mrs[m].idx),
           r.type # "dma", r.pc \in {"none", "freed"}, r.pc = "freed" => r.pd = mrs[m].pd /\ mrs[m].pc # "none",
           mrs[m].pc \notin {"load"}, \A n \in noti : n.mr # m
    PROVE  MrInv'
<1> USE DEF MrInv, MrOthersKept
<1>0. mrs \in [Mr -> MrRecord] /\ mrs'[m] = r
  BY DEF MrTypeOK
<1>1. MrTypeOK'
  BY <1>0, MrUpdateType DEF MrTypeOK
<1>2. MrLockInv'
  BY <1>0 DEF MrLockInv
<1>3. MrHeldInv' /\ M!IndexNamesOneMr'
  BY <1>0 DEF MrHeldInv, M!IndexNamesOneMr, M!Held
<1>4. MrNotiInv' /\ MrPdInv' /\ MrDmaInv'
  BY <1>0 DEF MrNotiInv, MrTypeOK, MrPdInv, MrDmaInv
<1> QED
  BY <1>1, <1>2, <1>3, <1>4

\* Failed mappings, deregistrations and drops are such steps.
LEMMA MrInvEnd ==
    ASSUME MrConstantsOK, MrInv, {"once", "forget", "dma_last"} \subseteq Discipline,
           NEW m \in Mr, M!MapMrSgeFails(m) \/ M!DeregMr(m)
    PROVE  /\ MrInv' /\ entry' = entry /\ MrOthersKept(m) /\ mrs'[m].pc \in {"none", "freed"}
<1>0. /\ mrs \in [Mr -> MrRecord] /\ mr_map \in SUBSET M!Ids /\ entry \in [M!Ids -> MrEntryRecord]
      /\ M!NoMr \in MrRecord /\ M!NoMr.pc = "none" /\ M!NoMr.type = "user"
  BY MrNoMrType DEF MrInv, MrTypeOK, M!NoMr
<1>1. CASE M!MapMrSgeFails(m)
  <2> DEFINE r == [mrs[m] EXCEPT !.pc = "freed"]
  <2>1. r \in MrRecord /\ r.pc = "freed" /\ r.pd = mrs[m].pd /\ r.type # "dma"
    BY <1>0, <1>1 DEF MrRecord, M!MapMrSgeFails
  <2>2. /\ lock = M!Free /\ mrs' = [mrs EXCEPT ![m] = r] /\ MrOthersKept(m) /\ noti' = noti
        /\ entry' = entry /\ mr_map' = mr_map \ {mrs[m].idx} /\ M!Held(m) /\ mrs[m].pc # "load"
        /\ mrs[m].pc # "none" /\ mrs'[m] = r
    BY <1>0, <1>1 DEF M!MapMrSgeFails, M!LockFree, MrOthersKept, M!Held
  <2>3. \A n \in noti : n.mr # m
    BY <1>1 DEF M!MapMrSgeFails, M!Calm
  <2> HIDE DEF r
  <2> QED
    BY <1>0, <2>1, <2>2, <2>3, MrInvRelease
<1>2. CASE M!DeregMr(m)
  <2>1. /\ lock = M!Free /\ mrs' = [mrs EXCEPT ![m] = M!NoMr] /\ MrOthersKept(m) /\ noti' = noti
        /\ entry' = entry /\ mr_map' = mr_map \ {mrs[m].idx}
        /\ mrs[m].pc \in {"unmapped", "live"} /\ mrs'[m] = M!NoMr
        /\ (mrs[m].type = "dma" => 0 \notin mr_map)
    BY <1>0, <1>2 DEF M!DeregMr, M!LockFree, MrOthersKept, M!Calm, M!Releases
  <2>2. \A n \in noti : n.mr # m
    BY <1>2 DEF M!DeregMr, M!Calm
  <2>3. \A i \in mr_map : i \in mr_map' \/ (M!Held(m) /\ i = mrs[m].idx)
    BY <2>1 DEF M!Held, MrInv, MrDmaInv
  <2> QED
    BY <1>0, <2>1, <2>2, <2>3, MrInvRelease
<1> QED
  BY <1>1, <1>2

\* A peer's invalidation is queued for a region in use.
LEMMA MrInvQueued ==
    ASSUME MrConstantsOK, MrInv, NEW m \in Mr, M!HwInvalidate(m)
    PROVE  /\ MrInv' /\ entry' = entry /\ mrs' = mrs /\ pds' = pds
<1> USE DEF MrInv
<1>1. /\ mrs[m].pc = "live" /\ mrs[m].type # "dma" /\ noti' = noti \cup {[mr |-> m, idx |-> mrs[m].idx]}
      /\ entry' = entry /\ mrs' = mrs /\ pds' = pds /\ pd_map' = pd_map /\ mr_map' = mr_map /\ lock' = lock
  BY DEF M!HwInvalidate
<1>2. [mr |-> m, idx |-> mrs[m].idx] \in [mr : Mr, idx : 0 .. MaxCount]
  BY MrFields DEF MrTypeOK
<1>3. MrTypeOK'
  BY <1>1, <1>2 DEF MrTypeOK
<1>4. MrNotiInv'
  BY <1>1 DEF MrNotiInv
<1>5. MrLockInv' /\ MrHeldInv' /\ MrPdInv' /\ MrDmaInv' /\ M!IndexNamesOneMr'
  BY <1>1 DEF MrLockInv, MrHeldInv, MrPdInv, MrDmaInv, M!IndexNamesOneMr, M!Held
<1> QED
  BY <1>1, <1>3, <1>4, <1>5

\* The interrupt of the notification DMA releases the index without the lock:
\* the region was still in use, so no other one has the index.
LEMMA MrInvInvalidate ==
    ASSUME MrConstantsOK, MrInv, NEW n \in noti, M!AxidmaInvalidate(n)
    PROVE  /\ MrInv' /\ n.mr \in Mr /\ M!Held(n.mr) /\ mrs[n.mr].idx = n.idx
           /\ mrs'[n.mr].pc = "gone" /\ mrs'[n.mr].idx = n.idx /\ MrOthersKept(n.mr)
           /\ entry' = M!Cleared(n.idx)
<1> USE DEF MrInv
<1> DEFINE m == n.mr
<1>0. /\ m \in Mr /\ mrs[m].pc = "live" /\ mrs[m].type # "dma" /\ mrs[m].idx = n.idx
      /\ mrs \in [Mr -> MrRecord] /\ n \in [mr : Mr, idx : 0 .. MaxCount]
  BY DEF MrNotiInv, MrTypeOK
<1>1. /\ mrs' = [mrs EXCEPT ![m] = [mrs[m] EXCEPT !.pc = "gone"]]
      /\ noti' = noti \ {n} /\ entry' = M!Cleared(n.idx) /\ mr_map' = mr_map \ {n.idx}
      /\ pds' = pds /\ pd_map' = pd_map /\ lock' = lock
  BY <1>0 DEF M!AxidmaInvalidate
<1>2. /\ mrs'[m].pc = "gone" /\ mrs'[m].idx = n.idx /\ mrs'[m].pd = mrs[m].pd
      /\ mrs'[m].type = mrs[m].type /\ \A k \in Mr \ {m} : mrs'[k] = mrs[k]
  BY <1>0, <1>1 DEF MrRecord
<1>3. \A k \in noti' : k \in noti /\ k.mr \in Mr \ {m}
  <2> SUFFICES ASSUME NEW k \in noti' PROVE k \in noti /\ k.mr \in Mr \ {m}
    OBVIOUS
  <2>1. k \in noti /\ k # n /\ k \in [mr : Mr, idx : 0 .. MaxCount]
    BY <1>1 DEF MrTypeOK
  <2>2. mrs[k.mr].idx = k.idx
    BY <2>1 DEF MrNotiInv
  <2>3. k.mr = m => k = n
    BY <1>0, <2>1, <2>2
  <2> QED
    BY <2>1, <2>3
<1> HIDE DEF m
<1>4. MrTypeOK'
  <2>1. [mrs[m] EXCEPT !.pc = "gone"] \in MrRecord
    BY <1>0 DEF MrRecord
  <2>2. mrs' \in [Mr -> MrRecord]
    BY <1>0, <1>1, <2>1, MrUpdateType
  <2>3. M!NoEntry \in MrEntryRecord
    BY DEF M!NoEntry, MrEntryRecord
  <2>4. entry' \in [M!Ids -> MrEntryRecord]
    BY <1>1, <2>3 DEF M!Cleared, MrTypeOK
  <2> QED
    BY <1>1, <2>2, <2>4 DEF MrTypeOK
<1>5. MrLockInv' /\ MrPdInv' /\ MrDmaInv'
  BY <1>0, <1>1, <1>2 DEF MrLockInv, MrPdInv, MrDmaInv
<1>6. MrNotiInv'
  BY <1>2, <1>3 DEF MrNotiInv
<1>7. MrHeldInv' /\ M!IndexNamesOneMr'
  BY <1>0, <1>1, <1>2 DEF MrHeldInv, M!IndexNamesOneMr, M!Held
<1> QED
  BY <1>0, <1>1, <1>2, <1>4, <1>5, <1>6, <1>7 DEF MrOthersKept, M!Held, m

\* A region that is out of use is forgotten.
LEMMA MrInvDrop ==
    ASSUME MrConstantsOK, MrInv, NEW m \in Mr, M!Drop(m)
    PROVE  /\ MrInv' /\ entry' = entry /\ MrOthersKept(m) /\ mrs'[m].pc = "none"
<1> USE DEF MrInv
<1>0. mrs \in [Mr -> MrRecord] /\ mrs[m].pc \in {"gone", "freed"} /\ \A n \in noti : n.mr # m
  BY DEF MrTypeOK, M!Drop
<1>1. /\ mrs' = [mrs EXCEPT ![m] = M!NoMr] /\ pds' = pds /\ pd_map' = pd_map /\ lock' = lock
      /\ mr_map' = mr_map /\ noti' = noti /\ entry' = entry
  BY DEF M!Drop
<1>2. /\ mrs'[m].pc = "none" /\ mrs'[m].type = "user" /\ \A n \in Mr \ {m} : mrs'[n] = mrs[n]
  BY <1>0, <1>1 DEF M!NoMr
<1>3. MrTypeOK'
  BY <1>0, <1>1, MrNoMrType, MrUpdateType DEF MrTypeOK
<1>4. MrLockInv' /\ MrPdInv' /\ MrDmaInv' /\ MrNotiInv'
  BY <1>0, <1>1, <1>2 DEF MrLockInv, MrPdInv, MrDmaInv, MrNotiInv, MrTypeOK
<1>5. MrHeldInv' /\ M!IndexNamesOneMr'
  BY <1>0, <1>1, <1>2 DEF MrHeldInv, M!IndexNamesOneMr, M!Held
<1> QED
  BY <1>1, <1>2, <1>3, <1>4, <1>5 DEF MrOthersKept

\* The handshake driver moves the memory behind a key.
LEMMA MrInvRebase ==
    ASSUME MrConstantsOK, MrInv, NEW m \in Mr, NEW i \in M!Ids, M!hw_hs_mr_rebase(m, i)
    PROVE  /\ MrInv' /\ MrOthersKept(m) /\ mrs'[m] = [mrs[m] EXCEPT !.base = "bram"]
           /\ entry' = [entry EXCEPT ![i].base = "bram"]
<1> USE DEF MrInv
<1>0. mrs \in [Mr -> MrRecord] /\ entry \in [M!Ids -> MrEntryRecord]
  BY DEF MrTypeOK
<1>1. /\ mrs' = [mrs EXCEPT ![m] = [mrs[m] EXCEPT !.base = "bram"]]
      /\ pds' = pds /\ pd_map' = pd_map /\ lock' = lock
      /\ mr_map' = mr_map /\ noti' = noti /\ entry' = [entry EXCEPT ![i].base = "bram"]
  BY <1>0 DEF M!hw_hs_mr_rebase
<1>2. /\ mrs'[m].pc = mrs[m].pc /\ mrs'[m].type = mrs[m].type /\ mrs'[m].pd = mrs[m].pd
      /\ mrs'[m].idx = mrs[m].idx /\ \A n \in Mr \ {m} : mrs'[n] = mrs[n]
  BY <1>0, <1>1 DEF MrRecord
<1>3. MrTypeOK'
  <2>1. [mrs[m] EXCEPT !.base = "bram"] \in MrRecord
    BY <1>0 DEF MrRecord
  <2>2. [entry[i] EXCEPT !.base = "bram"] \in MrEntryRecord
    BY <1>0 DEF MrEntryRecord
  <2>3. mrs' \in [Mr -> MrRecord] /\ entry' \in [M!Ids -> MrEntryRecord]
    BY <1>0, <1>1, <2>1, <2>2, MrUpdateType
  <2> QED
    BY <1>1, <2>3 DEF MrTypeOK
<1>4. MrLockInv' /\ MrPdInv' /\ MrDmaInv' /\ MrNotiInv'
  BY <1>0, <1>1, <1>2 DEF MrLockInv, MrPdInv, MrDmaInv, MrNotiInv, MrTypeOK
<1>5. MrHeldInv' /\ M!IndexNamesOneMr'
  BY <1>0, <1>1, <1>2 DEF MrHeldInv, M!IndexNamesOneMr, M!Held
<1> QED
  BY <1>0, <1>1, <1>2, <1>3, <1>4, <1>5 DEF MrOthersKept

\* What the consumers and the peers respect: a region is not released twice, and
\* a DMA region only while index 0 is free.
MrCallers == {"once", "forget", "dma_last"} \subseteq Discipline

\* At the start nothing is registered.
LEMMA MrInvInit == MrConstantsOK /\ M!Init => MrInv
<1> SUFFICES ASSUME MrConstantsOK, M!Init PROVE MrInv
  OBVIOUS
<1>1. MrTypeOK
  <2>1. M!NoMr \in MrRecord /\ M!NoEntry \in MrEntryRecord
    BY MrNoMrType DEF M!NoEntry, MrEntryRecord
  <2>2. M!Free \in [by : Mr \cup {M!None}, map : SUBSET M!Ids]
    BY DEF M!Free
  <2> QED
    BY <2>1, <2>2 DEF M!Init, MrTypeOK, MrPdRecord
<1>2. \A m \in Mr : mrs[m].pc = "none" /\ mrs[m].type = "user"
  BY DEF M!Init, M!NoMr
<1>3. lock = M!Free /\ M!Free.by = M!None /\ M!None \notin Mr /\ noti = {}
  BY DEF M!Init, M!Free, MrConstantsOK
<1> QED
  BY <1>1, <1>2, <1>3 DEF MrInv, MrLockInv, MrHeldInv, MrNotiInv, MrPdInv, MrDmaInv, M!IndexNamesOneMr, M!Held

\* Every step keeps the invariant of the indices.
LEMMA MrInvNext ==
    ASSUME MrConstantsOK, MrCallers, MrInv, M!Next
    PROVE  MrInv'
BY MrInvPd, MrInvTake, MrInvStore, MrInvProgram, MrInvDma, MrInvEnd, MrInvQueued,
   MrInvInvalidate, MrInvDrop, MrInvRebase
   DEF M!Next, MrCallers, M!xib_reg_mr, M!xib_reg_user_mr, M!xib_alloc_mr

\* The invariant is about the variables of the module.
LEMMA MrInvStutter ==
    ASSUME MrInv, UNCHANGED M!vars
    PROVE  MrInv'
BY DEF MrInv, M!vars, MrTypeOK, MrLockInv, MrHeldInv, MrNotiInv, MrPdInv, MrDmaInv, M!IndexNamesOneMr, M!Held
-----------------------------------------------------------------------------
(* The entries of the hardware.  The callers also give the handshake driver *)
(* keys of live regions only.                                               *)

\* What writes or withdraws an entry does so at the index of a region in use,
\* which no other region in use shares.
LEMMA MrEntryInvStep ==
    ASSUME MrConstantsOK, MrCallers, "own_key" \in Discipline, MrInv, MrEntryInv, M!Next
    PROVE  MrEntryInv'
<1> USE DEF MrEntryInv
<1>0. /\ MrInv' /\ mrs \in [Mr -> MrRecord] /\ entry \in [M!Ids -> MrEntryRecord]
      /\ M!None \notin Mr /\ M!IndexNamesOneMr
  BY MrInvNext DEF MrInv, MrTypeOK, MrConstantsOK
<1>i. \A m \in Mr : M!Held(m) => mrs[m].idx \in M!Ids
  BY DEF MrInv, MrHeldInv, MrTypeOK
<1>1. ASSUME NEW p \in Pd, M!AllocPd(p) \/ M!AllocPdDone(p) \/ M!AllocPdFails(p) \/ M!DeallocPd(p)
      PROVE  MrEntryInv'
  BY <1>1, MrInvPd DEF M!EntryIsOwners, M!InvalidatedIsCleared
<1>2. ASSUME NEW m \in Mr, entry' = entry, pds' = pds, \A n \in Mr \ {m} : mrs'[n] = mrs[n],
             mrs'[m].pc \notin {"live", "gone"} \/ (mrs'[m].type = "dma" /\ mrs'[m].pc = "live")
      PROVE  MrEntryInv'
  BY <1>2 DEF M!EntryIsOwners, M!InvalidatedIsCleared
<1>3. ASSUME NEW m \in Mr, NEW p \in Pd,
             M!xib_reg_mr(m, p) \/ M!xib_reg_user_mr(m, p) \/ M!xib_alloc_mr(m, p)
      PROVE  MrEntryInv'
  <2>1. PICK type : M!TakesIndex(m, p, type)
    BY <1>3 DEF M!xib_reg_mr, M!xib_reg_user_mr, M!xib_alloc_mr
  <2>2. entry' = entry /\ pds' = pds /\ mrs'[m].pc = "load" /\ \A n \in Mr \ {m} : mrs'[n] = mrs[n]
    BY <1>0, <2>1 DEF M!TakesIndex, M!NoMr
  <2> QED
    BY <1>2, <2>2
<1>4. ASSUME NEW m \in Mr, NEW p \in Pd, M!GetDmaMr(m, p) PROVE MrEntryInv'
  BY <1>2, <1>4, MrInvDma DEF MrOthersKept
<1>5. ASSUME NEW m \in Mr, M!RegStore(m) PROVE MrEntryInv'
  <2>1. /\ entry' = entry /\ pds' = pds /\ mrs'[m].pc \in {"program", "unmapped"}
        /\ \A n \in Mr \ {m} : mrs'[n] = mrs[n]
    BY <1>5, MrInvStore
  <2> QED
    BY <1>2, <2>1
<1>6. ASSUME NEW m \in Mr, M!MapMrSgeFails(m) \/ M!DeregMr(m) \/ M!Drop(m) PROVE MrEntryInv'
  <2>1. /\ entry' = entry /\ MrOthersKept(m) /\ mrs'[m].pc \in {"none", "freed"}
    BY <1>6, MrInvEnd, MrInvDrop DEF MrCallers
  <2> QED
    BY <1>2, <2>1 DEF MrOthersKept
<1>7. ASSUME NEW m \in Mr, M!HwInvalidate(m) PROVE MrEntryInv'
  BY <1>7, MrInvQueued DEF M!EntryIsOwners, M!InvalidatedIsCleared
<1>8. ASSUME NEW m \in Mr, M!RegProgram(m) \/ M!MapMrSge(m) PROVE MrEntryInv'
  <2> DEFINE e == [mr |-> m, pdn |-> pds[mrs[m].pd].pdn, base |-> "ram"]
  <2>1. /\ M!Held(m) /\ mrs'[m].pc = "live" /\ mrs'[m].idx = mrs[m].idx
        /\ mrs'[m].pd = mrs[m].pd /\ mrs'[m].base = "ram" /\ MrOthersKept(m)
        /\ entry' = [entry EXCEPT ![mrs[m].idx] = e]
    BY <1>8, MrInvProgram
  <2>2. entry'[mrs[m].idx] = e /\ e.mr = m /\ \A i \in M!Ids : i # mrs[m].idx => entry'[i] = entry[i]
    BY <1>0, <1>i, <2>1
  <2>3. M!EntryIsOwners'
    <3> SUFFICES ASSUME NEW n \in Mr, mrs'[n].pc = "live", mrs'[n].type # "dma"
                 PROVE  entry'[mrs'[n].idx] =
                          [mr |-> n, pdn |-> pds'[mrs'[n].pd].pdn, base |-> mrs'[n].base]
      BY DEF M!EntryIsOwners
    <3>1. CASE n = m
      BY <2>1, <2>2, <3>1 DEF MrOthersKept
    <3>2. CASE n # m
      <4>1. mrs'[n] = mrs[n] /\ pds' = pds /\ M!Held(n)
        BY <2>1, <3>2 DEF MrOthersKept, M!Held
      <4>2. mrs[n].idx # mrs[m].idx /\ mrs[n].idx \in M!Ids
        BY <1>0, <1>i, <2>1, <3>2, <4>1 DEF M!IndexNamesOneMr
      <4> QED
        BY <2>2, <4>1, <4>2 DEF M!EntryIsOwners
    <3> QED
      BY <3>1, <3>2
  <2>4. M!InvalidatedIsCleared'
    <3> SUFFICES ASSUME NEW n \in Mr, mrs'[n].pc = "gone" PROVE entry'[mrs'[n].idx].mr # n
      BY DEF M!InvalidatedIsCleared
    <3>1. n # m /\ mrs'[n] = mrs[n]
      BY <2>1 DEF MrOthersKept
    <3>2. CASE mrs[n].idx = mrs[m].idx
      BY <2>2, <3>1, <3>2
    <3>3. CASE mrs[n].idx # mrs[m].idx
      <4>1. entry'[mrs[n].idx] = entry[mrs[n].idx]
        BY <1>0, <2>1, <2>2, <3>3, <1>i
      <4> QED
        BY <3>1, <4>1 DEF M!InvalidatedIsCleared
    <3> QED
      BY <3>2, <3>3
  <2> QED
    BY <2>3, <2>4
<1>9. ASSUME NEW n \in noti, M!AxidmaInvalidate(n) PROVE MrEntryInv'
  <2>1. /\ n.mr \in Mr /\ M!Held(n.mr) /\ mrs[n.mr].idx = n.idx
        /\ mrs'[n.mr].pc = "gone" /\ mrs'[n.mr].idx = n.idx /\ MrOthersKept(n.mr)
        /\ entry' = [entry EXCEPT ![n.idx] = M!NoEntry] /\ n.idx \in M!Ids
    BY <1>9, <1>i, MrInvInvalidate DEF M!Cleared
  <2>2. entry'[n.idx] = M!NoEntry /\ M!NoEntry.mr = M!None /\ \A i \in M!Ids : i # n.idx => entry'[i] = entry[i]
    BY <1>0, <2>1 DEF M!NoEntry
  <2>3. M!EntryIsOwners'
    <3> SUFFICES ASSUME NEW m \in Mr, mrs'[m].pc = "live", mrs'[m].type # "dma"
                 PROVE  entry'[mrs'[m].idx] =
                          [mr |-> m, pdn |-> pds'[mrs'[m].pd].pdn, base |-> mrs'[m].base]
      BY DEF M!EntryIsOwners
    <3>1. m # n.mr /\ mrs'[m] = mrs[m] /\ pds' = pds /\ M!Held(m)
      BY <2>1 DEF MrOthersKept, M!Held
    <3>2. mrs[m].idx # n.idx /\ mrs[m].idx \in M!Ids
      BY <1>0, <1>i, <2>1, <3>1 DEF M!IndexNamesOneMr
    <3> QED
      BY <2>2, <3>1, <3>2 DEF M!EntryIsOwners
  <2>4. M!InvalidatedIsCleared'
    <3> SUFFICES ASSUME NEW m \in Mr, mrs'[m].pc = "gone" PROVE entry'[mrs'[m].idx].mr # m
      BY DEF M!InvalidatedIsCleared
    <3>1. CASE mrs'[m].idx = n.idx
      BY <1>0, <2>2, <3>1
    <3>2. CASE mrs'[m].idx # n.idx
      <4>1. m # n.mr /\ mrs'[m] = mrs[m]
        BY <2>1, <3>2 DEF MrOthersKept
      <4>2. entry'[mrs[m].idx] = entry[mrs[m].idx]
        BY <1>0, <2>1, <3>2, <4>1
      <4> QED
        BY <4>1, <4>2 DEF M!InvalidatedIsCleared
    <3> QED
      BY <3>1, <3>2
  <2> QED
    BY <2>3, <2>4
<1>10. ASSUME NEW m \in Mr, NEW i \in M!Ids, M!hw_hs_mr_rebase(m, i) PROVE MrEntryInv'
  <2>1. /\ MrOthersKept(m) /\ mrs'[m] = [mrs[m] EXCEPT !.base = "bram"]
        /\ entry' = [entry EXCEPT ![i].base = "bram"]
    BY <1>10, MrInvRebase
  <2>2. mrs[m].pc = "live" /\ mrs[m].type # "dma" /\ mrs[m].idx = i /\ M!Held(m)
    BY <1>10 DEF M!hw_hs_mr_rebase, M!Calm, M!Held
  <2>3. /\ mrs'[m].pc = "live" /\ mrs'[m].type # "dma" /\ mrs'[m].idx = i /\ mrs'[m].base = "bram"
        /\ mrs'[m].pd = mrs[m].pd
    BY <1>0, <2>1, <2>2 DEF MrRecord
  <2>4. entry[i] = [mr |-> m, pdn |-> pds[mrs[m].pd].pdn, base |-> mrs[m].base]
    BY <2>2 DEF M!EntryIsOwners
  <2>5. entry'[i] = [mr |-> m, pdn |-> pds[mrs[m].pd].pdn, base |-> "bram"]
    BY <1>0, <2>1, <2>4
  <2>6. \A j \in M!Ids : j # i => entry'[j] = entry[j]
    BY <1>0, <2>1
  <2>7. M!EntryIsOwners'
    <3> SUFFICES ASSUME NEW n \in Mr, mrs'[n].pc = "live", mrs'[n].type # "dma"
                 PROVE  entry'[mrs'[n].idx] =
                          [mr |-> n, pdn |-> pds'[mrs'[n].pd].pdn, base |-> mrs'[n].base]
      BY DEF M!EntryIsOwners
    <3>1. CASE n = m
      BY <2>1, <2>3, <2>5, <3>1 DEF MrOthersKept
    <3>2. CASE n # m
      <4>1. mrs'[n] = mrs[n] /\ pds' = pds /\ M!Held(n)
        BY <2>1, <3>2 DEF MrOthersKept, M!Held
      <4>2. mrs[n].idx # i /\ mrs[n].idx \in M!Ids
        BY <1>0, <1>i, <2>2, <3>2, <4>1 DEF M!IndexNamesOneMr
      <4> QED
        BY <2>6, <4>1, <4>2 DEF M!EntryIsOwners
    <3> QED
      BY <3>1, <3>2
  <2>8. M!InvalidatedIsCleared'
    <3> SUFFICES ASSUME NEW n \in Mr, mrs'[n].pc = "gone" PROVE entry'[mrs'[n].idx].mr # n
      BY DEF M!InvalidatedIsCleared
    <3>1. n # m /\ mrs'[n] = mrs[n]
      BY <2>1, <2>3 DEF MrOthersKept
    <3>2. CASE mrs[n].idx = i
      BY <2>5, <3>1, <3>2
    <3>3. CASE mrs[n].idx # i
      <4>1. entry'[mrs[n].idx] = entry[mrs[n].idx]
        BY <1>0, <2>1, <3>3
      <4> QED
        BY <3>1, <4>1 DEF M!InvalidatedIsCleared
    <3> QED
      BY <3>2, <3>3
  <2> QED
    BY <2>7, <2>8
<1> QED
  BY <1>1, <1>3, <1>4, <1>5, <1>6, <1>7, <1>8, <1>9, <1>10 DEF M!Next

\* No two regions in use share an index of mr_map, whichever registrations,
\* deregistrations, failed mappings and invalidations run against each other,
\* the release of xrnic_unreg_mr without the lock included.
THEOREM MrIndexNamesOne == MrConstantsOK /\ MrCallers => (M!Spec => []M!IndexNamesOneMr)
<1> SUFFICES ASSUME MrConstantsOK, MrCallers PROVE M!Spec => []M!IndexNamesOneMr
  OBVIOUS
<1>1. M!Init => MrInv
  BY MrInvInit
<1>2. MrInv /\ M!Next => MrInv'
  BY MrInvNext
<1>3. MrInv /\ UNCHANGED M!vars => MrInv'
  BY MrInvStutter
<1>4. MrInv => M!IndexNamesOneMr
  BY DEF MrInv
<1> QED
  BY <1>1, <1>2, <1>3, <1>4, PTL DEF M!Spec

\* The hardware entry of a region in use is its own (its domain's number, its
\* memory), and the entry a peer's invalidated key names does not hold the region
\* any more, whatever was registered, mapped, invalidated or rebased since.
THEOREM MrEntrySound ==
    MrConstantsOK /\ MrCallers /\ "own_key" \in Discipline
        => (M!Spec => [](M!EntryIsOwners /\ M!InvalidatedIsCleared))
<1> SUFFICES ASSUME MrConstantsOK, MrCallers, "own_key" \in Discipline
             PROVE  M!Spec => [](M!EntryIsOwners /\ M!InvalidatedIsCleared)
  OBVIOUS
<1>1. M!Init => MrInv /\ MrEntryInv
  <2>1. M!Init => MrEntryInv
    BY DEF M!Init, MrEntryInv, M!EntryIsOwners, M!InvalidatedIsCleared, M!NoMr
  <2> QED
    BY <2>1, MrInvInit
<1>2. MrInv /\ MrEntryInv /\ M!Next => (MrInv /\ MrEntryInv)'
  BY MrInvNext, MrEntryInvStep
<1>3. MrInv /\ MrEntryInv /\ UNCHANGED M!vars => (MrInv /\ MrEntryInv)'
  <2>1. MrEntryInv /\ UNCHANGED M!vars => MrEntryInv'
    BY DEF M!vars, MrEntryInv, M!EntryIsOwners, M!InvalidatedIsCleared
  <2> QED
    BY <2>1, MrInvStutter
<1>4. MrEntryInv => M!EntryIsOwners /\ M!InvalidatedIsCleared
  BY DEF MrEntryInv
<1> QED
  BY <1>1, <1>2, <1>3, <1>4, PTL DEF M!Spec

\* A behaviour of the memory regions stays one, step by step.
LEMMA MrSteps ==
    ASSUME [Next]_vars
    PROVE  /\ part = "mr" => part' = "mr" /\ [M!Next]_(M!vars)
           /\ part # "mr" => part' # "mr"
<1>1. CASE Next
  BY <1>1 DEF Next
<1>2. CASE UNCHANGED vars
  BY <1>2 DEF vars, mrVars, M!vars
<1> QED
  BY <1>1, <1>2

\* No two regions of the driver that are in use share an index of mr_map, for
\* any number of regions and domains (xib_reg_mr, xib_dereg_mr, xrnic_unreg_mr).
THEOREM DriverIndexNamesOneMr ==
    ASSUME MrConstantsOK, MrCallers
    PROVE  Spec => []IndexNamesOneMr
<1>1. Init /\ part = "mr" => M!Init
  BY DEF Init
<1>2. [Next]_vars => /\ part = "mr" => (part = "mr")' /\ [M!Next]_(M!vars)
                     /\ ~(part = "mr") => ~(part = "mr")'
  BY MrSteps
<1>3. M!Spec => []M!IndexNamesOneMr
  BY MrIndexNamesOne
<1>4. ~(part = "mr") \/ M!IndexNamesOneMr => IndexNamesOneMr
  BY DEF IndexNamesOneMr
<1> QED
  BY <1>1, <1>2, <1>3, <1>4, PTL DEF Spec, M!Spec

\* The entry of the hardware at the index of a region in use is the region's
\* own, and an invalidated key names no entry that still holds its region, when
\* the handshake driver is given keys of live regions (xrnic_reg_mr,
\* xrnic_unreg_mr, hw_hs_mr_rebase).
THEOREM DriverEntrySound ==
    ASSUME MrConstantsOK, MrCallers, "own_key" \in Discipline
    PROVE  Spec => []EntrySound
<1>1. Init /\ part = "mr" => M!Init
  BY DEF Init
<1>2. [Next]_vars => /\ part = "mr" => (part = "mr")' /\ [M!Next]_(M!vars)
                     /\ ~(part = "mr") => ~(part = "mr")'
  BY MrSteps
<1>3. M!Spec => [](M!EntryIsOwners /\ M!InvalidatedIsCleared)
  BY MrEntrySound
<1>4. ~(part = "mr") \/ (M!EntryIsOwners /\ M!InvalidatedIsCleared) => EntrySound
  BY DEF EntrySound
<1> QED
  BY <1>1, <1>2, <1>3, <1>4, PTL DEF Spec, M!Spec
-----------------------------------------------------------------------------
(* The driver of the handshake engine, for any number of QPs, contexts and *)
(* WQE slots and any ring: the engine and the ERNIC agree about the rings  *)
(* they share, and closing the device gives the QPs back.                  *)

\* Context 0 is the one HH_CONFIG binds; None is no context.
HsConstantsOK == 0 \in Ctx /\ H!None \notin Ctx

HsDepths == {H!DepthOf(d) : d \in Depth} \cup {UserDepth, 0}
HsRegs == [hsk : BOOLEAN, cqe : BOOLEAN, pi : Int, depth : HsDepths,
         db : {"driver", "engine"}, base : Base \cup {H!OWN}]
HsContext == [qp : Qp \cup {0}, base : Base \cup {H!OWN}, depth : HsDepths, pi : Int]

HsTypeOK ==
    /\ qp_list \in SUBSET Qp /\ ernic \in [Qp -> HsRegs]
    /\ mutx \in BOOLEAN /\ oops \in BOOLEAN
    /\ ctx \in [Ctx -> [qp_num : Qp \cup {0}, valid : BOOLEAN]]
    /\ eng \in [Ctx -> HsContext]
    /\ wqe \in [Slot -> Ctx \cup {H!None}] /\ run_wqe_idx \in Slot
    /\ round \in {"idle", "started", "sent"}

\* While the device is open the QPs stay, and contexts are valid only then.
HsDeviceInv ==
    /\ mutx => Qp \subseteq qp_list
    /\ \A c \in Ctx : ctx[c].valid => mutx /\ ctx[c].qp_num \in Qp
    /\ ~oops

\* The engine sends on a context that was committed since the last reset.
HsRoundInv == round = "started" => wqe[run_wqe_idx] \in Ctx /\ ctx[wqe[run_wqe_idx]].valid

HsOneContext ==
    \A c, d \in Ctx : ctx[c].valid /\ ctx[d].valid /\ ctx[c].qp_num = ctx[d].qp_num => c = d

\* A QP that no context names is as the RDMA driver set it up.
HsUnboundInv ==
    \A q \in qp_list \ H!Bound :
        ~ernic[q].hsk /\ ernic[q].db = "driver" /\ ernic[q].depth = UserDepth

HsBaseInv == HsTypeOK /\ HsDeviceInv
HsAgreeInv == HsRoundInv /\ HsOneContext /\ H!EngineAndErnicAgree
-----------------------------------------------------------------------------
\* The registers of a QP that is put in the handshake.
LEMMA HsEnabledFacts ==
    ASSUME NEW r \in HsRegs, NEW base \in Base, NEW depth \in HsDepths
    PROVE  /\ H!Enabled(r, base, depth) \in HsRegs /\ H!Enabled(r, base, depth).hsk = TRUE
           /\ H!Enabled(r, base, depth).pi = 0 /\ H!Enabled(r, base, depth).base = base
           /\ H!Enabled(r, base, depth).depth = depth
<1> DEFINE a == [r EXCEPT !.hsk = TRUE, !.cqe = FALSE]
           b == [a EXCEPT !.pi = 0]
           e == H!Enabled(r, base, depth)
<1>1. a \in HsRegs
  BY DEF HsRegs
<1>2. b \in HsRegs
  <2> HIDE DEF a
  <2> QED
    BY <1>1 DEF HsRegs
<1>3. e = [b EXCEPT !.db = "engine", !.depth = depth, !.base = base]
  BY DEF H!Enabled
<1>4. e \in HsRegs
  <2> HIDE DEF b, e
  <2> QED
    BY <1>2, <1>3 DEF HsRegs
<1>5. e.hsk = TRUE /\ e.pi = 0 /\ e.base = base /\ e.depth = depth
  BY DEF HsRegs, H!Enabled
<1> QED
  BY <1>4, <1>5

\* The registers of a QP that is taken out of it.
LEMMA HsDisabledFacts ==
    ASSUME NEW r \in HsRegs
    PROVE  /\ H!Disabled(r) \in HsRegs /\ H!Disabled(r).hsk = FALSE
           /\ H!Disabled(r).db = "driver" /\ H!Disabled(r).depth = UserDepth
<1> DEFINE a == [r EXCEPT !.hsk = FALSE]
           b == [a EXCEPT !.pi = 0]
           e == H!Disabled(r)
<1>1. a \in HsRegs
  BY DEF HsRegs
<1>2. b \in HsRegs
  <2> HIDE DEF a
  <2> QED
    BY <1>1 DEF HsRegs
<1>3. e = [b EXCEPT !.db = "driver", !.depth = UserDepth]
  BY DEF H!Disabled
<1>4. e \in HsRegs
  <2> HIDE DEF b, e
  <2> QED
    BY <1>2, <1>3 DEF HsRegs, HsDepths
<1>5. e.hsk = FALSE /\ e.db = "driver" /\ e.depth = UserDepth
  BY DEF HsRegs, H!Disabled
<1> QED
  BY <1>4, <1>5

\* What hw_hs_qpctx_commit writes: the context, its set in the engine and, on a
\* rebind, the registers of its QP.
LEMMA HsCommitFacts ==
    ASSUME HsTypeOK, NEW c \in Ctx, NEW q \in Qp, NEW base \in Base, NEW d \in Depth,
           NEW rebind \in BOOLEAN, H!hw_hs_qpctx_commit(c, q, base, H!DepthOf(d), rebind)
    PROVE  /\ eng' \in [Ctx -> HsContext] /\ ernic' \in [Qp -> HsRegs]
           /\ ctx' \in [Ctx -> [qp_num : Qp \cup {0}, valid : BOOLEAN]]
           /\ \A x \in Ctx \ {c} : eng'[x] = eng[x] /\ ctx'[x] = ctx[x]
           /\ eng'[c].qp = q /\ eng'[c].base = base /\ eng'[c].depth = H!DepthOf(d)
           /\ eng'[c].pi = IF rebind THEN 0 ELSE eng[c].pi
           /\ ctx'[c].qp_num = q /\ ctx'[c].valid
           /\ \A p \in Qp \ {q} : ernic'[p] = ernic[p]
           /\ IF rebind THEN /\ ernic'[q].hsk /\ ernic'[q].pi = 0 /\ ernic'[q].base = base
                             /\ ernic'[q].depth = H!DepthOf(d)
                        ELSE ernic'[q] = ernic[q]
<1> DEFINE e == [qp |-> q, base |-> base, depth |-> H!DepthOf(d),
                 pi |-> IF rebind THEN 0 ELSE eng[c].pi]
           r == H!Enabled(ernic[q], base, H!DepthOf(d))
           x == [qp_num |-> q, valid |-> TRUE]
<1>0. H!DepthOf(d) \in HsDepths /\ eng \in [Ctx -> HsContext] /\ ernic \in [Qp -> HsRegs]
  BY DEF HsDepths, HsTypeOK
<1>1. e \in HsContext /\ e.qp = q /\ e.base = base /\ e.depth = H!DepthOf(d)
      /\ e.pi = IF rebind THEN 0 ELSE eng[c].pi
  BY <1>0 DEF HsContext
<1>2. r \in HsRegs /\ r.hsk = TRUE /\ r.pi = 0 /\ r.base = base /\ r.depth = H!DepthOf(d)
  <2>1. ernic[q] \in HsRegs
    BY <1>0
  <2> QED
    BY <1>0, <2>1, HsEnabledFacts, Zenon
<1>3. /\ eng' = [eng EXCEPT ![c] = e] /\ ctx' = [ctx EXCEPT ![c] = x]
      /\ ernic' = IF rebind THEN [ernic EXCEPT ![q] = r] ELSE ernic
  BY DEF H!hw_hs_qpctx_commit
<1>4. x \in [qp_num : Qp \cup {0}, valid : BOOLEAN] /\ x.qp_num = q /\ x.valid
  OBVIOUS
<1> HIDE DEF e, r, x
<1> QED
  BY <1>0, <1>1, <1>2, <1>3, <1>4 DEF HsTypeOK

\* A binding of an open device by callers that name an existing QP.
LEMMA HsBaseCommit ==
    ASSUME HsBaseInv, NEW c \in Ctx, NEW q \in Qp, NEW base \in Base, NEW d \in Depth,
           NEW rebind \in BOOLEAN, H!hw_hs_qpctx_commit(c, q, base, H!DepthOf(d), rebind),
           mutx, mutx' = mutx, qp_list' = qp_list, oops' = oops, wqe' = wqe,
           run_wqe_idx' \in Slot, round' \in {"idle", "started", "sent"}
    PROVE  HsBaseInv'
BY HsCommitFacts DEF HsBaseInv, HsTypeOK, HsDeviceInv

\* Taking the QPs out: those that exist lose the handshake, the contexts their
\* validity.
LEMMA HsResetFacts ==
    ASSUME HsBaseInv, H!hh_reset, mutx
    PROVE  /\ ernic' \in [Qp -> HsRegs] /\ oops' = FALSE
           /\ ctx' \in [Ctx -> [qp_num : Qp \cup {0}, valid : BOOLEAN]]
           /\ \A c \in Ctx : ctx'[c].valid = FALSE
           /\ \A q \in Qp : q \in H!Bound => ernic'[q] = H!Disabled(ernic[q])
           /\ \A q \in Qp : ernic'[q] \in {ernic[q], H!Disabled(ernic[q])}
<1>0. /\ ernic \in [Qp -> HsRegs] /\ ~oops
      /\ ctx \in [Ctx -> [qp_num : Qp \cup {0}, valid : BOOLEAN]]
  BY DEF HsBaseInv, HsTypeOK, HsDeviceInv
<1>1. H!Bound \subseteq Qp /\ Qp \subseteq qp_list
  BY DEF HsBaseInv, HsDeviceInv, H!Bound
<1>2. H!ResetQps \subseteq Qp /\ H!Bound \subseteq H!ResetQps
  BY <1>1 DEF H!ResetQps
<1>3. \A r \in HsRegs : H!Disabled(r) \in HsRegs
  BY HsDisabledFacts
<1>4. ernic' = [q \in Qp |-> IF q \in H!ResetQps THEN H!Disabled(ernic[q]) ELSE ernic[q]]
  BY DEF H!hh_reset
<1>5. \A c \in Ctx : ctx'[c] = [ctx[c] EXCEPT !.valid = FALSE]
  BY DEF H!hh_reset
<1>6. ctx' = [c \in Ctx |-> [ctx[c] EXCEPT !.valid = FALSE]] /\ oops' = FALSE
  BY <1>0, <1>1, <1>2 DEF H!hh_reset
<1> QED
  BY <1>0, <1>2, <1>3, <1>4, <1>5, <1>6

\* The types and the state of the device.
LEMMA HsBaseNext ==
    ASSUME HsConstantsOK, "outlive" \in Discipline, HsBaseInv, H!Next
    PROVE  HsBaseInv'
<1>0. ernic \in [Qp -> HsRegs] /\ eng \in [Ctx -> HsContext] /\ H!FreshQp \in HsRegs
  BY DEF HsBaseInv, HsTypeOK, H!FreshQp, HsRegs, HsDepths
<1>1. ASSUME NEW q \in Qp, H!CreateQp(q) \/ H!DestroyQp(q) \/ H!PostOwn(q) PROVE HsBaseInv'
  <2>1. CASE H!CreateQp(q)
    BY <1>0, <2>1 DEF H!CreateQp, HsBaseInv, HsTypeOK, HsDeviceInv
  <2>2. CASE H!DestroyQp(q)
    BY <2>2 DEF H!DestroyQp, H!Calm, HsBaseInv, HsTypeOK, HsDeviceInv
  <2>3. CASE H!PostOwn(q)
    <3>1. [ernic[q] EXCEPT !.pi = @ + 1] \in HsRegs
      BY <1>0 DEF HsRegs
    <3>2. ernic' \in [Qp -> HsRegs]
      BY <1>0, <2>3, <3>1 DEF H!PostOwn
    <3> QED
      BY <2>3, <3>2 DEF H!PostOwn, HsBaseInv, HsTypeOK, HsDeviceInv
  <2> QED
    BY <1>1, <2>1, <2>2, <2>3
<1>2. CASE H!hh_dev_open
  BY <1>2 DEF H!hh_dev_open, H!Calm, HsBaseInv, HsTypeOK, HsDeviceInv
<1>3. CASE H!HH_RESET \/ H!hh_dev_close
  <2>1. H!hh_reset /\ mutx
    BY <1>3 DEF H!HH_RESET, H!hh_dev_close
  <2>2. /\ ernic' \in [Qp -> HsRegs] /\ oops' = FALSE
        /\ ctx' \in [Ctx -> [qp_num : Qp \cup {0}, valid : BOOLEAN]]
        /\ \A c \in Ctx : ctx'[c].valid = FALSE
    BY <2>1, HsResetFacts
  <2>3. /\ mutx' \in BOOLEAN /\ (mutx' => mutx)
        /\ UNCHANGED <<qp_list, rcfg, eng, wqe, run_wqe_idx>> /\ round' = "idle"
    BY <1>3 DEF H!HH_RESET, H!hh_dev_close, H!hh_reset, HsBaseInv, HsTypeOK
  <2> QED
    BY <2>2, <2>3 DEF HsBaseInv, HsTypeOK, HsDeviceInv
<1>4. ASSUME NEW c \in Ctx, NEW q \in Qp, NEW b \in Base, NEW d \in Depth, NEW r \in BOOLEAN,
             H!HH_QPCTX_COMMIT(c, q, b, d, r)
      PROVE  HsBaseInv'
  <2>1. run_wqe_idx' \in Slot /\ round' \in {"idle", "started", "sent"}
    BY <1>4 DEF H!HH_QPCTX_COMMIT, HsBaseInv, HsTypeOK
  <2> QED
    BY <1>4, <2>1, HsBaseCommit DEF H!HH_QPCTX_COMMIT
<1>5. ASSUME NEW q \in Qp, NEW b \in Base, NEW d \in Depth, NEW n \in 0 .. 1, NEW i \in Slot,
             H!HH_CONFIG(q, b, d, n, i)
      PROVE  HsBaseInv'
  BY <1>5, HsBaseCommit DEF H!HH_CONFIG, HsConstantsOK
<1>6. ASSUME NEW i \in Slot, NEW cfg \in BOOLEAN, H!ConfigRefused(i, cfg) PROVE HsBaseInv'
  BY <1>6 DEF H!ConfigRefused, HsBaseInv, HsTypeOK, HsDeviceInv
<1>7. ASSUME NEW s \in Slot, H!HH_SET_WQE_IDX(s) \/ \E c \in Ctx : H!HH_WQE_COMMIT(s, c)
      PROVE  HsBaseInv'
  BY <1>7 DEF H!HH_SET_WQE_IDX, H!HH_WQE_COMMIT, HsBaseInv, HsTypeOK, HsDeviceInv
<1>8. CASE H!HH_START \/ H!HH_ABORT \/ H!EngineDone
  BY <1>8 DEF H!HH_START, H!HH_ABORT, H!EngineDone, HsBaseInv, HsTypeOK, HsDeviceInv
<1>9. CASE H!EngineSends
  <2> DEFINE c == wqe[run_wqe_idx]
             q == eng[c].qp
  <2>1. c \in Ctx /\ q \in Qp \cup {0} /\ eng[c].pi \in Int
    BY <1>0, <1>9 DEF H!EngineSends, HsBaseInv, HsTypeOK, HsContext
  <2>2. [eng[c] EXCEPT !.pi = @ + 1] \in HsContext
    BY <1>0, <2>1 DEF HsContext
  <2>3. eng' \in [Ctx -> HsContext]
    BY <1>0, <1>9, <2>2 DEF H!EngineSends
  <2>4. \A p \in Qp : [ernic[p] EXCEPT !.pi = eng[c].pi + 1] \in HsRegs
    BY <1>0, <2>1 DEF HsRegs
  <2>5. ernic' \in [Qp -> HsRegs]
    BY <1>0, <1>9, <2>1, <2>4 DEF H!EngineSends
  <2> QED
    BY <1>9, <2>3, <2>5 DEF H!EngineSends, HsBaseInv, HsTypeOK, HsDeviceInv
<1> QED
  BY <1>1, <1>2, <1>3, <1>4, <1>5, <1>6, <1>7, <1>8, <1>9 DEF H!Next

\* The contexts, the engine and the rings are left alone.
LEMMA HsAgreeKept ==
    ASSUME HsAgreeInv, UNCHANGED <<ctx, eng, ernic>>,
           round' = "started" => round = "started" /\ UNCHANGED <<wqe, run_wqe_idx>>
    PROVE  HsAgreeInv'
<1>1. HsRoundInv'
  BY DEF HsAgreeInv, HsRoundInv
<1>2. HsOneContext'
  BY DEF HsAgreeInv, HsOneContext
<1>3. H!EngineAndErnicAgree'
  BY DEF HsAgreeInv, H!EngineAndErnicAgree
<1> QED
  BY <1>1, <1>2, <1>3 DEF HsAgreeInv

\* A binding by callers that keep QPs and rings apart and, without a rebind,
\* leave the set as it is.
LEMMA HsAgreeCommit ==
    ASSUME HsBaseInv, HsAgreeInv, {"distinct", "keep"} \subseteq Discipline,
           NEW c \in Ctx, NEW q \in Qp, NEW base \in Base, NEW d \in Depth,
           NEW rebind \in BOOLEAN, H!hw_hs_qpctx_commit(c, q, base, H!DepthOf(d), rebind),
           H!CallersAgree(c, q, base, H!DepthOf(d), rebind), round' = "idle"
    PROVE  HsAgreeInv'
<1>1. /\ \A x \in Ctx \ {c} : eng'[x] = eng[x] /\ ctx'[x] = ctx[x]
      /\ eng'[c].qp = q /\ eng'[c].base = base /\ eng'[c].depth = H!DepthOf(d)
      /\ eng'[c].pi = IF rebind THEN 0 ELSE eng[c].pi
      /\ ctx'[c].qp_num = q /\ ctx'[c].valid
      /\ \A p \in Qp \ {q} : ernic'[p] = ernic[p]
      /\ IF rebind THEN /\ ernic'[q].hsk /\ ernic'[q].pi = 0 /\ ernic'[q].base = base
                        /\ ernic'[q].depth = H!DepthOf(d)
                   ELSE ernic'[q] = ernic[q]
  BY HsCommitFacts DEF HsBaseInv
<1>2. /\ \A x \in Ctx \ {c} : ~(ctx[x].valid /\ ctx[x].qp_num = q)
      /\ ~rebind => /\ ctx[c].valid /\ eng[c].qp = q /\ eng[c].base = base
                    /\ eng[c].depth = H!DepthOf(d)
  BY DEF H!CallersAgree, H!Calm
<1>3. \A x \in Ctx : ctx[x].valid => ctx[x].qp_num \in Qp
  BY DEF HsBaseInv, HsDeviceInv
<1>4. HsRoundInv'
  BY DEF HsRoundInv
<1>5. HsOneContext'
  BY <1>1, <1>2 DEF HsAgreeInv, HsOneContext
<1>6. H!EngineAndErnicAgree'
  <2> SUFFICES ASSUME NEW x \in Ctx, ctx'[x].valid
               PROVE  /\ ernic'[ctx'[x].qp_num].hsk
                      /\ eng'[x].qp = ctx'[x].qp_num
                      /\ eng'[x].base = ernic'[ctx'[x].qp_num].base
                      /\ eng'[x].depth = ernic'[ctx'[x].qp_num].depth
                      /\ eng'[x].pi = ernic'[ctx'[x].qp_num].pi
    BY DEF H!EngineAndErnicAgree
  <2>1. CASE x # c
    BY <1>1, <1>2, <1>3, <2>1 DEF HsAgreeInv, H!EngineAndErnicAgree
  <2>2. CASE x = c /\ rebind
    BY <1>1, <2>2
  <2>3. CASE x = c /\ ~rebind
    BY <1>1, <1>2, <2>3 DEF HsAgreeInv, H!EngineAndErnicAgree
  <2> QED
    BY <2>1, <2>2, <2>3
<1> QED
  BY <1>4, <1>5, <1>6 DEF HsAgreeInv

\* The engine sends on a valid context: it moves its own index and that of the
\* ERNIC, and no other context is on that QP.
LEMMA HsAgreeSends ==
    ASSUME HsBaseInv, HsAgreeInv, H!EngineSends
    PROVE  HsAgreeInv'
<1> DEFINE c == wqe[run_wqe_idx]
<1>1. c \in Ctx /\ ctx[c].valid /\ eng[c].qp = ctx[c].qp_num /\ ctx[c].qp_num \in Qp
  BY DEF H!EngineSends, HsAgreeInv, HsRoundInv, H!EngineAndErnicAgree, HsBaseInv, HsDeviceInv
<1>2. PICK q \in Qp : q = ctx[c].qp_num
  BY <1>1
<1>3. PICK k : k = c
  OBVIOUS
<1>4. ernic \in [Qp -> HsRegs] /\ eng \in [Ctx -> HsContext]
  BY DEF HsBaseInv, HsTypeOK
<1>5. /\ ernic' = [ernic EXCEPT ![q].pi = eng[k].pi + 1]
      /\ eng' = [eng EXCEPT ![k].pi = @ + 1]
      /\ UNCHANGED ctx /\ round' = "sent"
  BY <1>1, <1>2, <1>3 DEF H!EngineSends
<1>6. /\ eng'[k].pi = eng[k].pi + 1 /\ eng'[k].qp = eng[k].qp /\ eng'[k].base = eng[k].base
      /\ eng'[k].depth = eng[k].depth
      /\ \A x \in Ctx \ {k} : eng'[x] = eng[x]
  BY <1>1, <1>3, <1>4, <1>5 DEF HsContext
<1>7. /\ ernic'[q].pi = eng[k].pi + 1 /\ ernic'[q].hsk = ernic[q].hsk
      /\ ernic'[q].base = ernic[q].base /\ ernic'[q].depth = ernic[q].depth
      /\ \A p \in Qp \ {q} : ernic'[p] = ernic[p]
  BY <1>4, <1>5 DEF HsRegs
<1>8. \A x \in Ctx \ {k} : ctx[x].valid => ctx[x].qp_num \in Qp \ {q}
  BY <1>1, <1>2, <1>3 DEF HsAgreeInv, HsOneContext, HsBaseInv, HsDeviceInv
<1>9. H!EngineAndErnicAgree'
  <2> SUFFICES ASSUME NEW x \in Ctx, ctx[x].valid
               PROVE  /\ ernic'[ctx[x].qp_num].hsk
                      /\ eng'[x].qp = ctx[x].qp_num
                      /\ eng'[x].base = ernic'[ctx[x].qp_num].base
                      /\ eng'[x].depth = ernic'[ctx[x].qp_num].depth
                      /\ eng'[x].pi = ernic'[ctx[x].qp_num].pi
    BY <1>5 DEF H!EngineAndErnicAgree
  <2>1. CASE x # k
    BY <1>6, <1>7, <1>8, <2>1 DEF HsAgreeInv, H!EngineAndErnicAgree
  <2>2. CASE x = k
    BY <1>1, <1>2, <1>3, <1>6, <1>7, <2>2 DEF HsAgreeInv, H!EngineAndErnicAgree
  <2> QED
    BY <2>1, <2>2
<1>10. HsRoundInv' /\ HsOneContext'
  BY <1>5 DEF HsAgreeInv, HsRoundInv, HsOneContext
<1> QED
  BY <1>9, <1>10 DEF HsAgreeInv

\* Every step keeps the engine and the ERNIC in agreement.
LEMMA HsAgreeNext ==
    ASSUME HsConstantsOK,
           {"outlive", "distinct", "keep", "settled", "fresh"} \subseteq Discipline,
           HsBaseInv, HsAgreeInv, H!Next
    PROVE  HsAgreeInv'
<1>1. ASSUME NEW q \in Qp, H!CreateQp(q) \/ H!DestroyQp(q) \/ H!PostOwn(q) PROVE HsAgreeInv'
  <2>1. CASE H!CreateQp(q)
    <3>1. \A c \in Ctx : ~ctx[c].valid
      BY <2>1 DEF H!CreateQp, HsBaseInv, HsDeviceInv
    <3> QED
      BY <2>1, <3>1 DEF H!CreateQp, HsAgreeInv, HsRoundInv, HsOneContext, H!EngineAndErnicAgree
  <2>2. CASE H!DestroyQp(q)
    BY <2>2, HsAgreeKept DEF H!DestroyQp
  <2>3. CASE H!PostOwn(q)
    <3>1. /\ \A p \in Qp \ {q} : ernic'[p] = ernic[p]
          /\ UNCHANGED <<ctx, eng, wqe, run_wqe_idx, round>>
      BY <2>3 DEF H!PostOwn, HsBaseInv, HsTypeOK
    <3>2. \A c \in Ctx : ctx[c].valid => ctx[c].qp_num \in Qp \ {q}
      BY <2>3 DEF H!PostOwn, HsBaseInv, HsDeviceInv, HsAgreeInv, H!EngineAndErnicAgree
    <3>3. H!EngineAndErnicAgree'
      BY <3>1, <3>2 DEF HsAgreeInv, H!EngineAndErnicAgree
    <3> QED
      BY <3>1, <3>3 DEF HsAgreeInv, HsRoundInv, HsOneContext
  <2> QED
    BY <1>1, <2>1, <2>2, <2>3
<1>2. CASE H!hh_dev_open \/ H!HH_ABORT \/ H!EngineDone
  BY <1>2, HsAgreeKept DEF H!hh_dev_open, H!HH_ABORT, H!EngineDone
<1>3. CASE H!HH_RESET \/ H!hh_dev_close
  <2>1. round' = "idle" /\ \A c \in Ctx : ctx'[c].valid = FALSE
    BY <1>3, HsResetFacts DEF H!HH_RESET, H!hh_dev_close, H!hh_reset
  <2> QED
    BY <2>1 DEF HsAgreeInv, HsRoundInv, HsOneContext, H!EngineAndErnicAgree
<1>4. ASSUME NEW c \in Ctx, NEW q \in Qp, NEW b \in Base, NEW d \in Depth, NEW r \in BOOLEAN,
             H!HH_QPCTX_COMMIT(c, q, b, d, r)
      PROVE  HsAgreeInv'
  BY <1>4, HsAgreeCommit DEF H!HH_QPCTX_COMMIT, H!Calm
<1>5. ASSUME NEW q \in Qp, NEW b \in Base, NEW d \in Depth, NEW n \in 0 .. 1, NEW i \in Slot,
             H!HH_CONFIG(q, b, d, n, i)
      PROVE  HsAgreeInv'
  BY <1>5, HsAgreeCommit DEF H!HH_CONFIG, HsConstantsOK
<1>6. ASSUME NEW i \in Slot, NEW cfg \in BOOLEAN, H!ConfigRefused(i, cfg) PROVE HsAgreeInv'
  BY <1>6, HsAgreeKept DEF H!ConfigRefused, H!Calm
<1>7. ASSUME NEW s \in Slot, H!HH_SET_WQE_IDX(s) \/ \E c \in Ctx : H!HH_WQE_COMMIT(s, c)
      PROVE  HsAgreeInv'
  BY <1>7, HsAgreeKept DEF H!HH_SET_WQE_IDX, H!HH_WQE_COMMIT, H!Calm
<1>8. CASE H!HH_START
  <2>1. HsRoundInv'
    BY <1>8 DEF H!HH_START, H!Calm, HsRoundInv, HsBaseInv, HsTypeOK
  <2> QED
    BY <1>8, <2>1 DEF H!HH_START, HsAgreeInv, HsOneContext, H!EngineAndErnicAgree
<1>9. CASE H!EngineSends
  BY <1>9, HsAgreeSends
<1> QED
  BY <1>1, <1>2, <1>3, <1>4, <1>5, <1>6, <1>7, <1>8, <1>9 DEF H!Next

\* Every step leaves the QPs that no context names to the RDMA driver, when a
\* context is rebound to another QP only after a reset.
LEMMA HsUnboundNext ==
    ASSUME HsConstantsOK, {"outlive", "one_qp"} \subseteq Discipline, HsBaseInv,
           HsUnboundInv, H!Next
    PROVE  HsUnboundInv'
<1> DEFINE Own(r) == ~r.hsk /\ r.db = "driver" /\ r.depth = UserDepth
<1>0. /\ ernic \in [Qp -> HsRegs] /\ eng \in [Ctx -> HsContext] /\ qp_list \subseteq Qp
      /\ \A q \in qp_list : q \in H!Bound \/ Own(ernic[q])
  BY DEF HsBaseInv, HsTypeOK, HsUnboundInv
<1>1. ASSUME NEW q \in Qp, H!CreateQp(q) \/ H!DestroyQp(q) \/ H!PostOwn(q) PROVE HsUnboundInv'
  <2>0. H!Bound' = H!Bound
    BY <1>1 DEF H!Bound, H!CreateQp, H!DestroyQp, H!PostOwn
  <2>1. CASE H!CreateQp(q)
    <3>1. Own(H!FreshQp)
      BY DEF H!FreshQp
    <3>2. ernic'[q] = H!FreshQp /\ (\A p \in Qp \ {q} : ernic'[p] = ernic[p])
      BY <1>0, <2>1 DEF H!CreateQp
    <3>3. qp_list' = qp_list \cup {q}
      BY <2>1 DEF H!CreateQp
    <3> QED
      BY <1>0, <2>0, <3>1, <3>2, <3>3 DEF HsUnboundInv
  <2>2. CASE H!DestroyQp(q)
    BY <1>0, <2>0, <2>2 DEF H!DestroyQp, HsUnboundInv
  <2>3. CASE H!PostOwn(q)
    <3>1. \A p \in Qp : /\ ernic'[p].hsk = ernic[p].hsk /\ ernic'[p].db = ernic[p].db
                        /\ ernic'[p].depth = ernic[p].depth
      BY <1>0, <2>3 DEF H!PostOwn, HsRegs
    <3>2. qp_list' = qp_list
      BY <2>3 DEF H!PostOwn
    <3> QED
      BY <1>0, <2>0, <3>1, <3>2 DEF HsUnboundInv
  <2> QED
    BY <1>1, <2>1, <2>2, <2>3
<1>2. ASSUME UNCHANGED <<qp_list, ernic, ctx>> PROVE HsUnboundInv'
  <2>1. H!Bound' = H!Bound
    BY <1>2 DEF H!Bound
  <2> QED
    BY <1>0, <1>2, <2>1 DEF HsUnboundInv
<1>3. CASE H!HH_RESET \/ H!hh_dev_close
  <2>1. /\ \A q \in Qp : q \in H!Bound => ernic'[q] = H!Disabled(ernic[q])
        /\ \A q \in Qp : ernic'[q] \in {ernic[q], H!Disabled(ernic[q])}
        /\ qp_list' = qp_list
    BY <1>3, HsResetFacts DEF H!HH_RESET, H!hh_dev_close, H!hh_reset
  <2>2. \A q \in Qp : Own(H!Disabled(ernic[q]))
    BY <1>0, HsDisabledFacts
  <2>3. \A q \in qp_list : Own(ernic'[q])
    BY <1>0, <2>1, <2>2
  <2> QED
    BY <2>1, <2>3 DEF HsUnboundInv
<1>4. ASSUME NEW c \in Ctx, NEW q \in Qp, NEW b \in Base, NEW d \in Depth, NEW r \in BOOLEAN,
             H!hw_hs_qpctx_commit(c, q, b, H!DepthOf(d), r),
             H!CallersAgree(c, q, b, H!DepthOf(d), r),
             qp_list' = qp_list
      PROVE  HsUnboundInv'
  <2>1. /\ \A x \in Ctx \ {c} : ctx'[x] = ctx[x]
        /\ ctx'[c].qp_num = q /\ ctx'[c].valid
        /\ \A p \in Qp \ {q} : ernic'[p] = ernic[p]
    BY <1>4, HsCommitFacts DEF HsBaseInv
  <2>2. ctx[c].valid => ctx[c].qp_num = q
    BY <1>4 DEF H!CallersAgree, H!Calm
  <2>3. q \in H!Bound' /\ \A p \in H!Bound : p \in H!Bound'
    BY <2>1, <2>2 DEF H!Bound
  <2> QED
    BY <1>0, <1>4, <2>1, <2>3 DEF HsUnboundInv
<1>5. ASSUME NEW c \in Ctx, NEW q \in Qp, NEW b \in Base, NEW d \in Depth, NEW r \in BOOLEAN,
             H!HH_QPCTX_COMMIT(c, q, b, d, r)
      PROVE  HsUnboundInv'
  BY <1>4, <1>5 DEF H!HH_QPCTX_COMMIT
<1>6. ASSUME NEW q \in Qp, NEW b \in Base, NEW d \in Depth, NEW n \in 0 .. 1, NEW i \in Slot,
             H!HH_CONFIG(q, b, d, n, i)
      PROVE  HsUnboundInv'
  BY <1>4, <1>6 DEF H!HH_CONFIG, HsConstantsOK
<1>7. CASE \/ H!hh_dev_open \/ H!HH_START \/ H!HH_ABORT \/ H!EngineDone
           \/ \E i \in Slot, cfg \in BOOLEAN : H!ConfigRefused(i, cfg)
           \/ \E s \in Slot, c \in Ctx : H!HH_WQE_COMMIT(s, c)
           \/ \E s \in Slot : H!HH_SET_WQE_IDX(s)
  BY <1>2, <1>7 DEF H!hh_dev_open, H!HH_START, H!HH_ABORT, H!EngineDone, H!ConfigRefused,
                    H!HH_WQE_COMMIT, H!HH_SET_WQE_IDX
<1>8. CASE H!EngineSends
  <2>1. PICK k \in Ctx : k = wqe[run_wqe_idx]
    BY <1>8 DEF H!EngineSends, HsBaseInv, HsTypeOK
  <2>2. PICK q \in Qp : q = eng[k].qp
    BY <1>0, <1>8, <2>1 DEF H!EngineSends, HsContext
  <2>3. ernic' = [ernic EXCEPT ![q].pi = eng[k].pi + 1] /\ UNCHANGED <<qp_list, ctx>>
    BY <1>8, <2>1, <2>2 DEF H!EngineSends
  <2>4. \A p \in Qp : /\ ernic'[p].hsk = ernic[p].hsk /\ ernic'[p].db = ernic[p].db
                      /\ ernic'[p].depth = ernic[p].depth
    BY <1>0, <2>3 DEF HsRegs
  <2>5. H!Bound' = H!Bound
    BY <2>3 DEF H!Bound
  <2> QED
    BY <1>0, <2>3, <2>4, <2>5 DEF HsUnboundInv
<1> QED
  BY <1>1, <1>3, <1>5, <1>6, <1>7, <1>8 DEF H!Next
-----------------------------------------------------------------------------
\* The invariants hold at the start: there are no QPs and no valid contexts.
LEMMA HsInit ==
    ASSUME HsConstantsOK, H!Init
    PROVE  HsBaseInv /\ HsAgreeInv /\ HsUnboundInv
<1>1. H!FreshQp \in HsRegs
  BY DEF H!FreshQp, HsRegs, HsDepths
<1>2. [qp |-> 0, base |-> H!OWN, depth |-> 0, pi |-> 0] \in HsContext
  BY DEF HsContext, HsDepths
<1>3. HsTypeOK
  BY <1>1, <1>2 DEF H!Init, HsTypeOK
<1>4. HsDeviceInv
  BY DEF H!Init, HsDeviceInv
<1>5. HsAgreeInv
  BY DEF H!Init, HsAgreeInv, HsRoundInv, HsOneContext, H!EngineAndErnicAgree
<1>6. HsUnboundInv
  BY DEF H!Init, HsUnboundInv
<1> QED
  BY <1>3, <1>4, <1>5, <1>6 DEF HsBaseInv

\* A step that changes nothing keeps them.
LEMMA HsStutter ==
    ASSUME UNCHANGED H!vars
    PROVE  /\ HsBaseInv => HsBaseInv'
           /\ HsAgreeInv => HsAgreeInv'
           /\ HsUnboundInv => HsUnboundInv'
<1>1. HsBaseInv => HsBaseInv'
  BY DEF H!vars, HsBaseInv, HsTypeOK, HsDeviceInv
<1>2. HsAgreeInv => HsAgreeInv'
  BY HsAgreeKept DEF H!vars
<1>3. HsUnboundInv => HsUnboundInv'
  BY DEF H!vars, HsUnboundInv, H!Bound
<1> QED
  BY <1>1, <1>2, <1>3

\* Once the device is closed no context is valid, so no QP is in the handshake.
LEMMA HsClosedFollows ==
    ASSUME HsBaseInv, HsUnboundInv
    PROVE  H!ClosedRestoresQps
BY DEF HsBaseInv, HsDeviceInv, HsUnboundInv, H!Bound, H!ClosedRestoresQps

\* While a QP is in the handshake the engine and the ERNIC agree about its
\* ring, for any number of contexts, as long as callers keep QPs and rings of
\* contexts apart, change the sets only between rounds and start a round on a
\* context committed since the last reset (hw_hs.c).
THEOREM HsAgree ==
    ASSUME HsConstantsOK,
           {"outlive", "distinct", "keep", "settled", "fresh"} \subseteq Discipline
    PROVE  H!Spec => []H!EngineAndErnicAgree
<1>1. H!Init => HsBaseInv /\ HsAgreeInv
  BY HsInit
<1>2. HsBaseInv /\ HsAgreeInv /\ [H!Next]_(H!vars) => HsBaseInv' /\ HsAgreeInv'
  BY HsBaseNext, HsAgreeNext, HsStutter
<1>3. HsBaseInv /\ HsAgreeInv => H!EngineAndErnicAgree
  BY DEF HsAgreeInv
<1> QED
  BY <1>1, <1>2, <1>3, PTL DEF H!Spec

\* Closing the device takes every QP out of the handshake and follows none
\* that does not exist, as long as a context is rebound to another QP only
\* after a reset and the QPs outlive the open device (hh_reset, setup_qps).
THEOREM HsClosedRestores ==
    ASSUME HsConstantsOK, {"outlive", "one_qp"} \subseteq Discipline
    PROVE  H!Spec => []H!ClosedRestoresQps
<1>1. H!Init => HsBaseInv /\ HsUnboundInv
  BY HsInit
<1>2. HsBaseInv /\ HsUnboundInv /\ [H!Next]_(H!vars) => HsBaseInv' /\ HsUnboundInv'
  BY HsBaseNext, HsUnboundNext, HsStutter
<1>3. HsBaseInv /\ HsUnboundInv => H!ClosedRestoresQps
  BY HsClosedFollows
<1> QED
  BY <1>1, <1>2, <1>3, PTL DEF H!Spec

\* A behaviour of the handshake driver stays one, step by step.
LEMMA HsSteps ==
    ASSUME [Next]_vars
    PROVE  /\ part = "hs" => part' = "hs" /\ [H!Next]_(H!vars)
           /\ part # "hs" => part' # "hs"
<1>1. CASE Next
  BY <1>1 DEF Next
<1>2. CASE UNCHANGED vars
  BY <1>2 DEF vars, hsVars, H!vars
<1> QED
  BY <1>1, <1>2

\* The handshake engine and the ERNIC agree about the ring of every QP that is
\* bound to a context, for any number of QPs and contexts (hw_hs_qpctx_commit,
\* hh_reset), with callers that keep the contexts apart and settled.
THEOREM DriverEngineAndErnicAgree ==
    ASSUME HsConstantsOK,
           {"outlive", "distinct", "keep", "settled", "fresh"} \subseteq Discipline
    PROVE  Spec => []EngineAndErnicAgree
<1>1. Init /\ part = "hs" => H!Init
  BY DEF Init
<1>2. [Next]_vars => /\ part = "hs" => (part = "hs")' /\ [H!Next]_(H!vars)
                     /\ ~(part = "hs") => ~(part = "hs")'
  BY HsSteps
<1>3. H!Spec => []H!EngineAndErnicAgree
  BY HsAgree
<1>4. ~(part = "hs") \/ H!EngineAndErnicAgree => EngineAndErnicAgree
  BY DEF EngineAndErnicAgree
<1> QED
  BY <1>1, <1>2, <1>3, <1>4, PTL DEF Spec, H!Spec

\* When the handshake device is closed no QP is left in the handshake, and no
\* reset has followed a QP that does not exist (hh_dev_close, hh_reset), when a
\* context changes its QP only after a reset and the QPs outlive the device.
THEOREM DriverClosedRestoresQps ==
    ASSUME HsConstantsOK, {"outlive", "one_qp"} \subseteq Discipline
    PROVE  Spec => []ClosedRestoresQps
<1>1. Init /\ part = "hs" => H!Init
  BY DEF Init
<1>2. [Next]_vars => /\ part = "hs" => (part = "hs")' /\ [H!Next]_(H!vars)
                     /\ ~(part = "hs") => ~(part = "hs")'
  BY HsSteps
<1>3. H!Spec => []H!ClosedRestoresQps
  BY HsClosedRestores
<1>4. ~(part = "hs") \/ H!ClosedRestoresQps => ClosedRestoresQps
  BY DEF ClosedRestoresQps
<1> QED
  BY <1>1, <1>2, <1>3, <1>4, PTL DEF Spec, H!Spec
-----------------------------------------------------------------------------
(* Priority flow control: five fields of PAUSE_CONF, two of each offset.     *)

\* What the show of a file makes of its register.
ShownIn(v, a) ==
    CASE a \in {"roce_en", "non_roce_en"} -> P!EnableShown(v, a)
      [] a \in {"roce_prio", "non_roce_prio"} -> P!PriorityShown(v, a)
      [] a \in {"roce_xon", "non_roce_xon"} -> P!XonShown(v)
      [] a \in {"roce_xoff", "non_roce_xoff"} -> P!XoffShown(v)
      [] OTHER -> P!CheckShown(v)

\* Value u of PAUSE_CONF is value v with field a set to x.
ConfWith(u, v, a, x) ==
    /\ u \in Nat
    /\ u % 2 = IF a = "roce_en" THEN x ELSE v % 2
    /\ (u \div 2) % 2 = IF a = "non_roce_en" THEN x ELSE (v \div 2) % 2
    /\ (u \div 16) % 16 = IF a = "roce_prio" THEN x ELSE (v \div 16) % 16
    /\ (u \div 256) % 16 = IF a = "non_roce_prio" THEN x ELSE (v \div 256) % 16
    /\ (u \div 8192) % 2 = IF a = "dis_prio_check" THEN x ELSE (v \div 8192) % 2

\* Value u of an offset register is value v with field a set to x.
OffsetWith(u, v, a, x) ==
    /\ u \in Nat
    /\ u % 65536 = IF a \in {"roce_xon", "non_roce_xon"} THEN x ELSE v % 65536
    /\ u \div 65536 = IF a \in {"roce_xoff", "non_roce_xoff"} THEN x ELSE v \div 65536

\* A store of roce_en writes its field of PAUSE_CONF and keeps the others.
LEMMA WritesRoceEn ==
    ASSUME NEW v \in Nat, NEW x \in 0 .. 1
    PROVE  ConfWith(P!Stored(v, "roce_en", x), v, "roce_en", x)
<1>1. PICK u : u = P!Stored(v, "roce_en", x)
  OBVIOUS
<1>2. u = v + (x - (v % 2))
  <2>1. /\ 2^0 = 1 /\ 2^1 = 2 /\ 2^4 = 16 /\ 2^8 = 256 /\ 2^13 = 8192
        /\ v \div 1 = v
    OBVIOUS
  <2> QED
    BY <1>1, <2>1 DEF P!Stored, P!EnBit, P!EnableStored, P!PrioBit, P!PriorityStored,
                      P!CheckStored, P!Field, P!WithField
<1>3. u \in Nat /\ u % 2 = x
  BY <1>2
<1>4. (u \div 2) % 2 = (v \div 2) % 2
  BY <1>2
<1>5. (u \div 16) % 16 = (v \div 16) % 16
  BY <1>2
<1>6. (u \div 256) % 16 = (v \div 256) % 16
  BY <1>2
<1>7. (u \div 8192) % 2 = (v \div 8192) % 2
  BY <1>2
<1> QED
  BY <1>1, <1>3, <1>4, <1>5, <1>6, <1>7 DEF ConfWith

\* A store of non_roce_en writes its field of PAUSE_CONF and keeps the others.
LEMMA WritesNonRoceEn ==
    ASSUME NEW v \in Nat, NEW x \in 0 .. 1
    PROVE  ConfWith(P!Stored(v, "non_roce_en", x), v, "non_roce_en", x)
<1>1. PICK u : u = P!Stored(v, "non_roce_en", x)
  OBVIOUS
<1>2. u = v + ((x - ((v \div 2) % 2)) * 2)
  <2>1. /\ 2^0 = 1 /\ 2^1 = 2 /\ 2^4 = 16 /\ 2^8 = 256 /\ 2^13 = 8192
        /\ v \div 1 = v
    OBVIOUS
  <2> QED
    BY <1>1, <2>1 DEF P!Stored, P!EnBit, P!EnableStored, P!PrioBit, P!PriorityStored,
                      P!CheckStored, P!Field, P!WithField
<1>3. u \in Nat /\ (u \div 2) % 2 = x
  BY <1>2
<1>4. u % 2 = v % 2
  BY <1>2
<1>5. (u \div 16) % 16 = (v \div 16) % 16
  BY <1>2
<1>6. (u \div 256) % 16 = (v \div 256) % 16
  BY <1>2
<1>7. (u \div 8192) % 2 = (v \div 8192) % 2
  BY <1>2
<1> QED
  BY <1>1, <1>3, <1>4, <1>5, <1>6, <1>7 DEF ConfWith

\* A store of roce_prio writes its field of PAUSE_CONF and keeps the others.
LEMMA WritesRocePrio ==
    ASSUME NEW v \in Nat, NEW x \in 0 .. 15
    PROVE  ConfWith(P!Stored(v, "roce_prio", x), v, "roce_prio", x)
<1>1. PICK u : u = P!Stored(v, "roce_prio", x)
  OBVIOUS
<1>2. u = v + ((x - ((v \div 16) % 16)) * 16)
  <2>1. /\ 2^0 = 1 /\ 2^1 = 2 /\ 2^4 = 16 /\ 2^8 = 256 /\ 2^13 = 8192
        /\ v \div 1 = v
    OBVIOUS
  <2> QED
    BY <1>1, <2>1 DEF P!Stored, P!EnBit, P!EnableStored, P!PrioBit, P!PriorityStored,
                      P!CheckStored, P!Field, P!WithField
<1>3. u \in Nat /\ (u \div 16) % 16 = x
  BY <1>2
<1>4. u % 2 = v % 2
  BY <1>2
<1>5. (u \div 2) % 2 = (v \div 2) % 2
  BY <1>2
<1>6. u \div 256 = v \div 256
  BY <1>2
<1>7. (u \div 8192) % 2 = (v \div 8192) % 2
  <2>1. u \div 8192 = (u \div 256) \div 32 /\ v \div 8192 = (v \div 256) \div 32
    BY <1>3
  <2> QED
    BY <1>6, <2>1
<1> QED
  BY <1>1, <1>3, <1>4, <1>5, <1>6, <1>7 DEF ConfWith

\* A store of non_roce_prio writes its field of PAUSE_CONF and keeps the others.
LEMMA WritesNonRocePrio ==
    ASSUME NEW v \in Nat, NEW x \in 0 .. 15
    PROVE  ConfWith(P!Stored(v, "non_roce_prio", x), v, "non_roce_prio", x)
<1>1. PICK u : u = P!Stored(v, "non_roce_prio", x)
  OBVIOUS
<1>2. u = v + ((x - ((v \div 256) % 16)) * 256)
  <2>1. /\ 2^0 = 1 /\ 2^1 = 2 /\ 2^4 = 16 /\ 2^8 = 256 /\ 2^13 = 8192
        /\ v \div 1 = v
    OBVIOUS
  <2> QED
    BY <1>1, <2>1 DEF P!Stored, P!EnBit, P!EnableStored, P!PrioBit, P!PriorityStored,
                      P!CheckStored, P!Field, P!WithField
<1>3. u \in Nat /\ (u \div 256) % 16 = x
  BY <1>2
<1>4. u % 2 = v % 2
  BY <1>2
<1>5. (u \div 2) % 2 = (v \div 2) % 2
  BY <1>2
<1>6. (u \div 16) % 16 = (v \div 16) % 16
  BY <1>2
<1>7. (u \div 8192) % 2 = (v \div 8192) % 2
  BY <1>2, SMTT(20)
<1> QED
  BY <1>1, <1>3, <1>4, <1>5, <1>6, <1>7 DEF ConfWith

\* A store of dis_prio_check writes its field of PAUSE_CONF and keeps the others.
LEMMA WritesCheck ==
    ASSUME NEW v \in Nat, NEW x \in 0 .. 1
    PROVE  ConfWith(P!Stored(v, "dis_prio_check", x), v, "dis_prio_check", x)
<1>1. PICK u : u = P!Stored(v, "dis_prio_check", x)
  OBVIOUS
<1>2. u = v + ((x - ((v \div 8192) % 2)) * 8192)
  <2>1. /\ 2^0 = 1 /\ 2^1 = 2 /\ 2^4 = 16 /\ 2^8 = 256 /\ 2^13 = 8192
        /\ v \div 1 = v
    OBVIOUS
  <2> QED
    BY <1>1, <2>1 DEF P!Stored, P!EnBit, P!EnableStored, P!PrioBit, P!PriorityStored,
                      P!CheckStored, P!Field, P!WithField
<1>3. u \in Nat /\ (u \div 8192) % 2 = x
  BY <1>2
<1>4. u % 2 = v % 2
  BY <1>2
<1>5. (u \div 2) % 2 = (v \div 2) % 2
  BY <1>2
<1>6. (u \div 16) % 16 = (v \div 16) % 16
  BY <1>2
<1>7. (u \div 256) % 16 = (v \div 256) % 16
  BY <1>2
<1> QED
  BY <1>1, <1>3, <1>4, <1>5, <1>6, <1>7 DEF ConfWith

\* A store of xon writes its half of the offset register and keeps the other.
LEMMA WritesXon ==
    ASSUME NEW v \in Nat, NEW x \in 0 .. 512, NEW a \in {"roce_xon", "non_roce_xon"}
    PROVE  OffsetWith(P!Stored(v, a, x), v, a, x)
<1>1. PICK u : u = P!Stored(v, a, x)
  OBVIOUS
<1>2. u = x + ((v \div 65536) * 65536)
  BY <1>1, 2^16 = 65536 DEF P!Stored, P!XonStored
<1>3. u \in Nat /\ u % 65536 = x /\ u \div 65536 = v \div 65536
  BY <1>2
<1> QED
  BY <1>1, <1>3 DEF OffsetWith

\* A store of xoff writes its half of the offset register and keeps the other.
LEMMA WritesXoff ==
    ASSUME NEW v \in Nat, NEW x \in 0 .. 512, NEW a \in {"roce_xoff", "non_roce_xoff"}
    PROVE  OffsetWith(P!Stored(v, a, x), v, a, x)
<1>1. PICK u : u = P!Stored(v, a, x)
  OBVIOUS
<1>2. u = (x * 65536) + (v % 65536)
  BY <1>1, 2^16 = 65536 DEF P!Stored, P!XoffStored
<1>3. u \in Nat /\ u % 65536 = v % 65536 /\ u \div 65536 = x
  BY <1>2
<1> QED
  BY <1>1, <1>3 DEF OffsetWith

\* The shows, field by field.
ShowsFields(v) ==
    /\ ShownIn(v, "roce_en") = v % 2
    /\ ShownIn(v, "non_roce_en") = (v \div 2) % 2
    /\ ShownIn(v, "roce_prio") = (v \div 16) % 16
    /\ ShownIn(v, "non_roce_prio") = (v \div 256) % 16
    /\ ShownIn(v, "dis_prio_check") = (v \div 8192) % 2
    /\ ShownIn(v, "roce_xon") = v % 65536 /\ ShownIn(v, "non_roce_xon") = v % 65536
    /\ ShownIn(v, "roce_xoff") = v \div 65536 /\ ShownIn(v, "non_roce_xoff") = v \div 65536

\* They are what the driver computes.
LEMMA PfcShows == ASSUME NEW v \in Nat PROVE ShowsFields(v)
<1> USE DEF ShownIn, P!EnableShown, P!EnBit, P!PriorityShown, P!PrioBit, P!XonShown,
            P!XoffShown, P!CheckShown, P!Field
<1>0. /\ 2^0 = 1 /\ 2^1 = 2 /\ 2^4 = 16 /\ 2^8 = 256 /\ 2^13 = 8192 /\ 2^16 = 65536
      /\ v \div 1 = v
  OBVIOUS
<1>1. ShownIn(v, "roce_en") = v % 2 /\ ShownIn(v, "non_roce_en") = (v \div 2) % 2
  BY <1>0
<1>2. /\ ShownIn(v, "roce_prio") = (v \div 16) % 16
      /\ ShownIn(v, "non_roce_prio") = (v \div 256) % 16
  BY <1>0
<1>3. ShownIn(v, "dis_prio_check") = (v \div 8192) % 2
  BY <1>0
<1>4. ShownIn(v, "roce_xon") = v % 65536 /\ ShownIn(v, "non_roce_xon") = v % 65536
  BY <1>0
<1>5. ShownIn(v, "roce_xoff") = v \div 65536 /\ ShownIn(v, "non_roce_xoff") = v \div 65536
  BY <1>0
<1> HIDE DEF ShownIn
<1> QED
  BY <1>1, <1>2, <1>3, <1>4, <1>5 DEF ShowsFields

\* A store writes its own field of the register and no other.
LEMMA PfcOneField ==
    ASSUME NEW v \in Nat, NEW a \in P!AllAttrs, NEW b \in P!AllAttrs, P!RegOf(a) = P!RegOf(b),
           NEW x \in 0 .. P!Limit(a)
    PROVE  /\ P!Stored(v, a, x) \in Nat
           /\ ShownIn(P!Stored(v, a, x), b) = IF a = b THEN x ELSE ShownIn(v, b)
<1>0. PICK u : u = P!Stored(v, a, x)
  OBVIOUS
<1>1. ShowsFields(v) /\ (u \in Nat => ShowsFields(u))
  BY PfcShows
<1>2. /\ P!RegOf(a) = "PAUSE_CONF" <=>
           a \in {"roce_en", "non_roce_en", "roce_prio", "non_roce_prio", "dis_prio_check"}
      /\ P!RegOf(b) = "PAUSE_CONF" <=>
           b \in {"roce_en", "non_roce_en", "roce_prio", "non_roce_prio", "dis_prio_check"}
      /\ P!RegOf(a) = "ROCE_PAUSE_OFFSET" <=> a \in {"roce_xon", "roce_xoff"}
      /\ P!RegOf(b) = "ROCE_PAUSE_OFFSET" <=> b \in {"roce_xon", "roce_xoff"}
      /\ P!RegOf(a) = "NON_ROCE_PAUSE_OFFSET" <=> a \in {"non_roce_xon", "non_roce_xoff"}
      /\ P!RegOf(b) = "NON_ROCE_PAUSE_OFFSET" <=> b \in {"non_roce_xon", "non_roce_xoff"}
  BY DEF P!RegOf, P!AllAttrs
<1>3. CASE a = "roce_en"
  <2>1. x \in 0 .. 1
    BY <1>3 DEF P!Limit
  <2>2. ConfWith(u, v, a, x)
    BY <1>0, <1>3, <2>1, WritesRoceEn
  <2>3. b \in {"roce_en", "non_roce_en", "roce_prio", "non_roce_prio", "dis_prio_check"}
    BY <1>2, <1>3
  <2> QED
    BY <1>0, <1>1, <1>3, <2>2, <2>3 DEF ConfWith, ShowsFields
<1>4. CASE a = "non_roce_en"
  <2>1. x \in 0 .. 1
    BY <1>4 DEF P!Limit
  <2>2. ConfWith(u, v, a, x)
    BY <1>0, <1>4, <2>1, WritesNonRoceEn
  <2>3. b \in {"roce_en", "non_roce_en", "roce_prio", "non_roce_prio", "dis_prio_check"}
    BY <1>2, <1>4
  <2> QED
    BY <1>0, <1>1, <1>4, <2>2, <2>3 DEF ConfWith, ShowsFields
<1>5. CASE a = "roce_prio"
  <2>1. x \in 0 .. 15
    BY <1>5 DEF P!Limit
  <2>2. ConfWith(u, v, a, x)
    BY <1>0, <1>5, <2>1, WritesRocePrio
  <2>3. b \in {"roce_en", "non_roce_en", "roce_prio", "non_roce_prio", "dis_prio_check"}
    BY <1>2, <1>5
  <2> QED
    BY <1>0, <1>1, <1>5, <2>2, <2>3 DEF ConfWith, ShowsFields
<1>6. CASE a = "non_roce_prio"
  <2>1. x \in 0 .. 15
    BY <1>6 DEF P!Limit
  <2>2. ConfWith(u, v, a, x)
    BY <1>0, <1>6, <2>1, WritesNonRocePrio
  <2>3. b \in {"roce_en", "non_roce_en", "roce_prio", "non_roce_prio", "dis_prio_check"}
    BY <1>2, <1>6
  <2> QED
    BY <1>0, <1>1, <1>6, <2>2, <2>3 DEF ConfWith, ShowsFields
<1>7. CASE a = "dis_prio_check"
  <2>1. x \in 0 .. 1
    BY <1>7 DEF P!Limit
  <2>2. ConfWith(u, v, a, x)
    BY <1>0, <1>7, <2>1, WritesCheck
  <2>3. b \in {"roce_en", "non_roce_en", "roce_prio", "non_roce_prio", "dis_prio_check"}
    BY <1>2, <1>7
  <2> QED
    BY <1>0, <1>1, <1>7, <2>2, <2>3 DEF ConfWith, ShowsFields
<1>8. CASE a \in {"roce_xon", "non_roce_xon"}
  <2>1. x \in 0 .. 512
    BY <1>8 DEF P!Limit
  <2>2. OffsetWith(u, v, a, x)
    BY <1>0, <1>8, <2>1, WritesXon
  <2>3. \/ a \in {"roce_xon", "roce_xoff"} /\ b \in {"roce_xon", "roce_xoff"}
        \/ a \in {"non_roce_xon", "non_roce_xoff"} /\ b \in {"non_roce_xon", "non_roce_xoff"}
    BY <1>2, <1>8
  <2> QED
    BY <1>0, <1>1, <1>8, <2>2, <2>3 DEF OffsetWith, ShowsFields
<1>9. CASE a \in {"roce_xoff", "non_roce_xoff"}
  <2>1. x \in 0 .. 512
    BY <1>9 DEF P!Limit
  <2>2. OffsetWith(u, v, a, x)
    BY <1>0, <1>9, <2>1, WritesXoff
  <2>3. \/ a \in {"roce_xon", "roce_xoff"} /\ b \in {"roce_xon", "roce_xoff"}
        \/ a \in {"non_roce_xon", "non_roce_xoff"} /\ b \in {"non_roce_xon", "non_roce_xoff"}
    BY <1>2, <1>9
  <2> QED
    BY <1>0, <1>1, <1>9, <2>2, <2>3 DEF OffsetWith, ShowsFields
<1> QED
  BY <1>3, <1>4, <1>5, <1>6, <1>7, <1>8, <1>9 DEF P!AllAttrs

\* The invariant of the stores: the register is as a store read it until that
\* store writes it, since no other store of the register is under way.
PfcInv ==
    /\ pfc_reg \in [P!Regs -> Nat]
    /\ last \in [P!AllAttrs -> Nat]
    /\ store \subseteq [attr : P!AllAttrs, x : Nat, read : Nat]
    /\ \A s \in store : s.read = pfc_reg[P!RegOf(s.attr)]
    /\ \A s, t \in store : P!RegOf(s.attr) = P!RegOf(t.attr) => s = t
    /\ P!StoredIsShown

\* A file has a register, and a bound on its values.
LEMMA PfcTypes == ASSUME NEW a \in P!AllAttrs PROVE P!RegOf(a) \in P!Regs /\ P!Limit(a) \in Nat
BY DEF P!RegOf, P!Regs, P!Limit, P!AllAttrs

\* A file shows what ShownIn makes of its register.
LEMMA PfcShown ==
    /\ P!StoredIsShown <=> \A a \in P!AllAttrs : ShownIn(pfc_reg[P!RegOf(a)], a) = last[a]
    /\ P!StoredIsShown' <=> \A a \in P!AllAttrs : ShownIn(pfc_reg'[P!RegOf(a)], a) = last'[a]
BY DEF P!StoredIsShown, P!Shown, ShownIn

\* The registers are 0 at first, and every field of them.
LEMMA PfcInit == ASSUME P!Init PROVE PfcInv
<1>1. pfc_reg \in [P!Regs -> Nat] /\ last \in [P!AllAttrs -> Nat] /\ store = {}
  BY DEF P!Init
<1>2. ASSUME NEW a \in P!AllAttrs PROVE ShownIn(pfc_reg[P!RegOf(a)], a) = last[a]
  <2>1. pfc_reg[P!RegOf(a)] = 0 /\ last[a] = 0
    BY PfcTypes DEF P!Init
  <2>2. ShowsFields(0)
    BY PfcShows
  <2> QED
    BY <2>1, <2>2 DEF ShowsFields, P!AllAttrs
<1> QED
  BY <1>1, <1>2, PfcShown DEF PfcInv

\* A store that reads its register finds no other store of the register.
LEMMA PfcRead ==
    ASSUME PfcInv, ~Overlap, NEW a \in P!AllAttrs, NEW x \in Nat, P!StoreRead(a, x)
    PROVE  PfcInv'
<1>1. PICK s : s = [attr |-> a, x |-> x, read |-> pfc_reg[P!RegOf(a)]]
  OBVIOUS
<1>2. s \in [attr : P!AllAttrs, x : Nat, read : Nat] /\ s.attr = a
      /\ s.read = pfc_reg[P!RegOf(a)]
  BY <1>1, PfcTypes DEF PfcInv
<1>3. /\ store' = store \cup {s} /\ pfc_reg' = pfc_reg /\ last' = last
      /\ \A t \in store : P!RegOf(t.attr) # P!RegOf(a)
  BY <1>1 DEF P!StoreRead
<1>4. P!StoredIsShown'
  BY <1>3, PfcShown DEF PfcInv
<1>5. store' \subseteq [attr : P!AllAttrs, x : Nat, read : Nat]
  BY <1>2, <1>3 DEF PfcInv
<1>6. \A t \in store' : t.read = pfc_reg'[P!RegOf(t.attr)]
  BY <1>2, <1>3 DEF PfcInv
<1>7. \A t, r \in store' : P!RegOf(t.attr) = P!RegOf(r.attr) => t = r
  BY <1>2, <1>3 DEF PfcInv
<1> QED
  BY <1>3, <1>4, <1>5, <1>6, <1>7 DEF PfcInv

\* A store that writes its register changes its own field of it only.
LEMMA PfcWrite ==
    ASSUME PfcInv, NEW s \in store, P!StoreWrite(s)
    PROVE  PfcInv'
<1>1. PICK a \in P!AllAttrs, x \in Nat : a = s.attr /\ x = s.x
  BY DEF PfcInv
<1>2. PICK r \in P!Regs : r = P!RegOf(a)
  BY PfcTypes
<1>3. PICK v \in Nat : v = pfc_reg[r] /\ v = s.read
  BY <1>1, <1>2 DEF PfcInv
<1>4. x \in 0 .. P!Limit(a)
  BY <1>1, PfcTypes DEF P!StoreWrite
<1>5. PICK u : u = P!Stored(v, a, x)
  OBVIOUS
<1>6. /\ pfc_reg' = [pfc_reg EXCEPT ![r] = u]
      /\ last' = [last EXCEPT ![a] = x]
      /\ store' = store \ {s}
  BY <1>1, <1>2, <1>3, <1>5 DEF P!StoreWrite
<1>7. u \in Nat
  BY <1>1, <1>4, <1>5, PfcOneField
<1>8. pfc_reg' \in [P!Regs -> Nat] /\ last' \in [P!AllAttrs -> Nat]
  BY <1>6, <1>7 DEF PfcInv
<1>9. ASSUME NEW b \in P!AllAttrs PROVE ShownIn(pfc_reg'[P!RegOf(b)], b) = last'[b]
  <2>0. ShownIn(pfc_reg[P!RegOf(b)], b) = last[b]
    BY PfcShown DEF PfcInv
  <2>1. CASE P!RegOf(b) = r
    <3>1. ShownIn(u, b) = IF a = b THEN x ELSE ShownIn(v, b)
      BY <1>2, <1>4, <1>5, <2>1, PfcOneField
    <3>2. pfc_reg'[P!RegOf(b)] = u
      BY <1>6, <2>1 DEF PfcInv
    <3> QED
      BY <1>3, <1>6, <2>0, <2>1, <3>1, <3>2 DEF PfcInv
  <2>2. CASE P!RegOf(b) # r
    <3>1. pfc_reg'[P!RegOf(b)] = pfc_reg[P!RegOf(b)]
      BY <1>6, <2>2, PfcTypes DEF PfcInv
    <3>2. a # b
      BY <1>2, <2>2
    <3> QED
      BY <1>6, <2>0, <3>1, <3>2 DEF PfcInv
  <2> QED
    BY <2>1, <2>2
<1>10. P!StoredIsShown'
  BY <1>9, PfcShown
<1>11. \A t \in store' : t.read = pfc_reg'[P!RegOf(t.attr)]
  <2> SUFFICES ASSUME NEW t \in store'
               PROVE  t.read = pfc_reg'[P!RegOf(t.attr)]
    OBVIOUS
  <2>1. t \in store /\ t # s
    BY <1>6
  <2>2. P!RegOf(t.attr) # r /\ P!RegOf(t.attr) \in P!Regs
    BY <1>1, <1>2, <2>1, PfcTypes DEF PfcInv
  <2>3. pfc_reg'[P!RegOf(t.attr)] = pfc_reg[P!RegOf(t.attr)]
    BY <1>6, <2>2 DEF PfcInv
  <2> QED
    BY <2>1, <2>3 DEF PfcInv
<1>12. /\ store' \subseteq [attr : P!AllAttrs, x : Nat, read : Nat]
       /\ \A t, q \in store' : P!RegOf(t.attr) = P!RegOf(q.attr) => t = q
  BY <1>6 DEF PfcInv
<1> QED
  BY <1>8, <1>10, <1>11, <1>12 DEF PfcInv

\* Every step of the files keeps the invariant.
LEMMA PfcStep ==
    ASSUME PfcInv, PfcAttr \subseteq P!AllAttrs, ~Overlap, [P!Next]_pfcVars
    PROVE  PfcInv'
<1>1. CASE UNCHANGED pfcVars
  <2>1. pfc_reg' = pfc_reg /\ last' = last /\ store' = store
    BY <1>1 DEF pfcVars
  <2>2. P!StoredIsShown'
    BY <2>1, PfcShown DEF PfcInv
  <2> QED
    BY <2>1, <2>2 DEF PfcInv
<1>2. ASSUME NEW a \in PfcAttr, NEW x \in {0, P!Limit(a), P!Limit(a) + 1}, P!StoreRead(a, x)
      PROVE  PfcInv'
  <2>1. a \in P!AllAttrs /\ x \in Nat
    BY <1>2, PfcTypes
  <2> QED
    BY <1>2, <2>1, PfcRead
<1>3. ASSUME NEW s \in store, P!StoreWrite(s)
      PROVE  PfcInv'
  BY <1>3, PfcWrite
<1>4. ASSUME NEW s \in store, P!StoreRefused(s)
      PROVE  PfcInv'
  <2>1. pfc_reg' = pfc_reg /\ last' = last /\ store' = store \ {s}
    BY <1>4 DEF P!StoreRefused
  <2>2. P!StoredIsShown'
    BY <2>1, PfcShown DEF PfcInv
  <2> QED
    BY <2>1, <2>2 DEF PfcInv
<1> QED
  BY <1>1, <1>2, <1>3, <1>4 DEF P!Next

\* Every file shows the last value it accepted, for any files written to and
\* any number of stores under way, as long as no two stores on one register
\* overlap: a store reads the register, sets its field and writes it back.
THEOREM DriverStoredIsShown ==
    ASSUME PfcAttr \subseteq P!AllAttrs, ~Overlap
    PROVE  Spec => []StoredIsShown
<1> DEFINE Inv == part = "pfc" => PfcInv
<1>1. Init => Inv
  BY PfcInit DEF Init
<1>2. Inv /\ [Next]_vars => Inv'
  <2> SUFFICES ASSUME Inv, [Next]_vars, part' = "pfc"
               PROVE  PfcInv'
    OBVIOUS
  <2>1. part = "pfc" /\ [P!Next]_pfcVars
    BY DEF Next, vars, pfcVars
  <2> QED
    BY <2>1, PfcStep
<1>3. Inv => StoredIsShown
  BY DEF StoredIsShown, PfcInv
<1> QED
  BY <1>1, <1>2, <1>3, PTL DEF Spec

-----------------------------------------------------------------------------
(* The block RAM, for any memory, any sizes and any split unit.             *)

BramOK ==
    /\ tot_mem \in Nat \ {0} /\ Sizes \subseteq Nat \ {0}
    /\ Round \in Nat \ {0} /\ BRAM_ALLOC_UNIT \in Nat /\ DmaAddrs \subseteq Int

BramEntry == [phy_addr : Nat, blk_size : Nat]

\* The free list is sorted, and its blocks lie inside the memory.
BramSorted(l) ==
    /\ l \in Seq(BramEntry)
    /\ \A k \in 1 .. Len(l) : l[k].blk_size > 0 /\ l[k].phy_addr + l[k].blk_size <= tot_mem
    /\ \A i, j \in 1 .. Len(l) : i < j => l[i].phy_addr + l[i].blk_size <= l[j].phy_addr

BramIn(b, u) == b.phy_addr <= u /\ u < b.phy_addr + b.blk_size

BramCover(l) == {u \in 0 .. tot_mem - 1 : \E k \in 1 .. Len(l) : BramIn(l[k], u)}

BramGrant == [addr : Int, size : Nat \ {0}, from : {"bram", "dma"}]

BramCall ==
    [op : {"idle"}] \cup [op : {"alloc"}, size : Nat \ {0}, next : BramEntry]
        \cup [op : {"free"}, grant : BramGrant]

\* The blocks of the allocation table do not meet each other.  What is neither
\* in one of them nor lost is free, and free_mem counts it.
BramLists ==
    /\ BramSorted(mem_free) /\ mem_alloc \subseteq BramEntry
    /\ \A b \in mem_alloc : b.blk_size > 0 /\ b.phy_addr + b.blk_size <= tot_mem
    /\ \A b, d \in mem_alloc :
          b # d => \/ b.phy_addr + b.blk_size <= d.phy_addr
                  \/ d.phy_addr + d.blk_size <= b.phy_addr
    /\ BramCover(mem_free) = (0 .. tot_mem - 1) \ (B!AllocUnits \cup lost)
    /\ lost \cap B!AllocUnits = {}
    /\ free_mem = Cardinality(BramCover(mem_free))

\* Block RAM that a caller holds or is freeing.
BramHeld(g) ==
    \/ g \in bram_grants /\ g.from = "bram"
    \/ \E c \in Caller : bram_call[c].op = "free" /\ bram_call[c].grant = g

\* Each of them begins where a block of its own begins that is large enough.
BramHolders ==
    /\ bram_grants \subseteq BramGrant
    /\ \A g \in BramGrant : BramHeld(g) =>
          \E b \in mem_alloc : b.phy_addr = g.addr /\ g.size <= b.blk_size
    /\ \A g, h \in BramGrant : BramHeld(g) /\ BramHeld(h) /\ g.addr = h.addr => g = h

\* At most one call is under way; the block that it found is in the list, the
\* buffer that it frees is no longer held.
BramCalls ==
    /\ bram_call \in [Caller -> BramCall]
    /\ \A c, d \in Caller : bram_call[c] # B!Idle /\ bram_call[d] # B!Idle => c = d
    /\ \A c \in Caller : bram_call[c].op = "alloc" =>
          /\ bram_call[c].next.blk_size >= B!round_up(bram_call[c].size)
          /\ \E k \in 1 .. Len(mem_free) : mem_free[k] = bram_call[c].next
    /\ \A c \in Caller : bram_call[c].op = "free" => bram_call[c].grant \notin bram_grants

BramInv == BramLists /\ BramHolders /\ BramCalls

LEMMA BramRoundUp ==
    ASSUME BramOK, NEW s \in Nat \ {0}
    PROVE  B!round_up(s) \in Nat /\ s <= B!round_up(s)
<1>0. Round \in Nat \ {0} /\ s + Round - 1 \in Nat
  BY DEF BramOK
<1>x. PICK x \in Nat : x = s + Round - 1
  BY <1>0
<1>1. PICK q \in Nat : q = x \div Round /\ \E m \in 0 .. Round - 1 : x = Round * q + m
  BY <1>0, DivMod
<1>2. PICK m \in 0 .. Round - 1 : x = Round * q + m
  BY <1>1
<1>3. B!round_up(s) = q * Round
  BY <1>x, <1>1 DEF B!round_up
<1>4. PICK y \in Nat : y = Round * q /\ y = q * Round
  BY <1>0
<1>5. s + Round - 1 = y + m /\ m <= Round - 1
  BY <1>0, <1>x, <1>2, <1>4
<1> QED
  BY <1>0, <1>3, <1>4, <1>5

\* An entry of the list, field by field.
LEMMA BramFields ==
    ASSUME NEW l \in Seq(BramEntry)
    PROVE  /\ Len(l) \in Nat /\ DOMAIN l = 1 .. Len(l)
           /\ \A k \in 1 .. Len(l) : /\ l[k] \in BramEntry
                                    /\ l[k].phy_addr \in Nat /\ l[k].blk_size \in Nat
<1>1. ASSUME NEW k \in 1 .. Len(l) PROVE l[k] \in BramEntry
  OBVIOUS
<1>2. ASSUME NEW e \in BramEntry PROVE e.phy_addr \in Nat /\ e.blk_size \in Nat
  BY DEF BramEntry
<1> QED
  BY <1>1, <1>2

LEMMA BramBlk ==
    ASSUME NEW a \in Nat, NEW n \in Nat
    PROVE  /\ B!Blk(a, n) \in BramEntry
           /\ B!Blk(a, n).phy_addr = a /\ B!Blk(a, n).blk_size = n
BY DEF B!Blk, BramEntry

LEMMA BramFreeUnits ==
    ASSUME tot_mem \in Nat, BramSorted(mem_free)
    PROVE  B!FreeUnits = BramCover(mem_free)
<1>0. /\ Len(mem_free) \in Nat /\ DOMAIN mem_free = 1 .. Len(mem_free)
      /\ \A k \in 1 .. Len(mem_free) :
            /\ mem_free[k].phy_addr \in Nat /\ mem_free[k].blk_size \in Nat
            /\ mem_free[k].phy_addr + mem_free[k].blk_size <= tot_mem
  BY BramFields DEF BramSorted
<1>1. ASSUME NEW k \in 1 .. Len(mem_free), NEW u
      PROVE  u \in B!Units(mem_free[k].phy_addr, mem_free[k].blk_size)
               <=> u \in 0 .. tot_mem - 1 /\ BramIn(mem_free[k], u)
  BY <1>0, SMTT(20) DEF B!Units, BramIn
<1>2. ASSUME NEW u PROVE u \in B!FreeUnits <=> u \in BramCover(mem_free)
  BY <1>0, <1>1 DEF B!FreeUnits, BramCover
<1> QED
  BY <1>2

\* What a request takes of a block that is large enough.
LEMMA BramTaken ==
    ASSUME BramOK, NEW s \in Nat \ {0}, NEW b \in BramEntry, b.blk_size >= B!round_up(s)
    PROVE  B!Taken(b, s) \in Nat \ {0} /\ s <= B!Taken(b, s) /\ B!Taken(b, s) <= b.blk_size
<1>1. B!round_up(s) \in Nat /\ s <= B!round_up(s) /\ b.blk_size \in Nat
  BY BramRoundUp DEF BramEntry
<1> QED
  BY <1>1 DEF B!Taken

\* The list after a buffer was taken from the front of its k-th block.
LEMMA BramTake ==
    ASSUME BramOK, BramSorted(mem_free), NEW z \in Nat \ {0},
           NEW k \in 1 .. Len(mem_free), mem_free[k].blk_size >= B!round_up(z),
           NEW s, s = B!Taken(mem_free[k], z)
    PROVE  /\ BramSorted(B!Without(k, z))
           /\ BramCover(B!Without(k, z))
                = BramCover(mem_free) \ B!Units(mem_free[k].phy_addr, s)
<1> DEFINE n == Len(mem_free)
           b == mem_free[k]
           r == B!Without(k, z)
<1>1. /\ mem_free \in Seq(BramEntry) /\ n \in Nat /\ DOMAIN mem_free = 1 .. n
      /\ \A j \in 1 .. n : /\ mem_free[j] \in BramEntry
                          /\ mem_free[j].phy_addr \in Nat /\ mem_free[j].blk_size \in Nat
                          /\ mem_free[j].blk_size > 0
                          /\ mem_free[j].phy_addr + mem_free[j].blk_size <= tot_mem
      /\ \A i, j \in 1 .. n : i < j =>
            mem_free[i].phy_addr + mem_free[i].blk_size <= mem_free[j].phy_addr
  BY BramFields DEF BramSorted
<1>0. s \in Nat \ {0} /\ tot_mem \in Nat \ {0} /\ s <= b.blk_size
  BY <1>1, BramTaken DEF BramOK
<1>2. /\ b \in BramEntry /\ b.phy_addr \in Nat /\ b.blk_size \in Nat
      /\ b.phy_addr + b.blk_size <= tot_mem /\ b.blk_size >= s
  BY <1>0, <1>1
<1>3. B!Taken(b, z) = s
  OBVIOUS
<1>u. ASSUME NEW u \in 0 .. tot_mem - 1
      PROVE  u \in B!Units(b.phy_addr, s) <=> b.phy_addr <= u /\ u < b.phy_addr + s
  BY <1>0, <1>2 DEF B!Units
<1>d. ASSUME NEW u \in 0 .. tot_mem - 1, NEW j \in 1 .. n, j # k, BramIn(mem_free[j], u)
      PROVE  ~BramIn(b, u)
  <2>1. j < k \/ k < j
    BY <1>d
  <2> QED
    BY <1>d, <1>1, <1>2, <2>1 DEF BramIn
<1>in. \A u \in 0 .. tot_mem - 1 : u \in B!Units(b.phy_addr, s) => BramIn(b, u)
  BY <1>u, <1>2, <1>0 DEF BramIn
<1>4. CASE b.blk_size = s
  <2>1. r = Removed(mem_free, k)
    <3>1. ~(s < b.blk_size)
      BY <1>4, <1>0
    <3> QED
      BY <3>1, <1>3 DEF B!Without, Removed
  <2> HIDE DEF r
  <2>2. /\ r \in Seq(BramEntry) /\ Len(r) = n - 1
        /\ \A j \in 1 .. n - 1 : r[j] = IF j < k THEN mem_free[j] ELSE mem_free[j + 1]
    BY <2>1, <1>1, ListRemove, ZenonT(30)
  <2> DEFINE old(j) == IF j < k THEN j ELSE j + 1
  <2> HIDE DEF r, b
  <2>3. /\ \A j \in 1 .. n - 1 : old(j) \in 1 .. n /\ old(j) # k /\ r[j] = mem_free[old(j)]
        /\ \A i, j \in 1 .. n - 1 : i < j => old(i) < old(j)
    BY <2>2, <1>1
  <2>4. ASSUME NEW i \in 1 .. n, i # k PROVE \E j \in 1 .. n - 1 : r[j] = mem_free[i]
    <3>1. CASE i < k
      <4>1. i \in 1 .. n - 1 /\ r[i] = mem_free[i]
        BY <3>1, <2>2, <1>1
      <4> QED
        BY <4>1
    <3>2. CASE i > k
      <4>1. i - 1 \in 1 .. n - 1 /\ ~(i - 1 < k) /\ (i - 1) + 1 = i
        BY <3>2, <1>1
      <4>2. r[i - 1] = mem_free[(i - 1) + 1]
        BY <4>1, <2>2
      <4> QED
        BY <4>1, <4>2
    <3> QED
      BY <3>1, <3>2, <2>4
  <2> HIDE DEF old
  <2>5. BramSorted(r)
    BY <2>2, <2>3, <1>1 DEF BramSorted
  <2>6. ASSUME NEW u \in 0 .. tot_mem - 1
        PROVE  (\E j \in 1 .. n - 1 : BramIn(r[j], u))
                 <=> (\E j \in 1 .. n : BramIn(mem_free[j], u))
                       /\ u \notin B!Units(b.phy_addr, s)
    <3>1. u \in B!Units(b.phy_addr, s) <=> BramIn(b, u)
      BY <1>u, <1>4 DEF BramIn
    <3>2. ASSUME NEW j \in 1 .. n - 1, BramIn(r[j], u)
          PROVE  (\E i \in 1 .. n : BramIn(mem_free[i], u)) /\ ~BramIn(b, u)
      BY <3>2, <2>3, <1>d
    <3>3. ASSUME NEW i \in 1 .. n, BramIn(mem_free[i], u), ~BramIn(b, u)
          PROVE  \E j \in 1 .. n - 1 : BramIn(r[j], u)
      <4>1. i # k
        BY <3>3 DEF b
      <4> QED
        BY <4>1, <3>3, <2>4
    <3> QED
      BY <3>1, <3>2, <3>3
  <2>7. BramCover(r) = BramCover(mem_free) \ B!Units(b.phy_addr, s)
    BY <2>2, <2>6 DEF BramCover
  <2> QED
    BY <2>5, <2>7 DEF r, b
<1>5. CASE b.blk_size # s
  <2> DEFINE c == B!Blk(b.phy_addr + s, b.blk_size - s)
  <2>0. b.blk_size - s \in Nat \ {0} /\ s < b.blk_size
    BY <1>5, <1>0, <1>2
  <2>1. r = [mem_free EXCEPT ![k] = c]
    BY <1>3, <2>0 DEF B!Without
  <2>2. c \in BramEntry /\ c.phy_addr = b.phy_addr + s /\ c.blk_size = b.blk_size - s
    <3>1. b.phy_addr + s \in Nat
      BY <1>0, <1>2
    <3> QED
      BY <2>0, <3>1, BramBlk
  <2> HIDE DEF c, r
  <2>4. /\ r \in Seq(BramEntry) /\ Len(r) = n
        /\ \A j \in 1 .. n : r[j] = IF j = k THEN c ELSE mem_free[j]
    BY <2>1, <2>2, <1>1
  <2>a. /\ c.phy_addr \in Nat /\ c.blk_size \in Nat /\ c.blk_size > 0
        /\ c.phy_addr + c.blk_size = b.phy_addr + b.blk_size
        /\ b.phy_addr <= c.phy_addr
    BY <2>0, <2>2, <1>0, <1>2, SMTT(20)
  <2>b. \A i, j \in 1 .. n : i < j => r[i].phy_addr + r[i].blk_size <= r[j].phy_addr
    <3> SUFFICES ASSUME NEW i \in 1 .. n, NEW j \in 1 .. n, i < j
                 PROVE  r[i].phy_addr + r[i].blk_size <= r[j].phy_addr
      OBVIOUS
    <3>0. /\ mem_free[i].phy_addr \in Nat /\ mem_free[i].blk_size \in Nat
          /\ mem_free[j].phy_addr \in Nat
          /\ mem_free[i].phy_addr + mem_free[i].blk_size <= mem_free[j].phy_addr
      BY <1>1
    <3>1. CASE i = k
      BY <3>0, <3>1, <2>4, <2>a
    <3>2. CASE j = k
      <4>1. r[j] = c /\ r[i] = mem_free[i] /\ mem_free[j] = b
        BY <3>2, <2>4
      <4>2. mem_free[i].phy_addr + mem_free[i].blk_size <= b.phy_addr
        BY <4>1, <3>0
      <4> HIDE DEF b
      <4>3. mem_free[i].phy_addr + mem_free[i].blk_size <= c.phy_addr
        BY <4>2, <3>0, <2>a, <1>2, SMTT(20)
      <4> QED
        BY <4>1, <4>3
    <3>3. CASE i # k /\ j # k
      BY <3>0, <3>3, <2>4
    <3> QED
      BY <3>1, <3>2, <3>3
  <2>5. BramSorted(r)
    <3>1. ASSUME NEW j \in 1 .. n
          PROVE  r[j].blk_size > 0 /\ r[j].phy_addr + r[j].blk_size <= tot_mem
      <4>1. CASE j = k
        BY <4>1, <2>0, <2>2, <2>4, <2>a, <1>2
      <4>2. CASE j # k
        BY <4>2, <2>4, <1>1
      <4> QED
        BY <4>1, <4>2
    <3> QED
      BY <3>1, <2>4, <2>b DEF BramSorted
  <2>6. ASSUME NEW u \in 0 .. tot_mem - 1
        PROVE  (\E j \in 1 .. n : BramIn(r[j], u))
                 <=> (\E j \in 1 .. n : BramIn(mem_free[j], u))
                       /\ u \notin B!Units(b.phy_addr, s)
    <3>1. BramIn(c, u) <=> BramIn(b, u) /\ u \notin B!Units(b.phy_addr, s)
      BY <1>u, <2>2, <2>a, <1>0, <1>2 DEF BramIn
    <3>2. ASSUME NEW j \in 1 .. n, BramIn(r[j], u)
          PROVE  (\E i \in 1 .. n : BramIn(mem_free[i], u)) /\ u \notin B!Units(b.phy_addr, s)
      <4>1. CASE j = k
        BY <4>1, <3>1, <3>2, <2>4
      <4>2. CASE j # k
        BY <4>2, <3>2, <2>4, <1>d, <1>in
      <4> QED
        BY <4>1, <4>2
    <3>3. ASSUME NEW i \in 1 .. n, BramIn(mem_free[i], u), u \notin B!Units(b.phy_addr, s)
          PROVE  \E j \in 1 .. n : BramIn(r[j], u)
      BY <3>1, <3>3, <2>4
    <3> QED
      BY <3>2, <3>3
  <2>7. BramCover(r) = BramCover(mem_free) \ B!Units(b.phy_addr, s)
    BY <2>4, <2>6 DEF BramCover
  <2> QED
    BY <2>5, <2>7 DEF r
<1> QED
  BY <1>4, <1>5

\* What a sorted list says of its blocks, field by field.
LEMMA BramSortedFields ==
    ASSUME NEW l, BramSorted(l)
    PROVE  /\ l \in Seq(BramEntry) /\ Len(l) \in Nat /\ DOMAIN l = 1 .. Len(l)
           /\ \A j \in 1 .. Len(l) :
                 /\ l[j] \in BramEntry /\ l[j].phy_addr \in Nat /\ l[j].blk_size \in Nat
                 /\ l[j].blk_size > 0
                 /\ l[j].phy_addr + l[j].blk_size <= tot_mem
           /\ \A i, j \in 1 .. Len(l) : i < j =>
                 l[i].phy_addr + l[i].blk_size <= l[j].phy_addr
BY BramFields DEF BramSorted

LEMMA BramInJoin ==
    ASSUME NEW c, NEW e, NEW f, NEW u \in Int,
           e.phy_addr \in Nat, e.blk_size \in Nat, f.phy_addr \in Nat, f.blk_size \in Nat,
           e.phy_addr + e.blk_size = f.phy_addr,
           c.phy_addr = e.phy_addr, c.blk_size = e.blk_size + f.blk_size
    PROVE  BramIn(c, u) <=> BramIn(e, u) \/ BramIn(f, u)
BY DEF BramIn

\* Joining a block to the one it touches changes nothing of what is free.
LEMMA BramJoined ==
    ASSUME BramOK, NEW l, BramSorted(l), NEW k \in 1 .. Len(l)
    PROVE  BramSorted(B!Joined(l, k)) /\ BramCover(B!Joined(l, k)) = BramCover(l)
<1> DEFINE n == Len(l)
<1>0. tot_mem \in Nat \ {0}
  BY DEF BramOK
<1>1. /\ l \in Seq(BramEntry) /\ n \in Nat /\ DOMAIN l = 1 .. n
      /\ \A j \in 1 .. n :
            /\ l[j] \in BramEntry /\ l[j].phy_addr \in Nat /\ l[j].blk_size \in Nat
            /\ l[j].blk_size > 0
            /\ l[j].phy_addr + l[j].blk_size <= tot_mem
      /\ \A i, j \in 1 .. n : i < j => l[i].phy_addr + l[i].blk_size <= l[j].phy_addr
  BY BramSortedFields
<1>2. CASE ~(k < n /\ l[k].phy_addr + l[k].blk_size = l[k + 1].phy_addr)
  BY <1>2 DEF B!Joined, B!End
<1>3. CASE k < n /\ l[k].phy_addr + l[k].blk_size = l[k + 1].phy_addr
  <2> DEFINE c == [l[k] EXCEPT !.blk_size = @ + l[k + 1].blk_size]
             a == SubSeq(l, 1, k)
             d == [a EXCEPT ![k] = c]
             b == SubSeq(l, k + 2, n)
             r == d \o b
  <2>0. k + 1 \in 1 .. n /\ k \in 1 .. n
    BY <1>3, <1>1
  <2>1. /\ a \in Seq(BramEntry) /\ Len(a) = k
        /\ \A i \in 1 .. k : a[i] = l[i]
    <3>1. \A i \in 1 .. k : l[i] \in BramEntry
      BY <1>1, <2>0
    <3>2. /\ a \in Seq(BramEntry) /\ Len(a) = IF 1 <= k THEN k - 1 + 1 ELSE 0
          /\ \A i \in 1 .. k - 1 + 1 : a[i] = l[1 + i - 1]
      BY <3>1, <2>0, SubSeqProperties
    <3> QED
      BY <3>2
  <2>2. /\ b \in Seq(BramEntry) /\ Len(b) = (n - k) - 1
        /\ \A i \in 1 .. (n - k) - 1 : b[i] = l[(k + 1) + i]
    <3>1. \A i \in k + 2 .. n : l[i] \in BramEntry
      BY <1>1
    <3>2. /\ b \in Seq(BramEntry) /\ Len(b) = IF k + 2 <= n THEN n - (k + 2) + 1 ELSE 0
          /\ \A i \in 1 .. n - (k + 2) + 1 : b[i] = l[(k + 2) + i - 1]
      BY <3>1, <1>1, SubSeqProperties
    <3> HIDE DEF b
    <3>3. Len(b) = (n - k) - 1 /\ n - (k + 2) + 1 = (n - k) - 1
      <4>1. n \in Nat /\ k \in Nat /\ k < n
        BY <1>1, <1>3
      <4>2. Len(b) = IF k + 2 <= n THEN n - (k + 2) + 1 ELSE 0
        BY <3>2
      <4> HIDE DEF n
      <4> QED
        BY <4>1, <4>2
    <3>4. ASSUME NEW i \in 1 .. (n - k) - 1 PROVE b[i] = l[(k + 1) + i]
      <4>1. (k + 2) + i - 1 = (k + 1) + i /\ i \in 1 .. n - (k + 2) + 1
        BY <3>3, <2>0
      <4> QED
        BY <4>1, <3>2
    <3> QED
      BY <3>2, <3>3, <3>4
  <2>3. /\ c \in BramEntry /\ c.phy_addr = l[k].phy_addr
        /\ c.blk_size = l[k].blk_size + l[k + 1].blk_size
    <3>1. l[k] \in BramEntry /\ l[k].blk_size \in Nat /\ l[k + 1].blk_size \in Nat
      BY <1>1, <2>0
    <3> QED
      BY <3>1 DEF BramEntry
  <2>j. B!Joined(l, k) = r
    <3>1. d = [a EXCEPT ![k].blk_size = @ + l[k + 1].blk_size]
      <4>1. a[k] = l[k]
        BY <2>1, <2>0
      <4> HIDE DEF a
      <4> QED
        BY <4>1
    <3> QED
      BY <3>1, <1>3 DEF B!Joined, B!End
  <2> HIDE DEF c, a, b
  <2>4. /\ d \in Seq(BramEntry) /\ Len(d) = k
        /\ \A i \in 1 .. k : d[i] = IF i = k THEN c ELSE l[i]
    BY <2>1, <2>3
  <2> HIDE DEF d
  <2>5. /\ r \in Seq(BramEntry) /\ Len(r) = Len(d) + Len(b)
        /\ \A i \in 1 .. Len(d) + Len(b) :
              r[i] = IF i <= Len(d) THEN d[i] ELSE b[i - Len(d)]
    BY <2>2, <2>4, ConcatProperties
  <2> HIDE DEF r
  <2>6. /\ r \in Seq(BramEntry) /\ Len(r) = n - 1
        /\ \A i \in 1 .. n - 1 :
              r[i] = IF i < k THEN l[i] ELSE IF i = k THEN c ELSE l[i + 1]
    <3>1. Len(d) + Len(b) = n - 1
      BY <2>2, <2>4, <1>1
    <3>2. ASSUME NEW i \in 1 .. n - 1
          PROVE  r[i] = IF i < k THEN l[i] ELSE IF i = k THEN c ELSE l[i + 1]
      <4>1. CASE i <= k
        BY <4>1, <3>1, <2>4, <2>5
      <4>2. CASE i > k
        <5>1. i - k \in 1 .. (n - k) - 1 /\ (k + 1) + (i - k) = i + 1
          BY <4>2, <1>1
        <5>2. r[i] = b[i - k]
          BY <4>2, <3>1, <2>4, <2>5
        <5>3. b[i - k] = l[(k + 1) + (i - k)]
          BY <5>1, <2>2
        <5> QED
          BY <4>2, <5>1, <5>2, <5>3
      <4> QED
        BY <4>1, <4>2
    <3> QED
      BY <3>1, <3>2, <2>5
  <2>7. /\ c.phy_addr \in Nat /\ c.blk_size \in Nat /\ c.blk_size > 0
        /\ c.phy_addr + c.blk_size = l[k + 1].phy_addr + l[k + 1].blk_size
    <3>1. /\ l[k].phy_addr \in Nat /\ l[k].blk_size \in Nat /\ l[k].blk_size > 0
          /\ l[k + 1].blk_size \in Nat /\ l[k + 1].phy_addr \in Nat
      BY <1>1, <2>0
    <3> QED
      BY <3>1, <2>3, <1>3
  <2>8. BramSorted(r)
    <3>1. ASSUME NEW j \in 1 .. n - 1
          PROVE  /\ r[j].blk_size > 0
                 /\ r[j].phy_addr + r[j].blk_size <= tot_mem
      <4>1. CASE j = k
        <5>1. r[j] = c
          BY <4>1, <2>6
        <5>2. l[k + 1].phy_addr + l[k + 1].blk_size <= tot_mem
          BY <2>0, <1>1
        <5> QED
          BY <5>1, <5>2, <2>7
      <4>2. CASE j # k
        <5>1. PICK i \in 1 .. n : r[j] = l[i]
          BY <4>2, <2>6, <1>1
        <5> QED
          BY <5>1, <1>1
      <4> QED
        BY <4>1, <4>2
    <3>2. ASSUME NEW i \in 1 .. n - 1, NEW j \in 1 .. n - 1, i < j
          PROVE  r[i].phy_addr + r[i].blk_size <= r[j].phy_addr
      <4> DEFINE old(x) == IF x <= k THEN x ELSE x + 1
                 fin(x) == IF x < k THEN x ELSE x + 1
      <4>1. /\ fin(i) \in 1 .. n /\ old(j) \in 1 .. n /\ fin(i) < old(j)
        BY <3>2, <1>1
      <4>2. r[i].phy_addr + r[i].blk_size = l[fin(i)].phy_addr + l[fin(i)].blk_size
        BY <2>6, <2>7, <3>2, <1>1
      <4>3. r[j].phy_addr = l[old(j)].phy_addr
        <5>1. CASE j < k
          BY <5>1, <2>6
        <5>2. CASE j = k
          BY <5>2, <2>6, <2>3
        <5>3. CASE j > k
          BY <5>3, <2>6
        <5> QED
          BY <5>1, <5>2, <5>3, <3>2, <1>1
      <4> HIDE DEF old, fin
      <4> QED
        BY <4>1, <4>2, <4>3, <1>1
    <3> QED
      BY <3>1, <3>2, <2>6 DEF BramSorted
  <2>9. ASSUME NEW u \in 0 .. tot_mem - 1
        PROVE  (\E j \in 1 .. n - 1 : BramIn(r[j], u)) <=> (\E j \in 1 .. n : BramIn(l[j], u))
    <3>0. /\ l[k].phy_addr \in Nat /\ l[k].blk_size \in Nat
          /\ l[k + 1].blk_size \in Nat /\ l[k + 1].phy_addr \in Nat
      BY <1>1, <2>0
    <3>1. BramIn(c, u) <=> BramIn(l[k], u) \/ BramIn(l[k + 1], u)
      <4>1. u \in Int
        BY <1>0
      <4>2. l[k].phy_addr + l[k].blk_size = l[k + 1].phy_addr
        BY <1>3
      <4>3. c.phy_addr = l[k].phy_addr /\ c.blk_size = l[k].blk_size + l[k + 1].blk_size
        BY <2>3
      <4> DEFINE pa == l[k].phy_addr
                 x == l[k].blk_size
                 y == l[k + 1].blk_size
                 pb == l[k + 1].phy_addr
      <4>4. pa \in Nat /\ x \in Nat /\ y \in Nat /\ pb = pa + x
        BY <4>2, <3>0
      <4>5. BramIn(l[k], u) <=> pa <= u /\ u < pa + x
        BY DEF BramIn
      <4>6. BramIn(l[k + 1], u) <=> pb <= u /\ u < pb + y
        BY DEF BramIn
      <4>7. BramIn(c, u) <=> pa <= u /\ u < pa + (x + y)
        BY <4>3 DEF BramIn
      <4> HIDE DEF pa, x, y, pb
      <4> QED
        BY ONLY <4>1, <4>4, <4>5, <4>6, <4>7
    <3>2. ASSUME NEW j \in 1 .. n - 1, BramIn(r[j], u) PROVE \E i \in 1 .. n : BramIn(l[i], u)
      <4>1. CASE j = k
        BY <4>1, <3>1, <3>2, <2>0, <2>6
      <4>2. CASE j # k
        <5>1. PICK i \in 1 .. n : r[j] = l[i]
          BY <4>2, <2>6, <1>1
        <5> QED
          BY <5>1, <3>2
      <4> QED
        BY <4>1, <4>2
    <3>3. ASSUME NEW i \in 1 .. n, BramIn(l[i], u) PROVE \E j \in 1 .. n - 1 : BramIn(r[j], u)
      <4>1. CASE i < k
        <5>1. i \in 1 .. n - 1 /\ r[i] = l[i]
          BY <4>1, <2>0, <2>6, <1>1
        <5> QED
          BY <5>1, <3>3
      <4>2. CASE i = k \/ i = k + 1
        <5>1. k \in 1 .. n - 1 /\ r[k] = c
          BY <2>0, <2>6, <1>1
        <5> QED
          BY <5>1, <4>2, <3>1, <3>3
      <4>3. CASE i > k + 1
        <5>1. i - 1 \in 1 .. n - 1 /\ ~(i - 1 < k) /\ i - 1 # k /\ (i - 1) + 1 = i
          BY <4>3, <2>0, <1>1
        <5>2. r[i - 1] = l[(i - 1) + 1]
          BY <5>1, <2>6
        <5> QED
          BY <5>1, <5>2, <3>3
      <4> QED
        BY <4>1, <4>2, <4>3, <2>0
    <3> QED
      BY <3>2, <3>3
  <2>10. BramCover(r) = BramCover(l)
    BY <2>6, <2>9 DEF BramCover
  <2> QED
    BY <2>8, <2>10, <2>j
<1> QED
  BY <1>2, <1>3

\* A block is put between the blocks before it and those behind it.
LEMMA BramInsert ==
    ASSUME BramOK, NEW s \in Nat \ {0}, NEW l, BramSorted(l),
           NEW x \in Nat, x + s <= tot_mem,
           NEW m \in 0 .. Len(l), NEW r \in Seq(BramEntry), Len(r) = Len(l) + 1,
           \A j \in 1 .. Len(l) + 1 : r[j] =
                 IF j <= m THEN l[j] ELSE IF j = m + 1 THEN B!Blk(x, s) ELSE l[j - 1],
           \A j \in 1 .. Len(l) : j <= m => l[j].phy_addr + l[j].blk_size <= x,
           \A j \in 1 .. Len(l) : j > m => x + s <= l[j].phy_addr
    PROVE  BramSorted(r) /\ BramCover(r) = BramCover(l) \cup B!Units(x, s)
<1> DEFINE n == Len(l)
           e == B!Blk(x, s)
<1>0. s \in Nat \ {0} /\ tot_mem \in Nat \ {0}
  BY DEF BramOK
<1>1. /\ l \in Seq(BramEntry) /\ n \in Nat /\ DOMAIN l = 1 .. n
      /\ \A j \in 1 .. n :
            /\ l[j] \in BramEntry /\ l[j].phy_addr \in Nat /\ l[j].blk_size \in Nat
            /\ l[j].blk_size > 0
            /\ l[j].phy_addr + l[j].blk_size <= tot_mem
      /\ \A i, j \in 1 .. n : i < j => l[i].phy_addr + l[i].blk_size <= l[j].phy_addr
  BY BramSortedFields
<1>2. e \in BramEntry /\ e.phy_addr = x /\ e.blk_size = s
  BY <1>0, BramBlk
<1> HIDE DEF e
<1>3. \A j \in 1 .. n + 1 : r[j] = IF j <= m THEN l[j] ELSE IF j = m + 1 THEN e ELSE l[j - 1]
  BY DEF e
<1> DEFINE old(j) == IF j <= m THEN j ELSE j - 1
<1>4. /\ r[m + 1] = e /\ m + 1 \in 1 .. n + 1
      /\ \A j \in 1 .. n + 1 : j # m + 1 => old(j) \in 1 .. n /\ r[j] = l[old(j)]
      /\ \A j \in 1 .. n + 1 : j # m + 1 => (old(j) <= m <=> j < m + 1)
      /\ \A i, j \in 1 .. n + 1 : i # m + 1 /\ j # m + 1 /\ i < j => old(i) < old(j)
      /\ \A i \in 1 .. n : \E j \in 1 .. n + 1 : j # m + 1 /\ old(j) = i
  <2>1. ASSUME NEW i \in 1 .. n PROVE \E j \in 1 .. n + 1 : j # m + 1 /\ old(j) = i
    <3>1. CASE i <= m
      <4>1. i \in 1 .. n + 1 /\ i # m + 1 /\ old(i) = i
        BY <3>1, <1>1
      <4> QED
        BY <4>1
    <3>2. CASE i > m
      <4>1. i + 1 \in 1 .. n + 1 /\ i + 1 # m + 1 /\ old(i + 1) = i
        BY <3>2, <1>1
      <4> QED
        BY <4>1
    <3> QED
      BY <3>1, <3>2
  <2>2. r[m + 1] = e /\ m + 1 \in 1 .. n + 1
    BY <1>1, <1>3
  <2>3. \A j \in 1 .. n + 1 : j # m + 1 => old(j) \in 1 .. n /\ r[j] = l[old(j)]
    BY <1>1, <1>3
  <2>4. \A j \in 1 .. n + 1 : j # m + 1 => (old(j) <= m <=> j < m + 1)
    BY <1>1
  <2>5. \A i, j \in 1 .. n + 1 : i # m + 1 /\ j # m + 1 /\ i < j => old(i) < old(j)
    BY <1>1
  <2> QED
    BY <2>1, <2>2, <2>3, <2>4, <2>5
<1> HIDE DEF old
<1>5. BramSorted(r)
  <2>1. ASSUME NEW j \in 1 .. n + 1
        PROVE  /\ r[j].blk_size > 0
               /\ r[j].phy_addr + r[j].blk_size <= tot_mem
    <3>1. CASE j = m + 1
      BY <3>1, <1>0, <1>2, <1>4
    <3>2. CASE j # m + 1
      BY <3>2, <1>1, <1>4
    <3> QED
      BY <3>1, <3>2
  <2>2. ASSUME NEW i \in 1 .. n + 1, NEW j \in 1 .. n + 1, i < j
        PROVE  r[i].phy_addr + r[i].blk_size <= r[j].phy_addr
    <3>1. CASE i = m + 1
      <4>1. j # m + 1 /\ ~(j < m + 1)
        BY <3>1, <2>2
      <4>2. old(j) \in 1 .. n /\ old(j) > m /\ r[j] = l[old(j)]
        BY <4>1, <1>4
      <4> QED
        BY <4>2, <3>1, <1>2, <1>4
    <3>2. CASE j = m + 1
      <4>1. i # m + 1 /\ i < m + 1
        BY <3>2, <2>2
      <4>2. old(i) \in 1 .. n /\ old(i) <= m /\ r[i] = l[old(i)]
        BY <4>1, <1>4
      <4> QED
        BY <4>2, <3>2, <1>2, <1>4
    <3>3. CASE i # m + 1 /\ j # m + 1
      <4>1. /\ old(i) \in 1 .. n /\ r[i] = l[old(i)]
            /\ old(j) \in 1 .. n /\ r[j] = l[old(j)]
            /\ old(i) < old(j)
        BY <3>3, <2>2, <1>4
      <4>2. l[old(i)].phy_addr + l[old(i)].blk_size <= l[old(j)].phy_addr
        BY <4>1, <1>1
      <4> QED
        BY <4>1, <4>2
    <3> QED
      BY <3>1, <3>2, <3>3
  <2> QED
    BY <2>1, <2>2 DEF BramSorted
<1>6. ASSUME NEW u PROVE u \in B!Units(x, s) <=> u \in 0 .. tot_mem - 1 /\ BramIn(e, u)
  BY <1>0, <1>2 DEF B!Units, BramIn
<1>7. ASSUME NEW u \in 0 .. tot_mem - 1
      PROVE  (\E j \in 1 .. n + 1 : BramIn(r[j], u))
               <=> (\E j \in 1 .. n : BramIn(l[j], u)) \/ BramIn(e, u)
  <2>1. ASSUME NEW j \in 1 .. n + 1, BramIn(r[j], u)
        PROVE  (\E i \in 1 .. n : BramIn(l[i], u)) \/ BramIn(e, u)
    BY <2>1, <1>4
  <2>2. ASSUME NEW i \in 1 .. n, BramIn(l[i], u)
        PROVE  \E j \in 1 .. n + 1 : BramIn(r[j], u)
    BY <2>2, <1>4
  <2> QED
    BY <2>1, <2>2, <1>4
<1> QED
  BY <1>5, <1>6, <1>7 DEF BramCover

\* Block c can stand for entry k of the list, and is larger by the freed one.
BramGrown(l, k, c, x, s) ==
    /\ c \in BramEntry
    /\ c.blk_size > 0
    /\ c.phy_addr + c.blk_size <= tot_mem
    /\ \A j \in 1 .. Len(l) : j < k => l[j].phy_addr + l[j].blk_size <= c.phy_addr
    /\ \A j \in 1 .. Len(l) : j > k => c.phy_addr + c.blk_size <= l[j].phy_addr
    /\ \A u \in Int : BramIn(c, u) <=> BramIn(l[k], u) \/ (x <= u /\ u < x + s)

\* A block of the list grows by the freed one.
LEMMA BramGrow ==
    ASSUME BramOK, NEW s \in Nat \ {0}, NEW l, BramSorted(l), NEW x \in Nat, x + s <= tot_mem,
           NEW k \in 1 .. Len(l), NEW c, BramGrown(l, k, c, x, s)
    PROVE  /\ BramSorted([l EXCEPT ![k] = c]) /\ Len([l EXCEPT ![k] = c]) = Len(l)
           /\ BramCover([l EXCEPT ![k] = c]) = BramCover(l) \cup B!Units(x, s)
<1>r. PICK r : r = [l EXCEPT ![k] = c]
  OBVIOUS
<1>g. /\ c \in BramEntry
      /\ c.blk_size > 0
      /\ c.phy_addr + c.blk_size <= tot_mem
      /\ \A j \in 1 .. Len(l) : j < k => l[j].phy_addr + l[j].blk_size <= c.phy_addr
      /\ \A j \in 1 .. Len(l) : j > k => c.phy_addr + c.blk_size <= l[j].phy_addr
      /\ \A u \in Int : BramIn(c, u) <=> BramIn(l[k], u) \/ (x <= u /\ u < x + s)
  BY DEF BramGrown
<1> DEFINE n == Len(l)
<1>0. s \in Nat \ {0} /\ tot_mem \in Nat \ {0}
  BY DEF BramOK
<1>1. /\ l \in Seq(BramEntry) /\ n \in Nat /\ DOMAIN l = 1 .. n
      /\ \A j \in 1 .. n :
            /\ l[j] \in BramEntry /\ l[j].phy_addr \in Nat /\ l[j].blk_size \in Nat
            /\ l[j].blk_size > 0
            /\ l[j].phy_addr + l[j].blk_size <= tot_mem
      /\ \A i, j \in 1 .. n : i < j => l[i].phy_addr + l[i].blk_size <= l[j].phy_addr
  BY BramSortedFields
<1>2. /\ r \in Seq(BramEntry) /\ Len(r) = n
      /\ \A j \in 1 .. n : r[j] = IF j = k THEN c ELSE l[j]
  BY <1>1, <1>r, <1>g
<1>3. BramSorted(r)
  <2>1. ASSUME NEW j \in 1 .. n
        PROVE  /\ r[j].blk_size > 0
               /\ r[j].phy_addr + r[j].blk_size <= tot_mem
    <3>1. CASE j = k
      BY <3>1, <1>2, <1>g
    <3>2. CASE j # k
      BY <3>2, <1>1, <1>2
    <3> QED
      BY <3>1, <3>2
  <2>2. ASSUME NEW i \in 1 .. n, NEW j \in 1 .. n, i < j
        PROVE  r[i].phy_addr + r[i].blk_size <= r[j].phy_addr
    <3>1. CASE i = k
      <4>1. r[i] = c /\ r[j] = l[j] /\ j > k
        BY <3>1, <2>2, <1>2
      <4> QED
        BY <4>1, <1>g
    <3>2. CASE j = k
      <4>1. r[j] = c /\ r[i] = l[i] /\ i < k
        BY <3>2, <2>2, <1>2
      <4> QED
        BY <4>1, <1>g
    <3>3. CASE i # k /\ j # k
      BY <3>3, <2>2, <1>1, <1>2
    <3> QED
      BY <3>1, <3>2, <3>3
  <2> QED
    BY <2>1, <2>2, <1>2 DEF BramSorted
<1>4. ASSUME NEW u PROVE u \in B!Units(x, s) <=> u \in 0 .. tot_mem - 1 /\ x <= u /\ u < x + s
  BY <1>0 DEF B!Units
<1>5. ASSUME NEW u \in 0 .. tot_mem - 1
      PROVE  (\E j \in 1 .. n : BramIn(r[j], u))
               <=> (\E j \in 1 .. n : BramIn(l[j], u)) \/ (x <= u /\ u < x + s)
  <2>0. BramIn(c, u) <=> BramIn(l[k], u) \/ (x <= u /\ u < x + s)
    BY <1>0, <1>g
  <2>1. ASSUME NEW j \in 1 .. n, BramIn(r[j], u)
        PROVE  (\E i \in 1 .. n : BramIn(l[i], u)) \/ (x <= u /\ u < x + s)
    <3>1. CASE j = k
      BY <3>1, <2>0, <2>1, <1>2
    <3>2. CASE j # k
      BY <3>2, <2>1, <1>2
    <3> QED
      BY <3>1, <3>2
  <2>2. ASSUME NEW i \in 1 .. n, BramIn(l[i], u)
        PROVE  \E j \in 1 .. n : BramIn(r[j], u)
    <3>1. BramIn(r[i], u)
      BY <2>0, <2>2, <1>2
    <3> QED
      BY <3>1
  <2>3. ASSUME x <= u /\ u < x + s PROVE \E j \in 1 .. n : BramIn(r[j], u)
    <3>1. BramIn(r[k], u)
      BY <2>0, <2>3, <1>2
    <3> QED
      BY <3>1
  <2> QED
    BY <2>1, <2>2, <2>3
<1> QED
  BY <1>2, <1>3, <1>4, <1>5, <1>r DEF BramCover

LEMMA BramMin ==
    ASSUME NEW S \in SUBSET Nat, S # {}
    PROVE  B!Min(S) \in S /\ \A m \in S : B!Min(S) <= m
<1>1. \E n \in S : \A m \in S : n <= m
  BY LeastElement
<1> QED
  BY <1>1 DEF B!Min

\* The list after a buffer has come back that no block of it covers.
LEMMA BramGive ==
    ASSUME BramOK, NEW s \in Nat \ {0}, BramSorted(mem_free),
           NEW x \in Nat, x + s <= tot_mem, ~B!JoinsApart(x, s),
           \A k \in 1 .. Len(mem_free) : \A u \in x .. x + s - 1 : ~BramIn(mem_free[k], u)
    PROVE  /\ BramSorted(B!FreeInto(x, s))
           /\ BramCover(B!FreeInto(x, s)) = BramCover(mem_free) \cup B!Units(x, s)
<1>p. PICK l : l = mem_free
  OBVIOUS
<1>q. PICK e : e = B!Blk(x, s)
  OBVIOUS
<1> DEFINE n == Len(l)
           stops == B!Stops(x, s)
           r == B!FreeInto(x, s)
<1>0. s \in Nat \ {0} /\ tot_mem \in Nat \ {0}
  BY DEF BramOK
<1>1. /\ l \in Seq(BramEntry) /\ n \in Nat /\ DOMAIN l = 1 .. n
      /\ \A j \in 1 .. n :
            /\ l[j] \in BramEntry /\ l[j].phy_addr \in Nat /\ l[j].blk_size \in Nat
            /\ l[j].blk_size > 0
            /\ l[j].phy_addr + l[j].blk_size <= tot_mem
      /\ \A i, j \in 1 .. n : i < j => l[i].phy_addr + l[i].blk_size <= l[j].phy_addr
  BY <1>p, BramSortedFields
<1>e. e \in BramEntry /\ e.phy_addr = x /\ e.blk_size = s
  BY <1>0, <1>q, BramBlk
<1>2. ASSUME NEW j \in 1 .. n
      PROVE  /\ l[j].phy_addr <= x => l[j].phy_addr + l[j].blk_size <= x
             /\ x < l[j].phy_addr => x + s <= l[j].phy_addr
  <2>1. x \in x .. x + s - 1 /\ ~BramIn(l[j], x)
    BY <1>0, <1>p
  <2>2. l[j].phy_addr \in x .. x + s - 1 => ~BramIn(l[j], l[j].phy_addr)
    BY <1>p
  <2> QED
    BY <2>1, <2>2, <1>0, <1>1 DEF BramIn
<1>s. /\ stops = {k \in DOMAIN l : x < l[k].phy_addr \/ x = l[k].phy_addr + s}
      /\ \A k \in stops : x > l[k].phy_addr => l[k].blk_size = s
  BY <1>p DEF B!Stops, B!JoinsApart
<1> HIDE DEF stops
<1>3. CASE stops = {}
  <2>1. r = Append(l, e)
    BY <1>3, <1>p, <1>q DEF B!FreeInto, stops
  <2>2. /\ r \in Seq(BramEntry) /\ Len(r) = n + 1
        /\ \A j \in 1 .. n + 1 : r[j] =
              IF j <= n THEN l[j] ELSE IF j = n + 1 THEN e ELSE l[j - 1]
    <3> HIDE DEF r
    <3> QED
      BY <2>1, <1>1, <1>e
  <2>3. ASSUME NEW j \in 1 .. n PROVE l[j].phy_addr + l[j].blk_size <= x
    <3>1. l[j].phy_addr <= x
      BY <1>3, <1>1, <1>s, SMTT(20)
    <3> QED
      BY <3>1, <1>2
  <2>4. n \in 0 .. n /\ \A j \in 1 .. n : ~(j > n)
    BY <1>1
  <2> HIDE DEF r
  <2> QED
    BY <2>2, <2>3, <2>4, <1>p, <1>q, BramInsert DEF r
<1>4. CASE stops # {}
  <2>k. PICK k : k = B!Min(stops)
    OBVIOUS
  <2>1. k \in stops /\ k \in 1 .. n /\ (x < l[k].phy_addr \/ x = l[k].phy_addr + s)
        /\ \A j \in 1 .. n : j < k => j \notin stops
    <3>1. stops \in SUBSET Nat
      BY <1>1, <1>s
    <3>2. k \in stops /\ \A m \in stops : k <= m
      BY <1>4, <3>1, <2>k, BramMin
    <3>3. k \in 1 .. n /\ (x < l[k].phy_addr \/ x = l[k].phy_addr + s)
      BY <3>2, <1>1, <1>s
    <3>4. \A j \in 1 .. n : j < k => j \notin stops
      BY <3>2, <3>3, <1>1
    <3> QED
      BY <3>2, <3>3, <3>4
  <2>r. r = IF x > l[k].phy_addr
              THEN B!Joined([l EXCEPT ![k].blk_size = @ + s], k)
            ELSE IF x + s = l[k].phy_addr
              THEN B!Joined([l EXCEPT ![k] = B!Blk(x, l[k].blk_size + s)], k)
            ELSE SubSeq(l, 1, k - 1) \o <<e>> \o SubSeq(l, k, n)
    BY <1>4, <1>p, <1>q, <2>k DEF B!FreeInto, stops
  <2>2. ASSUME NEW j \in 1 .. n, j < k PROVE l[j].phy_addr + l[j].blk_size <= x
    <3>1. j \notin stops
      BY <2>1, <2>2
    <3>2. l[j].phy_addr <= x
      BY <3>1, <1>1, <1>s
    <3> QED
      BY <3>2, <1>2
  <2> HIDE DEF r, stops
  <2>f. /\ l[k] \in BramEntry /\ l[k].phy_addr \in Nat /\ l[k].blk_size \in Nat
        /\ l[k].blk_size > 0
        /\ l[k].phy_addr + l[k].blk_size <= tot_mem
    BY <2>1, <1>1
  <2>3. CASE x > l[k].phy_addr
    <3>c. PICK c : c = [l[k] EXCEPT !.blk_size = @ + s]
      OBVIOUS
    <3>g. PICK g : g = [l EXCEPT ![k] = c]
      OBVIOUS
    <3>1. x = l[k].phy_addr + s
      BY <2>1, <2>3, <2>f
    <3>2. l[k].blk_size = s
      BY <2>1, <2>3, <1>s
    <3>3. c \in BramEntry /\ c.phy_addr = l[k].phy_addr /\ c.blk_size = l[k].blk_size + s
      <4>1. l[k].blk_size + s \in Nat
        BY <2>f, <1>0
      <4> QED
        BY <4>1, <3>c, <2>f DEF BramEntry
    <3>4. ASSUME NEW j \in 1 .. n, j > k PROVE c.phy_addr + c.blk_size <= l[j].phy_addr
      <4>1. l[k].phy_addr + l[k].blk_size <= l[j].phy_addr /\ l[j].phy_addr \in Nat
            /\ l[j].blk_size \in Nat /\ l[j].blk_size > 0
        BY <3>4, <2>1, <1>1
      <4>2. x <= l[j].phy_addr
        BY <4>1, <3>1, <3>2
      <4>3. l[j].phy_addr # x
        <5>1. ~(l[j].phy_addr + l[j].blk_size <= l[j].phy_addr)
          BY <4>1
        <5> QED
          BY <5>1, <1>2
      <4>4. x + s <= l[j].phy_addr
        BY <4>1, <4>2, <4>3, <1>2
      <4>5. c.phy_addr + c.blk_size = x + s
        BY <3>1, <3>2, <3>3, <2>f, <1>0
      <4> QED
        BY <4>4, <4>5
    <3>5. ASSUME NEW j \in 1 .. n, j < k PROVE l[j].phy_addr + l[j].blk_size <= c.phy_addr
      BY <3>3, <3>5, <2>1, <1>1
    <3>6. ASSUME NEW u \in Int
          PROVE  BramIn(c, u) <=> BramIn(l[k], u) \/ (x <= u /\ u < x + s)
      <4>1. e.phy_addr \in Nat /\ e.blk_size \in Nat /\ l[k].phy_addr + l[k].blk_size = e.phy_addr
            /\ c.blk_size = l[k].blk_size + e.blk_size
        BY <3>1, <3>2, <3>3, <1>e, <1>0
      <4>2. BramIn(c, u) <=> BramIn(l[k], u) \/ BramIn(e, u)
        BY <4>1, <3>3, <2>f, BramInJoin
      <4> QED
        BY <4>2, <1>e DEF BramIn
    <3>7. /\ c.blk_size > 0
          /\ c.phy_addr + c.blk_size <= tot_mem
      BY <3>1, <3>2, <3>3, <2>f, <1>0
    <3>8. /\ BramSorted(g) /\ Len(g) = n /\ BramCover(g) = BramCover(l) \cup B!Units(x, s)
      <4>1. BramSorted(l) /\ k \in 1 .. Len(l)
        BY <2>1, <1>p
      <4>2. /\ \A j \in 1 .. Len(l) : j < k => l[j].phy_addr + l[j].blk_size <= c.phy_addr
            /\ \A j \in 1 .. Len(l) : j > k => c.phy_addr + c.blk_size <= l[j].phy_addr
            /\ \A u \in Int : BramIn(c, u) <=> BramIn(l[k], u) \/ (x <= u /\ u < x + s)
        BY <3>4, <3>5, <3>6
      <4>3. BramGrown(l, k, c, x, s)
        BY <4>2, <3>3, <3>7 DEF BramGrown
      <4>4. /\ BramSorted([l EXCEPT ![k] = c]) /\ Len([l EXCEPT ![k] = c]) = Len(l)
            /\ BramCover([l EXCEPT ![k] = c]) = BramCover(l) \cup B!Units(x, s)
        BY <4>1, <4>3, BramGrow, Zenon
      <4> QED
        BY <4>4, <3>g
    <3>9. r = B!Joined(g, k)
      <4>1. g = [l EXCEPT ![k].blk_size = @ + s]
        BY <3>c, <3>g, <2>f, <1>1
      <4> QED
        BY <4>1, <2>3, <2>r
    <3>10. BramSorted(B!Joined(g, k)) /\ BramCover(B!Joined(g, k)) = BramCover(g)
      BY <3>8, <2>1, BramJoined
    <3> QED
      BY <3>8, <3>9, <3>10, <1>p DEF r
  <2>4. CASE ~(x > l[k].phy_addr) /\ x + s = l[k].phy_addr
    <3>c. PICK c : c = B!Blk(x, l[k].blk_size + s)
      OBVIOUS
    <3>g. PICK g : g = [l EXCEPT ![k] = c]
      OBVIOUS
    <3>3. c \in BramEntry /\ c.phy_addr = x /\ c.blk_size = l[k].blk_size + s
      <4>1. l[k].blk_size + s \in Nat
        BY <2>f, <1>0
      <4> QED
        BY <4>1, <3>c, BramBlk
    <3>a. r = B!Joined(g, k)
      BY <2>4, <2>r, <3>c, <3>g
    <3>b. c.phy_addr + c.blk_size = l[k].phy_addr + l[k].blk_size
      BY <3>3, <2>4, <2>f, <1>0
    <3>4. ASSUME NEW j \in 1 .. n, j > k PROVE c.phy_addr + c.blk_size <= l[j].phy_addr
      BY <3>4, <3>b, <2>1, <1>1
    <3>5. ASSUME NEW j \in 1 .. n, j < k PROVE l[j].phy_addr + l[j].blk_size <= c.phy_addr
      BY <3>3, <3>5, <2>2
    <3>6. ASSUME NEW u \in Int
          PROVE  BramIn(c, u) <=> BramIn(l[k], u) \/ (x <= u /\ u < x + s)
      <4>1. e.phy_addr \in Nat /\ e.blk_size \in Nat /\ e.phy_addr + e.blk_size = l[k].phy_addr
            /\ c.blk_size = e.blk_size + l[k].blk_size /\ c.phy_addr = e.phy_addr
        BY <3>3, <2>4, <2>f, <1>e, <1>0
      <4>2. BramIn(c, u) <=> BramIn(e, u) \/ BramIn(l[k], u)
        BY <4>1, <2>f, BramInJoin
      <4> QED
        BY <4>2, <1>e DEF BramIn
    <3>7. /\ c.blk_size > 0
          /\ c.phy_addr + c.blk_size <= tot_mem
      BY <3>3, <3>b, <2>f, <1>0
    <3>8. /\ BramSorted(g) /\ Len(g) = n /\ BramCover(g) = BramCover(l) \cup B!Units(x, s)
      <4>1. BramSorted(l) /\ k \in 1 .. Len(l)
        BY <2>1, <1>p
      <4>2. /\ \A j \in 1 .. Len(l) : j < k => l[j].phy_addr + l[j].blk_size <= c.phy_addr
            /\ \A j \in 1 .. Len(l) : j > k => c.phy_addr + c.blk_size <= l[j].phy_addr
            /\ \A u \in Int : BramIn(c, u) <=> BramIn(l[k], u) \/ (x <= u /\ u < x + s)
        BY <3>4, <3>5, <3>6
      <4>3. BramGrown(l, k, c, x, s)
        BY <4>2, <3>3, <3>7 DEF BramGrown
      <4>4. /\ BramSorted([l EXCEPT ![k] = c]) /\ Len([l EXCEPT ![k] = c]) = Len(l)
            /\ BramCover([l EXCEPT ![k] = c]) = BramCover(l) \cup B!Units(x, s)
        BY <4>1, <4>3, BramGrow, Zenon
      <4> QED
        BY <4>4, <3>g
    <3>10. BramSorted(B!Joined(g, k)) /\ BramCover(B!Joined(g, k)) = BramCover(g)
      BY <3>8, <2>1, BramJoined
    <3> QED
      BY <3>8, <3>a, <3>10, <1>p DEF r
  <2>5. CASE ~(x > l[k].phy_addr) /\ x + s # l[k].phy_addr
    <3>1. r = Inserted(l, k - 1, e)
      <4>1. (k - 1) + 1 = k
        BY <2>1
      <4> QED
        BY <4>1, <2>5, <2>r DEF Inserted
    <3>2. k - 1 \in 0 .. n
      BY <2>1, <1>1
    <3>n. PICK m : m = k - 1
      OBVIOUS
    <3>m. r = Inserted(l, m, e) /\ m \in 0 .. Len(l) /\ l \in Seq(BramEntry)
      BY <3>1, <3>2, <3>n, <1>1
    <3>3. /\ r \in Seq(BramEntry) /\ Len(r) = n + 1
          /\ \A j \in 1 .. n + 1 : r[j] =
                IF j <= m THEN l[j] ELSE IF j = m + 1 THEN e ELSE l[j - 1]
      <4>1. e \in BramEntry
        BY <1>e
      <4>2. /\ Inserted(l, m, e) \in Seq(BramEntry) /\ Len(Inserted(l, m, e)) = Len(l) + 1
            /\ \A j \in 1 .. Len(l) + 1 : Inserted(l, m, e)[j] =
                  IF j <= m THEN l[j] ELSE IF j = m + 1 THEN e ELSE l[j - 1]
        <5>1. l \in Seq(BramEntry) /\ m \in 0 .. Len(l)
          BY <3>m
        <5> QED
          BY <5>1, <4>1, ListInsert
      <4> QED
        BY <3>m, <4>2
    <3>4. ASSUME NEW j \in 1 .. n, j <= m PROVE l[j].phy_addr + l[j].blk_size <= x
      <4>1. j < k
        BY <3>4, <3>n, <2>1
      <4> QED
        BY <4>1, <2>2
    <3>5. ASSUME NEW j \in 1 .. n, j > m PROVE x + s <= l[j].phy_addr
      <4>1. j >= k
        BY <3>5, <3>n, <2>1
      <4>2. x < l[k].phy_addr
        BY <2>1, <2>5, <2>f, <1>0
      <4>3. l[k].phy_addr <= l[j].phy_addr /\ l[j].phy_addr \in Nat
        <5>1. CASE j = k
          BY <5>1, <2>f
        <5>2. CASE j > k
          BY <5>2, <2>1, <2>f, <1>1
        <5> QED
          BY <5>1, <5>2, <4>1, <2>1
      <4>4. x < l[j].phy_addr
        BY <4>2, <4>3, <2>f
      <4> QED
        BY <4>4, <1>2
    <3>6. BramSorted(l) /\ m \in 0 .. Len(l)
      BY <3>2, <3>n, <1>p
    <3>7. BramSorted(r) /\ BramCover(r) = BramCover(l) \cup B!Units(x, s)
      BY <3>3, <3>4, <3>5, <3>6, <1>q, BramInsert
    <3> QED
      BY <3>7, <1>p DEF r
  <2> QED
    BY <2>3, <2>4, <2>5
<1> QED
  BY <1>3, <1>4

\* The manager counts with the same cardinality.
LEMMA BramCount ==
    ASSUME NEW S
    PROVE  B!Cardinality(S) = Cardinality(S)
BY DEF Cardinality, B!Cardinality, IsFiniteSet, B!IsFiniteSet

LEMMA BramFinite ==
    ASSUME tot_mem \in Nat, NEW l
    PROVE  /\ IsFiniteSet(BramCover(l)) /\ Cardinality(BramCover(l)) \in Nat
           /\ IsFiniteSet(0 .. tot_mem - 1) /\ Cardinality(0 .. tot_mem - 1) = tot_mem
           /\ BramCover(l) \subseteq 0 .. tot_mem - 1
<1>1. IsFiniteSet(0 .. tot_mem - 1) /\ Cardinality(0 .. tot_mem - 1) = tot_mem
  <2>1. 0 \in Int /\ tot_mem - 1 \in Int
    OBVIOUS
  <2> QED
    BY <2>1, FS_Interval
<1>2. BramCover(l) \subseteq 0 .. tot_mem - 1
  BY DEF BramCover
<1>3. IsFiniteSet(BramCover(l))
  BY <1>1, <1>2, FS_Subset
<1> QED
  BY <1>1, <1>2, <1>3, FS_CardinalityType

LEMMA BramUnits ==
    ASSUME NEW s \in Nat \ {0}, NEW a \in Nat
    PROVE  IsFiniteSet(B!Units(a, s)) /\ Cardinality(B!Units(a, s)) = s
<1>1. a \in Int /\ a + s - 1 \in Int /\ ~(a > a + s - 1) /\ (a + s - 1) - a + 1 = s
  OBVIOUS
<1>2. B!Units(a, s) = a .. a + s - 1
  BY DEF B!Units
<1> QED
  BY <1>1, <1>2, FS_Interval

\* The units of the blocks that are given out.
LEMMA BramAllocUnits ==
    ASSUME NEW u
    PROVE  u \in B!AllocUnits
             <=> \E b \in mem_alloc : u \in B!Units(b.phy_addr, b.blk_size)
BY DEF B!AllocUnits

\* What the invariant says of a block that is given out.
LEMMA BramBlocks ==
    ASSUME BramOK, BramLists, NEW b \in mem_alloc
    PROVE  /\ b \in BramEntry /\ b.phy_addr \in Nat /\ b.blk_size \in Nat \ {0}
           /\ b.phy_addr + b.blk_size <= tot_mem
           /\ b.phy_addr \in B!Units(b.phy_addr, b.blk_size)
           /\ B!Units(b.phy_addr, b.blk_size) \subseteq B!AllocUnits
           /\ \A d \in mem_alloc : b # d =>
                 /\ B!Units(b.phy_addr, b.blk_size) \cap B!Units(d.phy_addr, d.blk_size) = {}
                 /\ b.phy_addr # d.phy_addr
<1>1. \A d \in mem_alloc :
         /\ d \in BramEntry /\ d.phy_addr \in Nat /\ d.blk_size \in Nat
         /\ d.blk_size > 0 /\ d.phy_addr + d.blk_size <= tot_mem
  BY DEF BramLists, BramEntry
<1>2. B!Units(b.phy_addr, b.blk_size) \subseteq B!AllocUnits
  BY BramAllocUnits
<1>3. b.phy_addr \in B!Units(b.phy_addr, b.blk_size)
  BY <1>1 DEF B!Units
<1>4. ASSUME NEW d \in mem_alloc, b # d
      PROVE  /\ B!Units(b.phy_addr, b.blk_size) \cap B!Units(d.phy_addr, d.blk_size) = {}
             /\ b.phy_addr # d.phy_addr
  <2>1. \/ b.phy_addr + b.blk_size <= d.phy_addr
        \/ d.phy_addr + d.blk_size <= b.phy_addr
    BY <1>4 DEF BramLists
  <2> QED
    BY <2>1, <1>1 DEF B!Units
<1> QED
  BY <1>1, <1>2, <1>3, <1>4

\* Nothing has been asked for at the start.
LEMMA BramInit ==
    ASSUME BramOK, B!Init
    PROVE  BramInv
<1> DEFINE b == B!Blk(0, tot_mem)
<1>0. tot_mem \in Nat \ {0}
  BY DEF BramOK
<1>1. /\ mem_free = <<b>> /\ mem_alloc = {} /\ bram_grants = {} /\ free_mem = tot_mem
      /\ bram_call = [c \in Caller |-> B!Idle] /\ lost = {}
  BY DEF B!Init
<1>2. b \in BramEntry /\ b.phy_addr = 0 /\ b.blk_size = tot_mem
  BY <1>0, BramBlk
<1> HIDE DEF b
<1>4. mem_free \in Seq(BramEntry) /\ Len(mem_free) = 1 /\ mem_free[1] = b
  BY <1>1, <1>2
<1>5. BramSorted(mem_free)
  <2>1. ASSUME NEW k \in 1 .. Len(mem_free) PROVE mem_free[k] = b
    BY <1>4
  <2>2. ASSUME NEW i \in 1 .. Len(mem_free), NEW j \in 1 .. Len(mem_free) PROVE ~(i < j)
    BY <1>4
  <2> QED
    BY <2>1, <2>2, <1>0, <1>2, <1>4 DEF BramSorted
<1>6. BramCover(mem_free) = 0 .. tot_mem - 1
  <2>1. ASSUME NEW u \in 0 .. tot_mem - 1
        PROVE  \E k \in 1 .. Len(mem_free) : BramIn(mem_free[k], u)
    <3>1. 1 \in 1 .. Len(mem_free) /\ BramIn(mem_free[1], u)
      BY <1>0, <1>2, <1>4 DEF BramIn
    <3> QED
      BY <3>1
  <2> QED
    BY <2>1 DEF BramCover
<1>7. B!AllocUnits = {}
  BY <1>1, BramAllocUnits
<1>8. free_mem = Cardinality(BramCover(mem_free))
  BY <1>0, <1>1, <1>6, BramFinite
<1>9. BramLists
  BY <1>1, <1>5, <1>6, <1>7, <1>8 DEF BramLists
<1>10. \A c \in Caller : bram_call[c] = B!Idle /\ bram_call[c].op = "idle" /\ bram_call[c] \in BramCall
  BY <1>1 DEF B!Idle, BramCall
<1>11. BramHolders
  BY <1>1, <1>10 DEF BramHolders, BramHeld
<1>12. BramCalls
  BY <1>1, <1>10 DEF BramCalls
<1> QED
  BY <1>9, <1>11, <1>12 DEF BramInv

\* Steps that leave the lists alone: nothing is newly held.
LEMMA BramListsKept ==
    ASSUME BramInv, UNCHANGED <<mem_free, mem_alloc, free_mem, lost>>,
           bram_grants' \subseteq BramGrant,
           \A g \in BramGrant : BramHeld(g)' => BramHeld(g)
    PROVE  BramLists' /\ BramHolders'
<1>1. BramLists'
  BY DEF BramInv, BramLists, B!AllocUnits
<1>2. BramHolders'
  BY DEF BramInv, BramHolders
<1> QED
  BY <1>1, <1>2

\* No call is under way.
BramQuiet == \A c \in Caller : bram_call[c] = B!Idle /\ bram_call[c].op = "idle"

LEMMA BramQuietCalls ==
    ASSUME BramQuiet, bram_call \in [Caller -> BramCall]
    PROVE  BramCalls /\ \A g : BramHeld(g) => g \in bram_grants /\ g.from = "bram"
BY DEF BramQuiet, BramCalls, BramHeld

\* A call ends: no other was under way.
LEMMA BramCallEnds ==
    ASSUME BramCalls, NEW c \in Caller, bram_call[c].op # "idle",
           bram_call' = [bram_call EXCEPT ![c] = B!Idle]
    PROVE  BramQuiet' /\ bram_call' \in [Caller -> BramCall]
<1>1. bram_call \in [Caller -> BramCall] /\ B!Idle \in BramCall /\ B!Idle.op = "idle"
  BY DEF BramCalls, BramCall, B!Idle
<1>2. \A d \in Caller : d # c => bram_call[d] = B!Idle
  BY <1>1 DEF BramCalls
<1> QED
  BY <1>1, <1>2 DEF BramQuiet

\* A caller enters the manager while nobody is in it.
LEMMA BramEnters ==
    ASSUME BramCalls, NEW c \in Caller, ~\E d \in Caller : bram_call[d] # B!Idle
    PROVE  BramQuiet /\ bram_call \in [Caller -> BramCall]
BY DEF BramQuiet, BramCalls, B!Idle

\* xib_alloc_coherent has found a block.
LEMMA BramFinds ==
    ASSUME BramOK, BramInv, NEW c \in Caller, NEW size \in Sizes,
           B!AllocFind(c, size), ~spoilt'
    PROVE  BramInv'
<1>0. size \in Nat \ {0} /\ BramLists /\ BramHolders /\ BramCalls
  BY DEF BramOK, BramInv
<1>1. ~\E d \in Caller : bram_call[d] # B!Idle
  BY Zenon DEF B!AllocFind, B!Enter
<1>2. BramQuiet /\ bram_call \in [Caller -> BramCall]
  BY <1>0, <1>1, BramEnters
<1>3. PICK k : k = B!Min(B!Fits(size))
  OBVIOUS
<1>4. k \in 1 .. Len(mem_free) /\ mem_free[k].blk_size >= B!round_up(size)
  <2>1. B!Fits(size)
          = {j \in 1 .. Len(mem_free) : mem_free[j].blk_size >= B!round_up(size)}
    BY <1>0, BramFields DEF B!Fits, BramLists, BramSorted
  <2>2. B!Fits(size) \in SUBSET Nat /\ B!Fits(size) # {}
    BY <2>1 DEF B!AllocFind
  <2>3. k \in B!Fits(size)
    BY <2>2, <1>3, BramMin
  <2> QED
    BY <2>1, <2>3
<1>5. PICK r : r = [op |-> "alloc", size |-> size, next |-> mem_free[k]]
  OBVIOUS
<1>6. /\ r \in BramCall /\ r.op = "alloc" /\ r.size = size /\ r.next = mem_free[k]
  <2>1. mem_free[k] \in BramEntry
    BY <1>0, <1>4, BramSortedFields DEF BramLists
  <2> QED
    BY <2>1, <1>0, <1>5 DEF BramCall
<1>7. /\ bram_call' = [bram_call EXCEPT ![c] = r]
      /\ UNCHANGED <<mem_free, mem_alloc, free_mem, bram_grants, lost>>
  BY <1>3, <1>5 DEF B!AllocFind
<1>8. /\ bram_call' \in [Caller -> BramCall] /\ bram_call'[c] = r
      /\ \A d \in Caller : d # c => bram_call'[d] = B!Idle /\ bram_call'[d].op = "idle"
  BY <1>2, <1>6, <1>7 DEF BramQuiet
<1>9. BramCalls'
  BY <1>4, <1>6, <1>7, <1>8 DEF BramCalls, B!round_up
<1>10. \A g \in BramGrant : BramHeld(g)' => BramHeld(g)
  BY <1>6, <1>7, <1>8 DEF BramHeld
<1>11. BramLists' /\ BramHolders'
  BY <1>0, <1>7, <1>10, BramListsKept DEF BramHolders
<1> QED
  BY <1>9, <1>11 DEF BramInv

\* A block is taken from the list.
LEMMA BramTakes ==
    ASSUME BramOK, BramLists, NEW z \in Nat \ {0}, NEW k \in 1 .. Len(mem_free),
           mem_free[k].blk_size >= B!round_up(z),
           NEW a, a = mem_free[k].phy_addr, NEW t, t = B!Taken(mem_free[k], z),
           mem_free' = B!Without(k, z), mem_alloc' = mem_alloc \cup {B!Blk(a, t)},
           free_mem' = free_mem - t, lost' = lost
    PROVE  /\ BramLists' /\ B!Blk(a, t) \in mem_alloc'
           /\ B!Blk(a, t).phy_addr = a /\ z <= B!Blk(a, t).blk_size
           /\ \A b \in mem_alloc : b.phy_addr # a
<1>0. tot_mem \in Nat \ {0}
  BY DEF BramOK
<1>b. PICK n : n = B!Blk(a, t)
  OBVIOUS
<1>1. /\ BramSorted(mem_free) /\ mem_free[k] \in BramEntry
      /\ a \in Nat /\ mem_free[k].blk_size \in Nat
      /\ a + mem_free[k].blk_size <= tot_mem
  BY BramSortedFields DEF BramLists
<1>2. t \in Nat \ {0} /\ z <= t /\ t <= mem_free[k].blk_size
  BY <1>1, BramTaken
<1>3. n \in BramEntry /\ n.phy_addr = a /\ n.blk_size = t
  BY <1>1, <1>2, <1>b, BramBlk
<1>4. BramSorted(mem_free') /\ BramCover(mem_free') = BramCover(mem_free) \ B!Units(a, t)
  BY <1>1, BramTake
<1>5. B!Units(a, t) \subseteq BramCover(mem_free)
  <2> SUFFICES ASSUME NEW u \in B!Units(a, t)
               PROVE  u \in 0 .. tot_mem - 1 /\ BramIn(mem_free[k], u)
    BY DEF BramCover
  <2>1. u \in Int /\ a <= u /\ u < a + t
    BY <1>1, <1>2 DEF B!Units
  <2> QED
    BY <2>1, <1>0, <1>1, <1>2, SMTT(20) DEF BramIn
<1>6. BramCover(mem_free) = (0 .. tot_mem - 1) \ (B!AllocUnits \cup lost)
      /\ lost \cap B!AllocUnits = {}
  BY DEF BramLists
<1>7. ASSUME NEW b \in mem_alloc
      PROVE  /\ b.phy_addr # a
             /\ b.phy_addr + b.blk_size <= a \/ a + t <= b.phy_addr
  <2>1. /\ b.phy_addr \in Nat /\ b.blk_size \in Nat \ {0}
        /\ b.phy_addr \in B!Units(b.phy_addr, b.blk_size)
        /\ B!Units(b.phy_addr, b.blk_size) \subseteq B!AllocUnits
    BY BramBlocks
  <2>2. a \notin B!Units(b.phy_addr, b.blk_size) /\ b.phy_addr \notin B!Units(a, t)
    <3>1. a \in B!Units(a, t)
      BY <1>1, <1>2 DEF B!Units
    <3> QED
      BY <3>1, <2>1, <1>5, <1>6
  <2> QED
    BY <2>1, <2>2, <1>1, <1>2, SMTT(20) DEF B!Units
<1>8. ASSUME NEW u PROVE u \in B!AllocUnits' <=> u \in B!AllocUnits \/ u \in B!Units(a, t)
  <2>1. u \in B!AllocUnits' <=> \E b \in mem_alloc' : u \in B!Units(b.phy_addr, b.blk_size)
    BY DEF B!AllocUnits
  <2> QED
    BY <2>1, <1>3, <1>b, BramAllocUnits
<1>9. /\ BramCover(mem_free') = (0 .. tot_mem - 1) \ (B!AllocUnits' \cup lost')
      /\ lost' \cap B!AllocUnits' = {}
  BY <1>4, <1>5, <1>6, <1>8
<1>10. /\ mem_alloc' \subseteq BramEntry
       /\ \A b \in mem_alloc' : b.blk_size > 0 /\ b.phy_addr + b.blk_size <= tot_mem
  <2>1. n.blk_size > 0 /\ n.phy_addr + n.blk_size <= tot_mem
    BY <1>0, <1>1, <1>2, <1>3
  <2>2. mem_alloc' = mem_alloc \cup {n}
    BY <1>b
  <2> QED
    BY <2>1, <2>2, <1>3 DEF BramLists
<1>11. ASSUME NEW b \in mem_alloc', NEW d \in mem_alloc', b # d
       PROVE  \/ b.phy_addr + b.blk_size <= d.phy_addr
              \/ d.phy_addr + d.blk_size <= b.phy_addr
  <2>1. mem_alloc' = mem_alloc \cup {n}
    BY <1>b
  <2>2. CASE b = n \/ d = n
    BY <2>1, <2>2, <1>3, <1>7, <1>11
  <2>3. CASE b # n /\ d # n
    BY <2>1, <2>3, <1>11 DEF BramLists
  <2> QED
    BY <2>2, <2>3
<1>12. free_mem' = Cardinality(BramCover(mem_free'))
  <2>1. IsFiniteSet(BramCover(mem_free)) /\ Cardinality(BramCover(mem_free)) \in Nat
    BY <1>0, BramFinite
  <2>2. Cardinality(B!Units(a, t)) = t /\ BramCover(mem_free) \cap B!Units(a, t) = B!Units(a, t)
    BY <1>1, <1>2, <1>5, BramUnits
  <2>3. PICK C : C = BramCover(mem_free)
    OBVIOUS
  <2>4. PICK U : U = B!Units(a, t)
    OBVIOUS
  <2>5. Cardinality(C \ U) = Cardinality(C) - Cardinality(C \cap U)
    BY <2>1, <2>3, FS_Difference
  <2>6. free_mem = Cardinality(C)
    BY <2>3 DEF BramLists
  <2> QED
    BY <2>2, <2>3, <2>4, <2>5, <2>6, <1>4
<1>13. BramLists'
  BY <1>4, <1>9, <1>10, <1>11, <1>12 DEF BramLists
<1> QED
  BY <1>2, <1>3, <1>7, <1>13, <1>b

\* alloc_mem cuts the block that it found.
LEMMA BramAlloc ==
    ASSUME BramOK, BramInv, NEW c \in Caller, B!alloc_mem(c)
    PROVE  BramInv'
<1> DEFINE b == bram_call[c].next
           z == bram_call[c].size
           t == B!Taken(b, z)
           g0 == B!Grant(b.phy_addr, z, "bram")
<1>0. BramLists /\ BramHolders /\ BramCalls /\ bram_call[c] \in BramCall /\ bram_call[c].op = "alloc"
  BY DEF BramInv, BramCalls, B!alloc_mem
<1>1. z \in Nat \ {0} /\ b \in BramEntry /\ b.phy_addr \in Nat
  BY <1>0 DEF BramCall, BramEntry
<1>2. /\ b.blk_size >= B!round_up(z)
      /\ \E k \in 1 .. Len(mem_free) : mem_free[k] = b
  BY <1>0 DEF BramCalls
<1>3. DOMAIN mem_free = 1 .. Len(mem_free)
  BY <1>0, BramSortedFields DEF BramLists
<1>4. PICK k \in 1 .. Len(mem_free) : mem_free[k] = b /\ mem_free' = B!Without(k, z)
  BY <1>2, <1>3 DEF B!alloc_mem
<1>5. /\ mem_alloc' = mem_alloc \cup {B!Blk(b.phy_addr, t)} /\ free_mem' = free_mem - t
      /\ bram_grants' = bram_grants \cup {g0} /\ bram_call' = [bram_call EXCEPT ![c] = B!Idle] /\ lost' = lost
  BY DEF B!alloc_mem
<1>6. g0 \in BramGrant /\ g0.addr = b.phy_addr /\ g0.size = z /\ g0.from = "bram"
  BY <1>1 DEF B!Grant, BramGrant
<1>7. BramQuiet' /\ bram_call' \in [Caller -> BramCall]
  BY <1>0, <1>5, BramCallEnds
<1>8. BramCalls' /\ \A g : BramHeld(g)' => g \in bram_grants' /\ g.from = "bram"
  <2>1. BramCalls'
    BY <1>7 DEF BramQuiet, BramCalls
  <2> QED
    BY <2>1, <1>7 DEF BramQuiet, BramHeld
<1> HIDE DEF b, z, t, g0
<1>9. /\ BramLists' /\ B!Blk(b.phy_addr, t) \in mem_alloc'
      /\ B!Blk(b.phy_addr, t).phy_addr = b.phy_addr /\ z <= B!Blk(b.phy_addr, t).blk_size
      /\ \A d \in mem_alloc : d.phy_addr # b.phy_addr
  BY <1>0, <1>1, <1>2, <1>4, <1>5, BramTakes DEF t
<1>10. ASSUME NEW g \in BramGrant, BramHeld(g)'
       PROVE  g = g0 \/ (BramHeld(g) /\ g.addr # g0.addr
                           /\ \E d \in mem_alloc' : d.phy_addr = g.addr /\ g.size <= d.blk_size)
  <2>1. g \in bram_grants \cup {g0} /\ g.from = "bram"
    BY <1>5, <1>8, <1>10
  <2>2. CASE g \in bram_grants
    <3>1. BramHeld(g)
      BY <2>1, <2>2 DEF BramHeld
    <3>2. PICK d \in mem_alloc : d.phy_addr = g.addr /\ g.size <= d.blk_size
      BY <1>0, <3>1 DEF BramHolders
    <3> QED
      BY <1>5, <1>6, <1>9, <3>1, <3>2
  <2> QED
    BY <2>1, <2>2
<1>11. BramHolders'
  <2>1. bram_grants' \subseteq BramGrant
    BY <1>0, <1>5, <1>6 DEF BramHolders
  <2>2. \A g \in BramGrant : BramHeld(g)' =>
          \E d \in mem_alloc' : d.phy_addr = g.addr /\ g.size <= d.blk_size
    BY <1>6, <1>9, <1>10
  <2>3. \A g, h \in BramGrant : BramHeld(g)' /\ BramHeld(h)' /\ g.addr = h.addr => g = h
    BY <1>0, <1>10 DEF BramHolders
  <2> QED
    BY <2>1, <2>2, <2>3 DEF BramHolders
<1> QED
  BY <1>8, <1>9, <1>11 DEF BramInv

\* DMA memory is held.
LEMMA BramDma ==
    ASSUME BramOK, bram_grants \subseteq BramGrant, NEW size \in Nat \ {0},
           B!dma_alloc_coherent(size)
    PROVE  /\ bram_grants' \subseteq BramGrant
           /\ \A g \in bram_grants' : g.from = "bram" => g \in bram_grants
<1>1. PICK a \in DmaAddrs : bram_grants' = bram_grants \cup {B!Grant(a, size, "dma")}
  BY DEF B!dma_alloc_coherent
<1>2. /\ B!Grant(a, size, "dma") \in BramGrant
      /\ B!Grant(a, size, "dma").from = "dma"
  BY DEF B!Grant, BramGrant, BramOK
<1> QED
  BY <1>1, <1>2

\* xib_alloc_coherent that falls back to DMA memory.
LEMMA BramFallback ==
    ASSUME BramOK, BramInv, NEW c \in Caller, NEW size \in Sizes,
           B!Fallback(c, size), ~spoilt'
    PROVE  BramInv'
<1>0. size \in Nat \ {0} /\ BramHolders /\ BramCalls
  BY DEF BramOK, BramInv
<1>1. ~\E d \in Caller : bram_call[d] # B!Idle
  BY Zenon DEF B!Fallback, B!Enter
<1>2. BramQuiet /\ bram_call \in [Caller -> BramCall]
  BY <1>0, <1>1, BramEnters
<1>3. UNCHANGED <<mem_free, mem_alloc, free_mem, bram_call, lost>> /\ B!dma_alloc_coherent(size)
  BY DEF B!Fallback
<1>4. /\ bram_grants' \subseteq BramGrant
      /\ \A g \in bram_grants' : g.from = "bram" => g \in bram_grants
  BY <1>0, <1>3, BramDma DEF BramHolders
<1>5. \A g \in BramGrant : BramHeld(g)' => BramHeld(g)
  BY <1>3, <1>4 DEF BramHeld
<1>6. BramCalls'
  BY <1>2, <1>3 DEF BramQuiet, BramCalls
<1> QED
  BY <1>3, <1>4, <1>5, <1>6, BramListsKept DEF BramInv

\* A call that ends without a change of the lists.
LEMMA BramEnds ==
    ASSUME BramOK, BramInv, NEW c \in Caller, bram_call[c].op # "idle",
           bram_call' = [bram_call EXCEPT ![c] = B!Idle],
           UNCHANGED <<mem_free, mem_alloc, free_mem, lost>>, bram_grants' \subseteq BramGrant,
           \A g \in bram_grants' : g.from = "bram" => g \in bram_grants
    PROVE  BramInv'
<1>1. BramQuiet' /\ bram_call' \in [Caller -> BramCall]
  BY BramCallEnds DEF BramInv
<1>2. BramCalls'
  BY <1>1 DEF BramQuiet, BramCalls
<1>3. \A g \in BramGrant : BramHeld(g)' => BramHeld(g)
  BY <1>1 DEF BramQuiet, BramHeld
<1> QED
  BY <1>2, <1>3, BramListsKept DEF BramInv

\* xib_free_coherent of a buffer of the block RAM begins.
LEMMA BramFreeBegins ==
    ASSUME BramOK, BramInv, NEW c \in Caller, NEW h \in bram_grants, B!FreeBegin(c, h), ~spoilt'
    PROVE  BramInv'
<1>0. BramHolders /\ BramCalls /\ h \in BramGrant
  BY DEF BramInv, BramHolders
<1>1. ~(\E d \in Caller : bram_call[d] # B!Idle) /\ h.from # "dma"
  BY Zenon DEF B!FreeBegin
<1>2. BramQuiet /\ bram_call \in [Caller -> BramCall]
  BY <1>0, <1>1, BramEnters
<1>3. h.from = "bram"
  BY <1>0, <1>1 DEF BramGrant
<1>4. PICK r : r = [op |-> "free", grant |-> h]
  OBVIOUS
<1>5. r \in BramCall /\ r.op = "free" /\ r.grant = h
  BY <1>0, <1>4 DEF BramCall
<1>6. /\ bram_grants' = bram_grants \ {h}
      /\ (bram_call' = bram_call \/ bram_call' = [bram_call EXCEPT ![c] = r])
      /\ UNCHANGED <<mem_free, mem_alloc, free_mem, lost>>
  BY <1>4 DEF B!FreeBegin
<1>7. bram_grants' \subseteq BramGrant
  BY <1>0, <1>6 DEF BramHolders
<1>8. /\ bram_call' \in [Caller -> BramCall]
      /\ \A d \in Caller : \/ bram_call'[d] = B!Idle /\ bram_call'[d].op = "idle"
                           \/ d = c /\ bram_call'[d] = r
  <2>1. \A d \in Caller : bram_call[d] = B!Idle /\ bram_call[d].op = "idle"
    BY <1>2 DEF BramQuiet
  <2>2. CASE bram_call' = bram_call
    BY <2>1, <2>2, <1>2
  <2>3. CASE bram_call' = [bram_call EXCEPT ![c] = r]
    <3>1. /\ bram_call' \in [Caller -> BramCall] /\ bram_call'[c] = r
          /\ \A d \in Caller : d # c => bram_call'[d] = bram_call[d]
      BY <2>3, <1>2, <1>5
    <3> QED
      BY <3>1, <2>1
  <2> QED
    BY <2>2, <2>3, <1>6
<1>9. BramCalls'
  BY <1>5, <1>6, <1>8 DEF BramCalls
<1>10. \A g \in BramGrant : BramHeld(g)' => BramHeld(g)
  BY <1>3, <1>5, <1>6, <1>8 DEF BramHeld
<1> QED
  BY <1>6, <1>7, <1>9, <1>10, BramListsKept DEF BramInv

\* A caller gives back memory that the manager does not take for its own.
LEMMA BramFreeDma ==
    ASSUME BramOK, BramInv, NEW h \in bram_grants, B!FreeDma(h)
    PROVE  BramInv'
<1>1. UNCHANGED <<mem_free, mem_alloc, free_mem, bram_call, lost>> /\ bram_grants' = bram_grants \ {h}
  BY DEF B!FreeDma
<1>2. bram_grants' \subseteq BramGrant /\ \A g \in BramGrant : BramHeld(g)' => BramHeld(g)
  BY <1>1 DEF BramInv, BramHolders, BramHeld
<1>3. BramCalls'
  BY <1>1 DEF BramInv, BramCalls
<1> QED
  BY <1>1, <1>2, <1>3, BramListsKept DEF BramInv

\* A buffer goes back into the list, and its block out of the table.
LEMMA BramGives ==
    ASSUME BramOK, BramLists, NEW b \in mem_alloc, NEW x, x = b.phy_addr,
           NEW s \in Nat \ {0}, s <= b.blk_size, ~B!JoinsApart(x, s),
           mem_free' = B!FreeInto(x, s), free_mem' = free_mem + s,
           mem_alloc' = {d \in mem_alloc : d.phy_addr # x},
           lost' = lost \cup ((UNION {B!Units(d.phy_addr, d.blk_size) : d \in mem_alloc \ mem_alloc'})
                                \ B!Units(x, s))
    PROVE  BramLists' /\ mem_alloc' = mem_alloc \ {b}
<1> DEFINE V == B!Units(b.phy_addr, b.blk_size)
           U == B!Units(x, s)
           C == BramCover(mem_free)
<1>0. tot_mem \in Nat \ {0}
  BY DEF BramOK
<1>1. /\ b \in BramEntry /\ x \in Nat /\ b.blk_size \in Nat \ {0}
      /\ x + b.blk_size <= tot_mem /\ V \subseteq B!AllocUnits
      /\ \A d \in mem_alloc : b # d =>
            V \cap B!Units(d.phy_addr, d.blk_size) = {} /\ x # d.phy_addr
  BY BramBlocks
<1>2. /\ mem_alloc' = mem_alloc \ {b} /\ mem_alloc \ mem_alloc' = {b}
  BY <1>1
<1>3. lost' = lost \cup (V \ U)
  <2>1. PICK D : D = mem_alloc \ mem_alloc'
    OBVIOUS
  <2>3. lost' = lost \cup ((UNION {B!Units(d.phy_addr, d.blk_size) : d \in D}) \ U)
    BY <2>1
  <2>4. D = {b}
    BY <2>1, <1>2
  <2>5. UNION {B!Units(d.phy_addr, d.blk_size) : d \in D} = V
    <3>1. ASSUME NEW u PROVE u \in UNION {B!Units(d.phy_addr, d.blk_size) : d \in D} <=> u \in V
      BY <2>4
    <3> QED
      BY <3>1
  <2> QED
    BY <2>3, <2>5
<1>4. U \subseteq V /\ U \subseteq 0 .. tot_mem - 1 /\ x + s <= tot_mem
  BY <1>0, <1>1 DEF B!Units
<1>5. /\ C = (0 .. tot_mem - 1) \ (B!AllocUnits \cup lost) /\ lost \cap B!AllocUnits = {}
      /\ BramSorted(mem_free) /\ free_mem = Cardinality(C)
  BY DEF BramLists
<1>6. ASSUME NEW k \in 1 .. Len(mem_free), NEW u \in x .. x + s - 1
      PROVE  ~BramIn(mem_free[k], u)
  <2>1. u \in U
    BY DEF B!Units
  <2>2. u \notin C /\ u \in 0 .. tot_mem - 1
    BY <2>1, <1>1, <1>4, <1>5
  <2> QED
    BY <2>2 DEF BramCover
<1>7. BramSorted(mem_free') /\ BramCover(mem_free') = C \cup U
  BY <1>1, <1>4, <1>5, <1>6, BramGive
<1>8. ASSUME NEW u PROVE u \in B!AllocUnits' <=> u \in B!AllocUnits /\ u \notin V
  <2>1. u \in B!AllocUnits' <=> \E d \in mem_alloc' : u \in B!Units(d.phy_addr, d.blk_size)
    BY DEF B!AllocUnits
  <2>2. u \in B!AllocUnits <=> \E d \in mem_alloc : u \in B!Units(d.phy_addr, d.blk_size)
    BY BramAllocUnits
  <2>3. ASSUME NEW d \in mem_alloc, u \in B!Units(d.phy_addr, d.blk_size), d # b
        PROVE  u \notin V
    BY <2>3, <1>1
  <2> QED
    BY <2>1, <2>2, <2>3, <1>2
<1> HIDE DEF V, U, C
<1>9. /\ C \cup U = (0 .. tot_mem - 1) \ (B!AllocUnits' \cup lost')
      /\ lost' \cap B!AllocUnits' = {}
  BY <1>1, <1>3, <1>4, <1>5, <1>8
<1>10. free_mem' = Cardinality(C \cup U)
  <2>1. IsFiniteSet(C) /\ Cardinality(C) \in Nat
    BY <1>0, BramFinite DEF C
  <2>2. IsFiniteSet(U) /\ Cardinality(U) = s
    BY <1>1, BramUnits DEF U
  <2>3. C \cap U = {} /\ Cardinality({}) = 0
    BY <1>1, <1>4, <1>5, FS_EmptySet
  <2>4. Cardinality(C \cup U) = Cardinality(C) + Cardinality(U) - Cardinality(C \cap U)
    BY <2>1, <2>2, FS_Union
  <2>5. Cardinality(C \cap U) = 0
    BY <2>3
  <2>6. free_mem = Cardinality(C)
    BY <1>5
  <2> QED
    BY <2>1, <2>2, <2>4, <2>5, <2>6
<1>11. /\ mem_alloc' \subseteq BramEntry
       /\ \A d \in mem_alloc' : d.blk_size > 0 /\ d.phy_addr + d.blk_size <= tot_mem
       /\ \A d, e \in mem_alloc' :
            d # e => \/ d.phy_addr + d.blk_size <= e.phy_addr
                     \/ e.phy_addr + e.blk_size <= d.phy_addr
  BY <1>2 DEF BramLists
<1>12. BramLists'
  BY <1>7, <1>9, <1>10, <1>11 DEF BramLists
<1> QED
  BY <1>2, <1>12

\* The rest of free_mem_alloc.
LEMMA BramFree ==
    ASSUME BramOK, BramInv, NEW c \in Caller, B!free_mem_alloc(c), ~spoilt'
    PROVE  BramInv'
<1> DEFINE g0 == bram_call[c].grant
<1>0. BramLists /\ BramHolders /\ BramCalls /\ bram_call[c] \in BramCall /\ bram_call[c].op = "free"
  BY DEF BramInv, BramCalls, B!free_mem_alloc
<1>1. g0 \in BramGrant /\ g0 \notin bram_grants /\ BramHeld(g0)
  <2>1. g0 \in BramGrant
    BY <1>0 DEF BramCall
  <2> QED
    BY <2>1, <1>0 DEF BramCalls, BramHeld
<1>2. bram_call' = [bram_call EXCEPT ![c] = B!Idle] /\ bram_grants' = bram_grants
  BY DEF B!free_mem_alloc
<1>3. CASE \E k \in DOMAIN mem_free : B!Hit(mem_free[k], g0.addr)
  <2>1. UNCHANGED <<mem_free, mem_alloc, free_mem, lost>>
    BY <1>3 DEF B!free_mem_alloc
  <2>2. bram_grants' \subseteq BramGrant
    BY <1>0, <1>2 DEF BramHolders
  <2> QED
    BY <2>1, <2>2, <1>0, <1>2, BramEnds
<1>4. CASE ~\E k \in DOMAIN mem_free : B!Hit(mem_free[k], g0.addr)
  <2>1. PICK b \in mem_alloc : b.phy_addr = g0.addr /\ g0.size <= b.blk_size
    BY <1>0, <1>1 DEF BramHolders
  <2>2. g0.size \in Nat \ {0}
    BY <1>1 DEF BramGrant
  <2>3. /\ mem_free' = B!FreeInto(g0.addr, g0.size) /\ free_mem' = free_mem + g0.size
        /\ mem_alloc' = {d \in mem_alloc : d.phy_addr # g0.addr}
        /\ lost' = lost \cup ((UNION {B!Units(d.phy_addr, d.blk_size) :
                                        d \in mem_alloc \ mem_alloc'})
                                \ B!Units(g0.addr, g0.size))
    BY <1>4, Zenon DEF B!free_mem_alloc
  <2>4. ~B!JoinsApart(g0.addr, g0.size)
    BY <1>4, Zenon DEF B!free_mem_alloc
  <2> HIDE DEF g0
  <2>5. BramLists' /\ mem_alloc' = mem_alloc \ {b}
    BY <1>0, <2>1, <2>2, <2>3, <2>4, BramGives
  <2>6. BramQuiet' /\ bram_call' \in [Caller -> BramCall]
    BY <1>0, <1>2, BramCallEnds
  <2>7. BramCalls'
    BY <2>6 DEF BramQuiet, BramCalls
  <2>8. ASSUME NEW g \in BramGrant, BramHeld(g)'
        PROVE  /\ BramHeld(g)
               /\ \E d \in mem_alloc' : d.phy_addr = g.addr /\ g.size <= d.blk_size
    <3>1. g \in bram_grants /\ g.from = "bram"
      BY <2>6, <2>8, <1>2 DEF BramQuiet, BramHeld
    <3>2. BramHeld(g) /\ g # g0
      BY <3>1, <1>1 DEF BramHeld
    <3>3. g.addr # g0.addr
      BY <3>2, <1>0, <1>1 DEF BramHolders
    <3>4. PICK d \in mem_alloc : d.phy_addr = g.addr /\ g.size <= d.blk_size
      BY <3>2, <1>0 DEF BramHolders
    <3> QED
      BY <3>2, <3>3, <3>4, <2>1, <2>5
  <2>9. BramHolders'
    BY <2>8, <1>0, <1>2 DEF BramHolders
  <2> QED
    BY <2>5, <2>7, <2>9 DEF BramInv
<1> QED
  BY <1>3, <1>4

\* Every step keeps the lists right, until they are spoilt.
LEMMA BramStep ==
    ASSUME BramOK, BramInv, [B!Next]_bramVars, ~spoilt'
    PROVE  BramInv'
<1>1. CASE UNCHANGED bramVars
  <2>1. UNCHANGED <<mem_free, mem_alloc, free_mem, bram_grants, bram_call, lost>>
    BY <1>1 DEF bramVars
  <2>2. bram_grants' \subseteq BramGrant /\ \A g \in BramGrant : BramHeld(g)' => BramHeld(g)
    BY <2>1 DEF BramInv, BramHolders, BramHeld
  <2>3. BramCalls'
    BY <2>1 DEF BramInv, BramCalls
  <2> QED
    BY <2>1, <2>2, <2>3, BramListsKept DEF BramInv
<1>2. ASSUME NEW c \in Caller, NEW size \in Sizes, B!AllocFind(c, size) \/ B!Fallback(c, size)
      PROVE  BramInv'
  BY <1>2, BramFinds, BramFallback
<1>3. ASSUME NEW c \in Caller, B!AllocFails(c) \/ B!FreeFails(c)
      PROVE  BramInv'
  <2>0. BramHolders /\ BramCalls /\ bram_call[c] \in BramCall
    BY DEF BramInv, BramCalls
  <2>1. CASE B!AllocFails(c)
    <3>1. /\ bram_call[c].op = "alloc" /\ bram_call' = [bram_call EXCEPT ![c] = B!Idle]
          /\ UNCHANGED <<mem_free, mem_alloc, free_mem, lost>>
          /\ B!dma_alloc_coherent(bram_call[c].size)
      BY <2>1 DEF B!AllocFails
    <3>2. bram_call[c].size \in Nat \ {0}
      BY <2>0, <3>1 DEF BramCall
    <3>3. /\ bram_grants' \subseteq BramGrant
          /\ \A g \in bram_grants' : g.from = "bram" => g \in bram_grants
      BY <2>0, <3>1, <3>2, BramDma DEF BramHolders
    <3> QED
      BY <3>1, <3>3, BramEnds
  <2>2. CASE B!FreeFails(c)
    <3>1. /\ bram_call[c].op = "free" /\ bram_call' = [bram_call EXCEPT ![c] = B!Idle]
          /\ UNCHANGED <<mem_free, mem_alloc, free_mem, lost>> /\ bram_grants' = bram_grants
      BY <2>2 DEF B!FreeFails
    <3> QED
      BY <3>1, <2>0, BramEnds DEF BramHolders
  <2> QED
    BY <1>3, <2>1, <2>2
<1>4. ASSUME NEW c \in Caller, B!alloc_mem(c) \/ B!free_mem_alloc(c)
      PROVE  BramInv'
  BY <1>4, BramAlloc, BramFree
<1>5. ASSUME NEW c \in Caller, NEW g \in bram_grants, B!FreeBegin(c, g) PROVE BramInv'
  BY <1>5, BramFreeBegins
<1>6. ASSUME NEW g \in bram_grants, B!FreeDma(g) PROVE BramInv'
  BY <1>6, BramFreeDma
<1> QED
  BY <1>1, <1>2, <1>3, <1>4, <1>5, <1>6 DEF B!Next

\* What is spoilt stays spoilt.
LEMMA BramSpoilt ==
    ASSUME [B!Next]_bramVars, spoilt
    PROVE  spoilt'
<1>1. ASSUME NEW c \in Caller PROVE ~B!Enter(c)
  BY Zenon DEF B!Enter
<1>2. ASSUME NEW c, NEW size PROVE ~B!AllocFind(c, size) /\ ~B!Fallback(c, size)
  BY Zenon DEF B!AllocFind, B!Fallback, B!Enter
<1>3. ASSUME NEW c, NEW g PROVE ~B!FreeBegin(c, g)
  BY Zenon DEF B!FreeBegin
<1>4. ASSUME NEW c, B!alloc_mem(c) \/ B!AllocFails(c) \/ B!FreeFails(c) PROVE spoilt'
  BY <1>4 DEF B!alloc_mem, B!AllocFails, B!FreeFails
<1>5. ASSUME NEW c, B!free_mem_alloc(c) PROVE spoilt'
  <2>1. CASE \E k \in DOMAIN mem_free : B!Hit(mem_free[k], bram_call[c].grant.addr)
    BY <1>5, <2>1 DEF B!free_mem_alloc
  <2>2. CASE ~\E k \in DOMAIN mem_free : B!Hit(mem_free[k], bram_call[c].grant.addr)
    BY <1>5, <2>2, Zenon DEF B!free_mem_alloc
  <2> QED
    BY <2>1, <2>2
<1>6. ASSUME NEW g, B!FreeDma(g) PROVE spoilt'
  BY <1>6 DEF B!FreeDma
<1>7. UNCHANGED bramVars => spoilt'
  BY DEF bramVars
<1> QED
  BY <1>2, <1>3, <1>4, <1>5, <1>6, <1>7 DEF B!Next

\* The property follows from the invariant.
LEMMA BramInvExact ==
    ASSUME BramOK, BramInv
    PROVE  B!BramExact
<1>0. tot_mem \in Nat \ {0} /\ BramLists /\ BramHolders
  BY DEF BramOK, BramInv
<1>1. ASSUME NEW g \in bram_grants, g.from = "bram"
      PROVE  /\ g \in BramGrant /\ BramHeld(g)
             /\ \E b \in mem_alloc :
                  /\ b.phy_addr = g.addr
                  /\ B!Units(g.addr, g.size) \subseteq B!Units(b.phy_addr, b.blk_size)
  <2>1. g \in BramGrant /\ BramHeld(g) /\ g.size \in Nat
    BY <1>0, <1>1 DEF BramHolders, BramHeld, BramGrant
  <2>2. PICK b \in mem_alloc : b.phy_addr = g.addr /\ g.size <= b.blk_size
    BY <1>0, <2>1 DEF BramHolders
  <2>3. b.phy_addr \in Nat /\ b.blk_size \in Nat
    BY <1>0, BramBlocks
  <2> QED
    BY <2>1, <2>2, <2>3 DEF B!Units
<1>2. ASSUME NEW g \in bram_grants, NEW h \in bram_grants, g # h
      PROVE  g.from = "dma" \/ h.from = "dma"
               \/ B!Units(g.addr, g.size) \cap B!Units(h.addr, h.size) = {}
  <2>1. g.from \in {"bram", "dma"} /\ h.from \in {"bram", "dma"}
    BY <1>0 DEF BramHolders, BramGrant
  <2>2. CASE g.from = "bram" /\ h.from = "bram"
    <3>1. PICK b \in mem_alloc :
             /\ b.phy_addr = g.addr
             /\ B!Units(g.addr, g.size) \subseteq B!Units(b.phy_addr, b.blk_size)
      BY <2>2, <1>1
    <3>2. PICK d \in mem_alloc :
             /\ d.phy_addr = h.addr
             /\ B!Units(h.addr, h.size) \subseteq B!Units(d.phy_addr, d.blk_size)
      BY <2>2, <1>1
    <3>3. g.addr # h.addr
      BY <2>2, <1>0, <1>1, <1>2 DEF BramHolders
    <3>4. b # d
      BY <3>1, <3>2, <3>3
    <3>5. B!Units(b.phy_addr, b.blk_size) \cap B!Units(d.phy_addr, d.blk_size) = {}
      BY <3>4, <1>0, BramBlocks
    <3> QED
      BY <3>1, <3>2, <3>5
  <2> QED
    BY <2>1, <2>2
<1>3. ASSUME NEW g \in bram_grants, g.from = "bram"
      PROVE  B!Units(g.addr, g.size) \subseteq B!AllocUnits
  BY <1>0, <1>1, <1>3, BramBlocks
<1>4. B!FreeUnits = BramCover(mem_free)
  BY <1>0, BramFreeUnits DEF BramLists
<1>5. free_mem = B!Cardinality(B!FreeUnits)
  BY <1>0, <1>4, BramCount DEF BramLists
<1>6. \A i, j \in DOMAIN mem_free : i < j => B!End(mem_free[i]) <= mem_free[j].phy_addr
  BY <1>0, BramSortedFields DEF BramLists, B!End
<1>7. B!FreeUnits = (0 .. tot_mem - 1) \ (B!AllocUnits \cup lost)
  BY <1>0, <1>4 DEF BramLists
<1> QED
  BY <1>2, <1>3, <1>5, <1>6, <1>7 DEF B!BramExact

\* Block RAM is not given out twice, and the free list and free_mem say what is
\* free, for any memory, any sizes, any rounding and any unit below which a rest
\* is not split off, also when the kzalloc of a call fails, until a freed block
\* is joined to one it does not touch, DMA memory at the end is freed into the
\* manager, or two calls overlap (xib_alloc_coherent, xib_free_coherent).
THEOREM DriverBramExact ==
    ASSUME BramOK
    PROVE  Spec => []BramExact
<1> DEFINE Inv == part = "bram" /\ ~spoilt => BramInv
<1>1. Init => Inv
  BY BramInit DEF Init
<1>2. Inv /\ [Next]_vars => Inv'
  <2> SUFFICES ASSUME Inv, [Next]_vars, part' = "bram", ~spoilt'
               PROVE  BramInv'
    OBVIOUS
  <2>1. part = "bram" /\ [B!Next]_bramVars
    BY DEF Next, vars, bramVars
  <2>2. ~spoilt
    BY <2>1, BramSpoilt
  <2> QED
    BY <2>1, <2>2, BramStep
<1>3. Inv => BramExact
  <2>1. ASSUME spoilt PROVE B!BramExact
    BY <2>1 DEF B!BramExact
  <2> QED
    BY <2>1, BramInvExact DEF BramExact
<1> QED
  BY <1>1, <1>2, <1>3, PTL DEF Spec
-----------------------------------------------------------------------------
(* QP1: the two instances of the composition are those of XibGsiProofs.     *)

GRP == INSTANCE XibGsiProofs WITH max_wr <- 3, RecvCredit <- 2, MaxRecv <- 5, MaxSend <- 1
GSP == INSTANCE XibGsiProofs WITH max_wr <- 2, RecvCredit <- 1, MaxRecv <- 0, MaxSend <- 3

\* QP1 with many datagrams that arrive is that of the proofs.
LEMMA GsiRecvSame ==
    /\ GR!Init <=> GRP!Init
    /\ GR!Next <=> GRP!Next
    /\ GR!MadsExact <=> GRP!MadsExact
    /\ GR!SendsReportedInOrder <=> GRP!SendsReportedInOrder
<1>1. GR!Init <=> GRP!Init
  BY DEF GR!Init, GRP!Init, GR!Slots, GRP!Slots
<1>2. GR!Next <=> GRP!Next
  BY DEF GR!PostRecv, GRP!PostRecv, GR!HwDatagram, GRP!HwDatagram, GR!HandlerBegin,
         GRP!HandlerBegin, GR!HandlerFrame, GRP!HandlerFrame, GR!xib_modify_qp,
         GRP!xib_modify_qp, GR!PostBegin, GRP!PostBegin, GR!PostWr, GRP!PostWr,
         GR!PostWrFails, GRP!PostWrFails, GR!PostSqd, GRP!PostSqd, GR!send_out_cnp,
         GRP!send_out_cnp, GR!HwSend, GRP!HwSend, GR!PollBegin, GRP!PollBegin,
         GR!PollRecv, GRP!PollRecv, GR!PollRecvDone, GRP!PollRecvDone, GR!PollSend,
         GRP!PollSend, GR!PollSendDone, GRP!PollSendDone, GR!PollFlush, GRP!PollFlush,
         GR!Handler, GRP!Handler, GR!PollStep, GRP!PollStep, GR!Next, GRP!Next,
         GR!Slots, GRP!Slots, GR!CNP, GRP!CNP, GR!RingInc, GRP!RingInc, GR!RingPtr,
         GRP!RingPtr, GR!xib_get_rq_recd, GRP!xib_get_rq_recd, GR!EagerReset,
         GRP!EagerReset, GR!Spare, GRP!Spare, GR!FillsRing, GRP!FillsRing,
         GR!SqLockFree, GRP!SqLockFree, GR!Ring, GRP!Ring,
         GR!xib_prepare_sgl, GRP!xib_prepare_sgl, GR!Budget, GRP!Budget, GR!ReportsSend,
         GRP!ReportsSend, GR!recvVars, GRP!recvVars, GR!ringVars, GRP!ringVars,
         GR!hwSendVars, GRP!hwSendVars, GR!sqdVars, GRP!sqdVars, GR!reapVars,
         GRP!reapVars
<1> QED
  BY <1>1, <1>2 DEF GR!MadsExact, GRP!MadsExact, GR!MadsInOrder, GRP!MadsInOrder,
                    GR!NoMadLeftBehind, GRP!NoMadLeftBehind, GR!SendsReportedInOrder,
                    GRP!SendsReportedInOrder, GR!SendsReported, GRP!SendsReported,
                    GR!ToReport, GRP!ToReport, GR!CNP, GRP!CNP

\* A behaviour of it stays one, step by step.
LEMMA GsiRecvSteps ==
    ASSUME [Next]_vars
    PROVE  /\ part = "gsi_recv" => part' = "gsi_recv" /\ [GRP!Next]_(GRP!vars)
           /\ part # "gsi_recv" => part' # "gsi_recv"
<1>1. CASE Next
  BY <1>1, GsiRecvSame DEF Next
<1>2. CASE UNCHANGED vars
  BY <1>2 DEF vars, gsiVars, GRP!vars, GRP!recvVars, GRP!ringVars, GRP!hwSendVars,
              GRP!sqdVars, GRP!reapVars
<1> QED
  BY <1>1, <1>2

\* QP1 with many that are sent is that of the proofs.
LEMMA GsiSendSame ==
    /\ GS!Init <=> GSP!Init
    /\ GS!Next <=> GSP!Next
    /\ GS!MadsExact <=> GSP!MadsExact
    /\ GS!SendsReportedInOrder <=> GSP!SendsReportedInOrder
<1>1. GS!Init <=> GSP!Init
  BY DEF GS!Init, GSP!Init, GS!Slots, GSP!Slots
<1>2. GS!Next <=> GSP!Next
  BY DEF GS!PostRecv, GSP!PostRecv, GS!HwDatagram, GSP!HwDatagram, GS!HandlerBegin,
         GSP!HandlerBegin, GS!HandlerFrame, GSP!HandlerFrame, GS!xib_modify_qp,
         GSP!xib_modify_qp, GS!PostBegin, GSP!PostBegin, GS!PostWr, GSP!PostWr,
         GS!PostWrFails, GSP!PostWrFails, GS!PostSqd, GSP!PostSqd, GS!send_out_cnp,
         GSP!send_out_cnp, GS!HwSend, GSP!HwSend, GS!PollBegin, GSP!PollBegin,
         GS!PollRecv, GSP!PollRecv, GS!PollRecvDone, GSP!PollRecvDone, GS!PollSend,
         GSP!PollSend, GS!PollSendDone, GSP!PollSendDone, GS!PollFlush, GSP!PollFlush,
         GS!Handler, GSP!Handler, GS!PollStep, GSP!PollStep, GS!Next, GSP!Next,
         GS!Slots, GSP!Slots, GS!CNP, GSP!CNP, GS!RingInc, GSP!RingInc, GS!RingPtr,
         GSP!RingPtr, GS!xib_get_rq_recd, GSP!xib_get_rq_recd, GS!EagerReset,
         GSP!EagerReset, GS!Spare, GSP!Spare, GS!FillsRing, GSP!FillsRing,
         GS!SqLockFree, GSP!SqLockFree, GS!Ring, GSP!Ring,
         GS!xib_prepare_sgl, GSP!xib_prepare_sgl, GS!Budget, GSP!Budget, GS!ReportsSend,
         GSP!ReportsSend, GS!recvVars, GSP!recvVars, GS!ringVars, GSP!ringVars,
         GS!hwSendVars, GSP!hwSendVars, GS!sqdVars, GSP!sqdVars, GS!reapVars,
         GSP!reapVars
<1> QED
  BY <1>1, <1>2 DEF GS!MadsExact, GSP!MadsExact, GS!MadsInOrder, GSP!MadsInOrder,
                    GS!NoMadLeftBehind, GSP!NoMadLeftBehind, GS!SendsReportedInOrder,
                    GSP!SendsReportedInOrder, GS!SendsReported, GSP!SendsReported,
                    GS!ToReport, GSP!ToReport, GS!CNP, GSP!CNP

\* A behaviour of it stays one, step by step.
LEMMA GsiSendSteps ==
    ASSUME [Next]_vars
    PROVE  /\ part = "gsi_send" => part' = "gsi_send" /\ [GSP!Next]_(GSP!vars)
           /\ part # "gsi_send" => part' # "gsi_send"
<1>1. CASE Next
  BY <1>1, GsiSendSame DEF Next
<1>2. CASE UNCHANGED vars
  BY <1>2 DEF vars, gsiVars, GSP!vars, GSP!recvVars, GSP!ringVars, GSP!hwSendVars,
              GSP!sqdVars, GSP!reapVars
<1> QED
  BY <1>1, <1>2

\* The bounds of QP1 that its proofs ask for.
GsiOK == MaxChain \in Nat /\ MaxEntries \in Nat

\* In both instances of QP1 they are what its proofs assume.
LEMMA GsiConstants == GsiOK => GRP!ConstantsOK /\ GSP!ConstantsOK
BY DEF GsiOK, GRP!ConstantsOK, GSP!ConstantsOK

\* Until the tasklet counts a whole turn of the ring again, management datagrams
\* are reported once each, in order and in the receives posted for them, and
\* none is left behind when the tasklet is done, whatever the poll, the posts
\* and the hardware interleave with (xib_gsi_comp_handler, xib_gsi_poll_cq).
THEOREM DriverMadsExact ==
    ASSUME GsiOK
    PROVE  Spec => []MadsExact
<1>1. /\ Init /\ part = "gsi_recv" => GRP!Init
      /\ Init /\ part = "gsi_send" => GSP!Init
  BY GsiRecvSame, GsiSendSame DEF Init
<1>2. [Next]_vars =>
          /\ part = "gsi_recv" => (part = "gsi_recv")' /\ [GRP!Next]_(GRP!vars)
          /\ ~(part = "gsi_recv") => ~(part = "gsi_recv")'
          /\ part = "gsi_send" => (part = "gsi_send")' /\ [GSP!Next]_(GSP!vars)
          /\ ~(part = "gsi_send") => ~(part = "gsi_send")'
  BY GsiRecvSteps, GsiSendSteps
<1>3. GRP!Spec => []GRP!MadsExact
  BY GsiConstants, GRP!GsiMadsExact
<1>4. GSP!Spec => []GSP!MadsExact
  BY GsiConstants, GSP!GsiMadsExact
<1>5. /\ ~(part = "gsi_recv") \/ GRP!MadsExact
      /\ ~(part = "gsi_send") \/ GSP!MadsExact
      => MadsExact
  BY GsiRecvSame, GsiSendSame DEF MadsExact
<1> QED
  BY <1>1, <1>2, <1>3, <1>4, <1>5, PTL DEF Spec, GRP!Spec, GSP!Spec

\* As long as no entry of QP1's send ring is reused before it was polled, the
\* signaled sends that succeeded are reported once each, in order and by their
\* ids, with any notifications in the ring (xib_gsi_post_send, send_out_cnp,
\* xib_gsi_poll_cq).
THEOREM DriverSendsReportedInOrder ==
    ASSUME GsiOK
    PROVE  Spec => []SendsReportedInOrder
<1>1. /\ Init /\ part = "gsi_recv" => GRP!Init
      /\ Init /\ part = "gsi_send" => GSP!Init
  BY GsiRecvSame, GsiSendSame DEF Init
<1>2. [Next]_vars =>
          /\ part = "gsi_recv" => (part = "gsi_recv")' /\ [GRP!Next]_(GRP!vars)
          /\ ~(part = "gsi_recv") => ~(part = "gsi_recv")'
          /\ part = "gsi_send" => (part = "gsi_send")' /\ [GSP!Next]_(GSP!vars)
          /\ ~(part = "gsi_send") => ~(part = "gsi_send")'
  BY GsiRecvSteps, GsiSendSteps
<1>3. GRP!Spec => []GRP!SendsReportedInOrder
  BY GsiConstants, GRP!GsiSendsReportedInOrder
<1>4. GSP!Spec => []GSP!SendsReportedInOrder
  BY GsiConstants, GSP!GsiSendsReportedInOrder
<1>5. /\ ~(part = "gsi_recv") \/ GRP!SendsReportedInOrder
      /\ ~(part = "gsi_send") \/ GSP!SendsReportedInOrder
      => SendsReportedInOrder
  BY GsiRecvSame, GsiSendSame DEF SendsReportedInOrder
<1> QED
  BY <1>1, <1>2, <1>3, <1>4, <1>5, PTL DEF Spec, GRP!Spec, GSP!Spec
=============================================================================
