------------------------- MODULE XibRecvQueueProofs -------------------------
(***************************************************************************)
(* Proofs about the kernel QP's receive queue, for rings of every depth    *)
(* and consumers of every credit below it.                                 *)
(***************************************************************************)
EXTENDS XibRecvQueueCorrect, RingLemmas, SequenceTheorems

\* The depth is a positive number and the credit is below it.
LEMMA DepthFacts ==
    /\ rq_max_wr \in Nat \ {0}
    /\ RecvCredit \in Nat /\ RecvCredit < rq_max_wr
    /\ MaxRecv \in Nat
    /\ MaxEntries \in Nat \ {0}
BY RecvQueueAssumption, CreditAssumption

\* Storing a value of the right type keeps a function's type.
LEMMA ExceptType ==
    ASSUME NEW S, NEW T, NEW f \in [S -> T], NEW i, NEW v \in T
    PROVE  [f EXCEPT ![i] = v] \in [S -> T]
OBVIOUS

\* A pointer over 1..rq_max_wr stays in 0..rq_max_wr.
LEMMA RingPtrType ==
    ASSUME NEW n \in Nat
    PROVE  RingPtr(n) \in 0 .. rq_max_wr
<1>1. CASE n = 0
  BY <1>1, DepthFacts DEF RingPtr
<1>2. CASE n # 0
  <2>1. n - 1 \in Nat
    BY <1>2
  <2>2. (n - 1) % rq_max_wr \in 0 .. rq_max_wr - 1
    BY <2>1, DepthFacts, DivMod
  <2> HIDE DEF RingPtr
  <2>3. RingPtr(n) = ((n - 1) % rq_max_wr) + 1
    BY <1>2 DEF RingPtr
  <2> QED BY <2>2, <2>3, DepthFacts
<1> QED BY <1>1, <1>2

\* The lazy wrap turns the pointer of a count into the entry of the count,
\* and the increment turns it back into a pointer.
LEMMA RingPtrWrap ==
    ASSUME NEW n \in Nat
    PROVE  /\ WrapLocal(RingPtr(n)) = n % rq_max_wr
           /\ (n % rq_max_wr) + 1 = RingPtr(n + 1)
<1>1. (n % rq_max_wr) + 1 = RingPtr(n + 1)
  <2>1. n + 1 # 0 /\ (n + 1) - 1 = n
    OBVIOUS
  <2> QED BY <2>1 DEF RingPtr
<1>2. CASE n = 0
  <2>1. 0 % rq_max_wr = 0
    BY DepthFacts
  <2> QED BY <1>1, <1>2, <2>1, DepthFacts DEF RingPtr, WrapLocal
<1>3. CASE n # 0
  <2> DEFINE m == n - 1
             r == m % rq_max_wr
  <2>1. m \in Nat /\ n = m + 1
    BY <1>3
  <2> HIDE DEF m
  <2>2. r \in 0 .. rq_max_wr - 1
    BY <2>1, DepthFacts, DivMod
  <2>3. n % rq_max_wr = (r + 1) % rq_max_wr
    BY <2>1, DepthFacts, ModInc
  <2>4. RingPtr(n) = r + 1
    BY <1>3 DEF RingPtr, m
  <2> HIDE DEF r
  <2>5. CASE r + 1 = rq_max_wr
    <3>1. (r + 1) % rq_max_wr = 0
      BY <2>5, DepthFacts
    <3> QED BY <1>1, <2>3, <2>4, <2>5, <3>1 DEF WrapLocal
  <2>6. CASE r + 1 # rq_max_wr
    <3>1. r + 1 \in 0 .. rq_max_wr - 1
      BY <2>2, <2>6, DepthFacts
    <3>2. (r + 1) % rq_max_wr = r + 1
      BY <3>1, DepthFacts
    <3> QED BY <1>1, <2>3, <2>4, <2>6, <3>2 DEF WrapLocal
  <2> QED BY <2>5, <2>6
<1> QED BY <1>2, <1>3

\* Two pointers less than a full turn apart determine the distance of their
\* counts: xib_get_rq_recd and get_rq_pending_cnt both return it.
LEMMA RingPtrDistance ==
    ASSUME NEW a \in Nat, NEW b \in Nat, a <= b, b - a < rq_max_wr
    PROVE  /\ xib_get_rq_recd(RingPtr(a), RingPtr(b)) = b - a
           /\ get_rq_pending_cnt(RingPtr(b), RingPtr(a)) = b - a
<1>1. CASE a = b
  <2>1. b - a = 0
    BY <1>1
  <2> QED BY <1>1, <2>1 DEF xib_get_rq_recd, get_rq_pending_cnt
<1>2. CASE a # b /\ a = 0
  <2>1. b - 1 \in 0 .. rq_max_wr - 1 /\ b # 0
    BY <1>2, DepthFacts
  <2>2. (b - 1) % rq_max_wr = b - 1
    BY <2>1, DepthFacts
  <2>3. RingPtr(b) = b
    BY <2>1, <2>2 DEF RingPtr
  <2>4. RingPtr(a) = 0
    BY <1>2 DEF RingPtr
  <2>5. b > 0 /\ b # 0
    BY <1>2
  <2> QED BY <1>2, <2>3, <2>4, <2>5, DepthFacts
          DEF xib_get_rq_recd, get_rq_pending_cnt
<1>3. CASE a # b /\ a # 0
  <2> DEFINE c == a - 1
             d == b - a
             r == c % rq_max_wr
             s == (c + d) % rq_max_wr
  <2>1. c \in Nat /\ d \in 0 .. rq_max_wr - 1 /\ d > 0 /\ b - 1 = c + d
        /\ b # 0 /\ a = c + 1
    BY <1>3, DepthFacts
  <2>2. RingPtr(a) = r + 1 /\ RingPtr(b) = s + 1
    BY <1>3, <2>1 DEF RingPtr
  <2> HIDE DEF c, d
  <2>3. r \in 0 .. rq_max_wr - 1
    BY <2>1, DepthFacts, DivMod
  <2>4. s = IF r + d < rq_max_wr THEN r + d ELSE (r + d) - rq_max_wr
    BY <2>1, DepthFacts, ModDistance
  <2> HIDE DEF r, s
  <2>5. /\ xib_get_rq_recd(r + 1, s + 1) = d
        /\ get_rq_pending_cnt(s + 1, r + 1) = d
    BY <2>1, <2>3, <2>4, DepthFacts DEF xib_get_rq_recd, get_rq_pending_cnt
  <2> QED BY <2>2, <2>5 DEF d
<1> QED BY <1>1, <1>2, <1>3

\* The increment of a cursor follows its counter, and stays in the ring.
LEMMA CursorInc ==
    ASSUME NEW n \in Nat
    PROVE  /\ RingInc(n % rq_max_wr) = (n + 1) % rq_max_wr
           /\ n % rq_max_wr \in Slots
           /\ (n + 1) % rq_max_wr \in Slots
<1>1. n + 1 \in Nat
  OBVIOUS
<1> QED BY <1>1, DepthFacts, ModInc, DivMod DEF RingInc, Slots

\* Entries of different counts less than a full turn apart are different.
LEMMA EntriesDistinct ==
    ASSUME NEW a \in Nat, NEW b \in Nat, a # b,
           b - a < rq_max_wr, a - b < rq_max_wr
    PROVE  a % rq_max_wr # b % rq_max_wr
BY DepthFacts, ModDistinct
-----------------------------------------------------------------------------
(* The inductive invariant. *)

LEMMA InitIInv == Init => IInv
<1> SUFFICES ASSUME Init PROVE IInv
  OBVIOUS
<1> USE DepthFacts
<1>1. 0 \in Slots /\ 0 % rq_max_wr = 0 /\ RingPtr(0) = 0
  BY DEF Slots, RingPtr
<1>2. delivered = 0
  BY DEF Init, delivered
<1>3. TypeOK
  BY <1>1 DEF Init, TypeOK, PollType, IdlePoll, WcType, NoWr, NoFrame
<1>4. CounterInv /\ CursorInv /\ PollInv
  BY <1>1, <1>2 DEF Init, CounterInv, CursorInv, PollInv, IdlePoll
<1>5. RequestInv /\ FrameInv /\ CopyInv /\ RecvInOrder
  BY <1>2 DEF Init, RequestInv, FrameInv, CopyInv, RecvInOrder, IdlePoll
<1> QED BY <1>3, <1>4, <1>5 DEF IInv

\* post_recv stores a request in an entry no unreported request uses.
LEMMA PostRecvIInv == IInv /\ PostRecv => IInv'
<1> SUFFICES ASSUME IInv, PostRecv PROVE IInv'
  OBVIOUS
<1> USE DepthFacts
<1>0. /\ delivered \in Nat /\ posted \in Nat /\ popped \in Nat /\ arrived \in Nat
      /\ delivered' = delivered /\ posted' = posted + 1
      /\ popped' = popped /\ arrived' = arrived
      /\ posted - delivered < RecvCredit /\ posted < MaxRecv
  BY DEF IInv, TypeOK, PostRecv, delivered, hwVars
<1>1. prod = posted % rq_max_wr /\ prod \in Slots
      /\ prod' = (posted + 1) % rq_max_wr /\ prod' \in Slots
  BY <1>0, CursorInc DEF IInv, CursorInv, PostRecv
<1>2. TypeOK'
  <2>1. rqe_list' \in [Slots -> Int]
    <3>1. rqe_list \in [Slots -> Int] /\ rqe_list' = [rqe_list EXCEPT ![prod] = posted]
      BY DEF IInv, TypeOK, PostRecv
    <3>2. posted \in Int
      BY <1>0
    <3> QED BY <3>1, <3>2, ExceptType
  <2>2. posted' \in Nat
    BY <1>0
  <2> QED BY <2>1, <2>2, <1>1 DEF IInv, TypeOK, PostRecv, hwVars
<1>3. CounterInv'
  BY <1>0 DEF IInv, CounterInv
<1>4. CursorInv'
  BY <1>0, <1>1 DEF IInv, CursorInv, PostRecv, hwVars, RingPtr
<1>5. RequestInv'
  <2> SUFFICES ASSUME NEW k \in delivered .. posted
               PROVE  rqe_list'[k % rq_max_wr] = k
    BY <1>0 DEF RequestInv
  <2>1. k \in Nat
    BY <1>0
  <2>2. rqe_list' = [rqe_list EXCEPT ![prod] = posted]
        /\ rqe_list \in [Slots -> Int] /\ k % rq_max_wr \in Slots
    BY <2>1, CursorInc DEF IInv, TypeOK, PostRecv
  <2>3. CASE k = posted
    BY <2>2, <2>3, <1>1
  <2>4. CASE k # posted
    <3>1. k % rq_max_wr # posted % rq_max_wr
      <4>1. posted - k < rq_max_wr /\ k - posted < rq_max_wr
        BY <1>0
      <4> QED BY <4>1, <2>1, <2>4, <1>0, EntriesDistinct
    <3>2. rqe_list[k % rq_max_wr] = k
      BY <2>4, <1>0 DEF IInv, RequestInv
    <3> QED BY <2>2, <3>1, <3>2, <1>1
  <2> QED BY <2>3, <2>4
<1>6. PollInv' /\ FrameInv' /\ CopyInv' /\ RecvInOrder'
  BY <1>0 DEF IInv, PollInv, FrameInv, CopyInv, RecvInOrder, PostRecv, hwVars
<1> QED BY <1>2, <1>3, <1>4, <1>5, <1>6 DEF IInv

\* A rejected request leaves the entry it zeroed to the next one: that entry
\* holds no unreported request.
LEMMA PostRecvTooLongIInv == IInv /\ PostRecvTooLong => IInv'
<1> SUFFICES ASSUME IInv, PostRecvTooLong PROVE IInv'
  OBVIOUS
<1> USE DepthFacts
<1>0. /\ delivered \in Nat /\ posted \in Nat
      /\ delivered' = delivered /\ posted' = posted
      /\ posted - delivered < RecvCredit
  BY DEF IInv, TypeOK, PostRecvTooLong, delivered
<1>1. prod = posted % rq_max_wr
  BY DEF IInv, CursorInv
<1>2. TypeOK'
  <2>1. rqe_list' \in [Slots -> Int]
    <3>1. rqe_list \in [Slots -> Int] /\ rqe_list' = [rqe_list EXCEPT ![prod] = NoWr]
      BY DEF IInv, TypeOK, PostRecvTooLong
    <3>2. NoWr \in Int
      BY DEF NoWr
    <3> QED BY <3>1, <3>2, ExceptType
  <2> QED BY <2>1 DEF IInv, TypeOK, PostRecvTooLong, hwVars
<1>3. RequestInv'
  <2> SUFFICES ASSUME NEW k \in delivered .. posted - 1
               PROVE  rqe_list'[k % rq_max_wr] = k
    BY <1>0 DEF RequestInv
  <2>1. k \in Nat /\ k # posted
    BY <1>0
  <2>2. rqe_list' = [rqe_list EXCEPT ![prod] = NoWr]
        /\ rqe_list \in [Slots -> Int] /\ k % rq_max_wr \in Slots
    BY <2>1, CursorInc DEF IInv, TypeOK, PostRecvTooLong
  <2>3. k % rq_max_wr # posted % rq_max_wr
    BY <2>1, <1>0, EntriesDistinct
  <2>4. rqe_list[k % rq_max_wr] = k
    BY DEF IInv, RequestInv
  <2> QED BY <2>2, <2>3, <2>4, <1>1
<1>4. CounterInv' /\ CursorInv' /\ PollInv'
  BY <1>0 DEF IInv, CounterInv, CursorInv, PollInv, PostRecvTooLong, hwVars,
              RingPtr
<1>5. FrameInv' /\ CopyInv' /\ RecvInOrder'
  BY <1>0 DEF IInv, FrameInv, CopyInv, RecvInOrder, PostRecvTooLong, hwVars
<1> QED BY <1>2, <1>3, <1>4, <1>5 DEF IInv

\* The hardware lands a frame in a buffer whose frame was popped.
LEMMA HwReceiveIInv ==
    ASSUME NEW imm \in BOOLEAN, IInv, HwReceive(imm)
    PROVE  IInv'
<1> USE DepthFacts
<1>0. /\ delivered \in Nat /\ posted \in Nat /\ popped \in Nat /\ arrived \in Nat
      /\ delivered' = delivered /\ posted' = posted /\ popped' = popped
      /\ arrived' = arrived + 1 /\ arrived < posted
      /\ arrived - popped < rq_max_wr
      /\ popped <= arrived
  BY DEF IInv, TypeOK, CounterInv, HwReceive, delivered
<1>1. arrived % rq_max_wr \in Slots /\ RingPtr(arrived + 1) \in 0 .. rq_max_wr
  <2>1. arrived + 1 \in Nat
    BY <1>0
  <2> QED BY <2>1, <1>0, CursorInc, RingPtrType
<1>2. rq_noti' \in Seq(Nat)
  BY <1>0 DEF IInv, TypeOK, HwReceive
<1>3. TypeOK'
  <2>1. rq_buf' \in [Slots -> Int]
    <3>1. /\ rq_buf \in [Slots -> Int]
          /\ rq_buf' = [rq_buf EXCEPT ![arrived % rq_max_wr] = arrived]
      BY DEF IInv, TypeOK, HwReceive
    <3>2. arrived \in Int
      BY <1>0
    <3> QED BY <3>1, <3>2, ExceptType
  <2>2. rq_db' \in 0 .. rq_max_wr
    BY <1>1 DEF HwReceive
  <2>3. arrived' \in Nat
    BY <1>0
  <2> QED BY <2>1, <2>2, <2>3, <1>2 DEF IInv, TypeOK, HwReceive, rqVars
<1>4. CounterInv'
  BY <1>0 DEF IInv, CounterInv
<1>5. CursorInv'
  BY <1>0 DEF IInv, CursorInv, HwReceive, rqVars, RingPtr
<1>6. FrameInv'
  <2> SUFFICES ASSUME NEW f \in popped .. arrived
               PROVE  rq_buf'[f % rq_max_wr] = f
    BY <1>0 DEF FrameInv
  <2>1. f \in Nat
    BY <1>0
  <2>2. rq_buf' = [rq_buf EXCEPT ![arrived % rq_max_wr] = arrived]
        /\ rq_buf \in [Slots -> Int] /\ f % rq_max_wr \in Slots
    BY <2>1, CursorInc DEF IInv, TypeOK, HwReceive
  <2>3. CASE f = arrived
    BY <2>2, <2>3
  <2>4. CASE f # arrived
    <3>1. f % rq_max_wr # arrived % rq_max_wr
      <4>1. arrived - f < rq_max_wr /\ f - arrived < rq_max_wr
        BY <1>0
      <4> QED BY <4>1, <2>1, <2>4, <1>0, EntriesDistinct
    <3>2. rq_buf[f % rq_max_wr] = f
      BY <2>4, <1>0 DEF IInv, FrameInv
    <3> QED BY <2>2, <3>1, <3>2
  <2> QED BY <2>3, <2>4
<1>7. PollInv'
  <2>1. poll' = poll /\ poll.recd \in Int /\ poll.loop \in Nat
    BY DEF IInv, TypeOK, PollType, HwReceive
  <2>2. CASE poll.pc \in {"copy", "consume"}
    <3>1. popped + (poll.recd - poll.loop) <= arrived
      BY <2>2 DEF IInv, PollInv
    <3>2. popped + (poll.recd - poll.loop) <= arrived + 1
      BY <3>1, <2>1, <1>0
    <3> QED BY <3>2, <2>1, <1>0 DEF IInv, PollInv
  <2>3. CASE poll.pc \notin {"copy", "consume"}
    BY <2>1, <2>3, <1>0 DEF IInv, PollInv
  <2> QED BY <2>2, <2>3
<1>8. RequestInv' /\ CopyInv' /\ RecvInOrder'
  BY <1>0 DEF IInv, RequestInv, CopyInv, RecvInOrder, HwReceive, rqVars
<1> QED BY <1>3, <1>4, <1>5, <1>6, <1>7, <1>8 DEF IInv

\* The DMA interrupt records immediates and touches nothing else.
LEMMA AxidmaIInv == IInv /\ axidma_rq_recv => IInv'
<1> SUFFICES ASSUME IInv, axidma_rq_recv PROVE IInv'
  OBVIOUS
<1>1. Head(rq_noti) \in Nat /\ Tail(rq_noti) \in Seq(Nat)
  <2>1. rq_noti \in Seq(Nat) /\ rq_noti # << >>
    BY DEF IInv, TypeOK, axidma_rq_recv
  <2> QED BY <2>1
<1>2. imm_inv_data' \in [Slots -> Int] /\ rq_noti' \in Seq(Nat)
  <2>1. imm_inv_data \in [Slots -> Int]
    BY DEF IInv, TypeOK
  <2>2. imm_inv_data' = [imm_inv_data EXCEPT
            ![NotiEntry(RingPtr(Head(rq_noti) + 1))] = Head(rq_noti)]
    BY DEF axidma_rq_recv
  <2>3. rq_noti' = Tail(rq_noti)
    BY DEF axidma_rq_recv
  <2>4. Head(rq_noti) \in Int
    BY <1>1
  <2> QED BY <1>1, <2>1, <2>2, <2>3, <2>4, ExceptType
<1>3. TypeOK'
  BY <1>2 DEF IInv, TypeOK, axidma_rq_recv, rqVars
<1>4. CounterInv' /\ CursorInv' /\ PollInv'
  BY DEF IInv, CounterInv, CursorInv, PollInv, axidma_rq_recv, rqVars,
         delivered, RingPtr
<1>5. RequestInv' /\ FrameInv' /\ CopyInv' /\ RecvInOrder'
  BY DEF IInv, RequestInv, FrameInv, CopyInv, RecvInOrder, axidma_rq_recv,
         rqVars, delivered
<1> QED BY <1>3, <1>4, <1>5 DEF IInv

\* A step that changes the poll record only, and keeps its invariant.
LEMMA PollOnlyIInv ==
    ASSUME IInv, poll' \in PollType, PollInv',
           poll.pc # "consume", poll'.pc # "consume",
           UNCHANGED <<rqVars, hwVars, RQ_CONS_IDX, imm_inv_data, sgl,
                       recv_wcs, posted, popped>>
    PROVE  IInv'
<1>1. TypeOK'
  BY DEF IInv, TypeOK, rqVars, hwVars
<1>2. CounterInv' /\ CursorInv'
  BY DEF IInv, CounterInv, CursorInv, rqVars, hwVars, delivered, RingPtr
<1>3. RequestInv' /\ FrameInv' /\ CopyInv' /\ RecvInOrder'
  BY DEF IInv, RequestInv, FrameInv, CopyInv, RecvInOrder, rqVars, hwVars,
         delivered
<1> QED BY <1>1, <1>2, <1>3 DEF IInv

\* The poll counts exactly the frames that landed and were not popped.
LEMMA PollBeginIInv ==
    ASSUME NEW n \in 1 .. MaxEntries, IInv, PollBegin(n)
    PROVE  IInv'
<1> USE DepthFacts
<1>0. /\ delivered \in Nat /\ posted \in Nat /\ popped \in Nat /\ arrived \in Nat
      /\ popped <= arrived /\ arrived - popped < rq_max_wr
  BY DEF IInv, TypeOK, CounterInv, delivered
<1>1. rq_wrptr_db_local = RingPtr(popped) /\ rq_db = RingPtr(arrived)
  BY DEF IInv, CursorInv, PollBegin
<1>2. xib_get_rq_recd(rq_wrptr_db_local, rq_db) = arrived - popped
  BY <1>0, <1>1, RingPtrDistance
<1>3. poll' = [pc |-> "copy", loop |-> 0, i |-> 0, n |-> n,
               recd |-> arrived - popped]
  BY <1>2 DEF PollBegin
<1>4. poll' \in PollType /\ poll'.pc # "consume" /\ poll.pc # "consume"
  BY <1>0, <1>3 DEF PollType, PollBegin
<1>5. arrived' = arrived /\ popped' = popped
  BY DEF PollBegin, hwVars
<1>6. PollInv'
  BY <1>0, <1>3, <1>5 DEF PollInv
<1> QED BY <1>4, <1>6, PollOnlyIInv DEF PollBegin

LEMMA PopDoneIInv == IInv /\ PopDone => IInv'
<1> SUFFICES ASSUME IInv, PopDone PROVE IInv'
  OBVIOUS
<1>1. poll' \in PollType /\ poll'.pc = "report" /\ poll.pc = "copy"
      /\ poll'.loop = poll.loop /\ poll'.recd = poll.recd
  BY DEF IInv, TypeOK, PollType, PopDone
<1>2. PollInv'
  BY <1>1 DEF IInv, PollInv
<1> QED BY <1>1, <1>2, PollOnlyIInv DEF PopDone

LEMMA ReportDoneIInv == IInv /\ ReportDone => IInv'
<1> SUFFICES ASSUME IInv, ReportDone PROVE IInv'
  OBVIOUS
<1>1. poll' = IdlePoll /\ IdlePoll \in PollType /\ poll.pc = "report"
  BY DEF ReportDone, IdlePoll, PollType
<1>2. PollInv' /\ poll'.pc # "consume"
  BY <1>1 DEF PollInv, IdlePoll
<1> QED BY <1>1, <1>2, PollOnlyIInv DEF ReportDone

\* The copy takes the oldest unpopped frame to the request it was sent to.
LEMMA PopCopyIInv == IInv /\ PopCopy => IInv'
<1> SUFFICES ASSUME IInv, PopCopy PROVE IInv'
  OBVIOUS
<1> USE DepthFacts
<1>0. /\ delivered \in Nat /\ posted \in Nat /\ popped \in Nat /\ arrived \in Nat
      /\ delivered <= popped /\ popped <= arrived /\ arrived <= posted
      /\ posted <= MaxRecv
      /\ delivered' = delivered /\ posted' = posted /\ popped' = popped
      /\ arrived' = arrived
  BY DEF IInv, TypeOK, CounterInv, PopCopy, delivered, hwVars
<1>1. poll.recd \in Int /\ poll.loop \in Nat /\ poll.loop < poll.recd
      /\ popped + (poll.recd - poll.loop) <= arrived /\ poll.pc = "copy"
  BY DEF IInv, TypeOK, PollType, PollInv, PopCopy
<1>2. popped < arrived /\ popped < posted
  BY <1>0, <1>1
<1>3. poll' = [poll EXCEPT !.pc = "consume"] /\ poll' \in PollType
      /\ poll'.pc = "consume" /\ poll'.loop = poll.loop /\ poll'.recd = poll.recd
  BY DEF IInv, TypeOK, PollType, PopCopy
<1>4. rq_wrptr_db_local' = popped % rq_max_wr /\ popped % rq_max_wr \in Slots
  <2>1. rq_wrptr_db_local = RingPtr(popped)
    BY <1>1 DEF IInv, CursorInv
  <2> QED BY <2>1, <1>0, RingPtrWrap, CursorInc DEF PopCopy
<1>5. rqe_list[gsi_cons] = popped /\ rq_buf[popped % rq_max_wr] = popped
  BY <1>0, <1>2 DEF IInv, CursorInv, RequestInv, FrameInv
<1>6. sgl' = [sgl EXCEPT ![popped] = popped]
  BY <1>0, <1>4, <1>5 DEF PopCopy, RequestToFill, NoWr
<1>7. TypeOK'
  <2>1. rq_wrptr_db_local' \in 0 .. rq_max_wr
    BY <1>4 DEF Slots
  <2>2. sgl' \in [0 .. MaxRecv - 1 -> Int]
    <3>1. sgl \in [0 .. MaxRecv - 1 -> Int]
      BY DEF IInv, TypeOK
    <3>2. popped \in Int
      BY <1>0
    <3> QED BY <3>1, <3>2, <1>6, ExceptType
  <2> QED BY <2>1, <2>2, <1>3 DEF IInv, TypeOK, PopCopy, hwVars
<1>8. CounterInv'
  BY <1>0 DEF IInv, CounterInv
<1>9. CursorInv'
  BY <1>0, <1>3, <1>4 DEF IInv, CursorInv, PopCopy, hwVars, RingPtr
<1>10. PollInv'
  BY <1>0, <1>1, <1>3 DEF IInv, PollInv
<1>11. CopyInv'
  <2>1. popped \in 0 .. MaxRecv - 1 /\ sgl \in [0 .. MaxRecv - 1 -> Int]
    BY <1>0, <1>2 DEF IInv, TypeOK
  <2>2. sgl'[popped] = popped
    BY <2>1, <1>6
  <2>3. ASSUME NEW f \in delivered .. popped - 1
        PROVE  sgl'[f] = f
    <3>1. sgl[f] = f /\ f # popped /\ f \in 0 .. MaxRecv - 1
      BY <1>0, <1>2 DEF IInv, CopyInv
    <3> QED BY <3>1, <2>1, <1>6
  <2> QED BY <2>2, <2>3, <1>0 DEF CopyInv
<1>12. RequestInv' /\ FrameInv' /\ RecvInOrder'
  BY <1>0 DEF IInv, RequestInv, FrameInv, RecvInOrder, PopCopy, hwVars
<1> QED BY <1>7, <1>8, <1>9, <1>10, <1>11, <1>12 DEF IInv

\* The cursors move past the copied frame.
LEMMA PopConsumeIInv == IInv /\ PopConsume => IInv'
<1> SUFFICES ASSUME IInv, PopConsume PROVE IInv'
  OBVIOUS
<1> USE DepthFacts
<1>0. /\ delivered \in Nat /\ posted \in Nat /\ popped \in Nat /\ arrived \in Nat
      /\ delivered <= popped /\ popped <= arrived /\ arrived <= posted
      /\ delivered' = delivered /\ posted' = posted /\ popped' = popped + 1
      /\ arrived' = arrived
  BY DEF IInv, TypeOK, CounterInv, PopConsume, delivered, hwVars
<1>1. poll.recd \in Int /\ poll.loop \in Nat /\ poll.loop < poll.recd
      /\ popped + (poll.recd - poll.loop) <= arrived /\ poll.pc = "consume"
  BY DEF IInv, TypeOK, PollType, PollInv, PopConsume
<1>2. popped + 1 <= arrived
  BY <1>0, <1>1
<1>3. poll' \in PollType
      /\ poll'.pc = "copy" /\ poll'.loop = poll.loop + 1
      /\ poll'.recd = poll.recd
  <2>1. poll \in PollType
    BY DEF IInv, TypeOK
  <2>2. poll' = [poll EXCEPT !.pc = "copy", !.loop = poll.loop + 1]
    BY DEF PopConsume
  <2>3. poll.loop + 1 \in Nat
    BY <1>1
  <2> QED BY <2>1, <2>2, <2>3 DEF PollType
<1>4. gsi_cons' = (popped + 1) % rq_max_wr /\ gsi_cons' \in Slots
  BY <1>0, CursorInc DEF IInv, CursorInv, PopConsume
<1>5. rq_wrptr_db_local' = RingPtr(popped + 1)
      /\ RQ_CONS_IDX' = RingPtr(popped + 1)
      /\ RingPtr(popped + 1) \in 0 .. rq_max_wr
  <2>1. rq_wrptr_db_local = popped % rq_max_wr /\ popped + 1 \in Nat
    BY <1>0, <1>1 DEF IInv, CursorInv
  <2> QED BY <2>1, <1>0, RingPtrWrap, RingPtrType DEF PopConsume
<1>6. TypeOK'
  <2>1. popped' \in Nat
    BY <1>0
  <2> QED BY <2>1, <1>3, <1>4, <1>5 DEF IInv, TypeOK, PopConsume, hwVars
<1>7. CounterInv'
  BY <1>0, <1>2 DEF IInv, CounterInv
<1>8. CursorInv'
  <2>1. poll'.pc # "consume"
    BY <1>3
  <2>2. /\ prod' = posted' % rq_max_wr /\ cons' = delivered' % rq_max_wr
        /\ rq_db' = RingPtr(arrived')
    BY <1>0 DEF IInv, CursorInv, PopConsume, hwVars
  <2>3. gsi_cons' = popped' % rq_max_wr /\ RQ_CONS_IDX' = RingPtr(popped')
        /\ rq_wrptr_db_local' = RingPtr(popped')
    BY <1>0, <1>4, <1>5
  <2> QED BY <2>1, <2>2, <2>3 DEF CursorInv, RingPtr
<1>9. PollInv'
  <2>1. (popped + 1) + (poll.recd - (poll.loop + 1)) <= arrived
        /\ poll.loop + 1 <= poll.recd
    BY <1>0, <1>1
  <2> QED BY <2>1, <1>0, <1>3 DEF PollInv
<1>10. CopyInv'
  <2>1. sgl' = sgl /\ sgl[popped] = popped
    BY <1>1 DEF IInv, CopyInv, PopConsume
  <2>2. ASSUME NEW f \in delivered .. popped
        PROVE  sgl'[f] = f
    <3>1. CASE f = popped
      BY <2>1, <3>1
    <3>2. CASE f # popped
      BY <2>1, <3>2, <1>0 DEF IInv, CopyInv
    <3> QED BY <3>1, <3>2
  <2> QED BY <2>2, <1>0, <1>3 DEF CopyInv
<1>11. RequestInv' /\ FrameInv' /\ RecvInOrder'
  BY <1>0 DEF IInv, RequestInv, FrameInv, RecvInOrder, PopConsume, hwVars
<1> QED BY <1>6, <1>7, <1>8, <1>9, <1>10, <1>11 DEF IInv

\* The report names the oldest unreported request, whose frame was copied.
LEMMA ReportIInv == IInv /\ Report => IInv'
<1> SUFFICES ASSUME IInv, Report PROVE IInv'
  OBVIOUS
<1> USE DepthFacts
<1>0. /\ delivered \in Nat /\ posted \in Nat /\ popped \in Nat /\ arrived \in Nat
      /\ delivered <= popped /\ popped <= arrived /\ arrived <= posted
      /\ posted <= delivered + RecvCredit /\ posted <= MaxRecv
      /\ posted' = posted /\ popped' = popped /\ arrived' = arrived
  BY DEF IInv, TypeOK, CounterInv, Report, delivered, hwVars
<1>1. delivered < popped /\ cons = delivered % rq_max_wr
  BY <1>0 DEF IInv, CursorInv, Report
<1>2. rqe_list[cons] = delivered /\ sgl[delivered] = delivered
  BY <1>0, <1>1 DEF IInv, RequestInv, CopyInv
<1> DEFINE wc == [wr_id |-> delivered, data |-> delivered,
                  imm |-> imm_inv_data[cons]]
<1>3. recv_wcs' = Append(recv_wcs, wc)
  BY <1>0, <1>2 DEF Report, NoWr
<1>4. wc \in WcType
  BY <1>0 DEF IInv, TypeOK, WcType
<1>5. /\ recv_wcs \in Seq(WcType) /\ recv_wcs' \in Seq(WcType)
      /\ delivered' = delivered + 1
      /\ \A k \in 1 .. delivered : recv_wcs'[k] = recv_wcs[k]
      /\ recv_wcs'[delivered + 1] = wc
  <2>1. recv_wcs \in Seq(WcType)
    BY DEF IInv, TypeOK
  <2> HIDE DEF wc
  <2> QED BY <2>1, <1>3, <1>4 DEF delivered
<1>6. poll' \in PollType
      /\ poll'.pc = "report" /\ poll.pc = "report"
      /\ poll'.loop = poll.loop /\ poll'.recd = poll.recd
  <2>1. poll \in PollType
    BY DEF IInv, TypeOK
  <2>2. poll' = [poll EXCEPT !.i = poll.i + 1] /\ poll.pc = "report"
    BY DEF Report
  <2>3. poll.i + 1 \in Nat
    BY <2>1 DEF PollType
  <2> QED BY <2>1, <2>2, <2>3 DEF PollType
<1>7. cons' = (delivered + 1) % rq_max_wr /\ cons' \in Slots
  BY <1>0, <1>1, CursorInc DEF Report
<1>8. TypeOK'
  <2>1. imm_inv_data' \in [Slots -> Int]
    <3>1. /\ imm_inv_data \in [Slots -> Int]
          /\ imm_inv_data' = [imm_inv_data EXCEPT ![cons] = NoFrame]
      BY DEF IInv, TypeOK, Report, TakeImm
    <3>2. NoFrame \in Int
      BY DEF NoFrame
    <3> QED BY <3>1, <3>2, ExceptType
  <2> QED BY <2>1, <1>5, <1>6, <1>7 DEF IInv, TypeOK, Report, hwVars
<1>9. CounterInv'
  BY <1>0, <1>1, <1>5 DEF CounterInv
<1>10. CursorInv'
  BY <1>0, <1>5, <1>6, <1>7 DEF IInv, CursorInv, Report, hwVars, RingPtr
<1>11. PollInv'
  BY <1>6 DEF IInv, PollInv
<1>12. RequestInv' /\ FrameInv' /\ CopyInv'
  BY <1>0, <1>5, <1>6 DEF IInv, RequestInv, FrameInv, CopyInv, Report, hwVars
<1>13. RecvInOrder'
  <2> SUFFICES ASSUME NEW k \in 1 .. delivered + 1
               PROVE  recv_wcs'[k].wr_id = k - 1 /\ recv_wcs'[k].data = k - 1
    BY <1>5 DEF RecvInOrder
  <2>1. CASE k = delivered + 1
    BY <2>1, <1>5, <1>0
  <2>2. CASE k # delivered + 1
    <3>1. k \in 1 .. delivered
      BY <2>2, <1>0
    <3> QED BY <3>1, <1>5 DEF IInv, RecvInOrder
  <2> QED BY <2>1, <2>2
<1> QED BY <1>8, <1>9, <1>10, <1>11, <1>12, <1>13 DEF IInv

LEMMA StutterIInv == IInv /\ UNCHANGED vars => IInv'
BY DEF vars, IInv, TypeOK, CounterInv, CursorInv, PollInv, RequestInv, FrameInv,
       CopyInv, RecvInOrder, delivered, RingPtr

LEMMA NextIInv == IInv /\ [Next]_vars => IInv'
<1> SUFFICES ASSUME IInv, [Next]_vars PROVE IInv'
  OBVIOUS
<1>1. CASE PostRecv
  BY <1>1, PostRecvIInv
<1>2. CASE PostRecvTooLong
  BY <1>2, PostRecvTooLongIInv
<1>3. ASSUME NEW imm \in {FALSE, ImmFrames}, HwReceive(imm)
      PROVE  IInv'
  <2>1. imm \in BOOLEAN
    BY RecvQueueAssumption
  <2> QED BY <2>1, <1>3, HwReceiveIInv
<1>4. CASE axidma_rq_recv
  BY <1>4, AxidmaIInv
<1>5. ASSUME NEW n \in 1 .. MaxEntries, PollBegin(n)
      PROVE  IInv'
  BY <1>5, PollBeginIInv
<1>6. CASE PollStep
  BY <1>6, PopCopyIInv, PopConsumeIInv, PopDoneIInv, ReportIInv, ReportDoneIInv
     DEF PollStep
<1>7. CASE UNCHANGED vars
  BY <1>7, StutterIInv
<1> QED BY <1>1, <1>2, <1>3, <1>4, <1>5, <1>6, <1>7 DEF Next

\* The inductive invariant holds in every reachable state of the queue.
THEOREM RecvInvariant == Spec => []IInv
<1>1. Init => IInv
  BY InitIInv
<1>2. IInv /\ [Next]_vars => IInv'
  BY NextIInv
<1> QED BY <1>1, <1>2, PTL DEF Spec
-----------------------------------------------------------------------------
(* What follows from it. *)

\* The cursors of struct xib_rq, the doorbell and the registers never leave
\* the ring, and every stored value keeps its type.
THEOREM RecvTypeCorrect == Spec => []TypeOK
<1>1. IInv => TypeOK
  BY DEF IInv
<1> QED BY <1>1, RecvInvariant, PTL

\* Receives complete in posting order, each once, with the frame that was sent
\* to them, however post_recv, the hardware and the poll interleave.
THEOREM RecvOrderCorrect == Spec => []RecvInOrder
<1>1. IInv => RecvInOrder
  BY DEF IInv
<1> QED BY <1>1, RecvInvariant, PTL

\* xib_pop_rq pops only frames that landed.
THEOREM RecvNoPhantom == Spec => []NoPhantomFrame
<1>1. IInv => NoPhantomFrame
  BY DEF IInv, PollInv, NoPhantomFrame
<1> QED BY <1>1, RecvInvariant, PTL

\* No entry of rqe_list and no receive buffer is reused while it is in use.
THEOREM RecvNoOverrun == Spec => []NoEntryOverrun
<1>1. IInv => NoEntryOverrun
  BY DEF IInv, RequestInv, FrameInv, NoEntryOverrun
<1> QED BY <1>1, RecvInvariant, PTL

\* The doorbell and the consumer index register determine the number of
\* unprocessed frames: get_rq_pending_cnt returns it.
THEOREM RecvPendingCount == Spec => []PendingCountExact
<1>1. IInv => PendingCountExact
  <2> SUFFICES ASSUME IInv PROVE PendingCountExact
    OBVIOUS
  <2>1. /\ popped \in Nat /\ arrived \in Nat /\ popped <= arrived
        /\ arrived - popped < rq_max_wr
    BY DepthFacts DEF IInv, TypeOK, CounterInv, delivered
  <2>2. rq_db = RingPtr(arrived) /\ RQ_CONS_IDX = RingPtr(popped)
    BY DEF IInv, CursorInv
  <2> QED BY <2>1, <2>2, RingPtrDistance DEF PendingCountExact
<1> QED BY <1>1, RecvInvariant, PTL
-----------------------------------------------------------------------------
\* What was reported with a frame is an immediate of a frame that landed.
LEMMA ReportedOld ==
    ASSUME IInv, ImmInv, NEW k \in 1 .. delivered
    PROVE  recv_wcs[k].imm < arrived
<1>1. /\ recv_wcs \in Seq(WcType) /\ delivered = Len(recv_wcs) /\ delivered <= arrived
      /\ arrived \in Nat /\ delivered \in Nat /\ popped \in Nat
  BY SMTT(20) DEF IInv, TypeOK, CounterInv, delivered
<1>2. recv_wcs[k] \in WcType
  BY <1>1
<1>3. recv_wcs[k].imm \in Int /\ recv_wcs[k].data \in Int
  BY <1>2 DEF WcType
<1>4. recv_wcs[k].data = k - 1
  BY DEF IInv, RecvInOrder
<1>5. CASE recv_wcs[k].imm = NoFrame
  BY <1>1, <1>5 DEF NoFrame
<1>6. CASE recv_wcs[k].imm # NoFrame
  <2>1. recv_wcs[k].imm <= recv_wcs[k].data
    BY <1>6 DEF ImmInv, ImmExact, ImmFromSameEntry
  <2> QED
    BY <1>1, <1>3, <1>4, <2>1
<1> QED
  BY <1>5, <1>6


\* A step that touches no immediate.
LEMMA ImmKept ==
    ASSUME ImmInv, UNCHANGED <<rq_noti, imm_inv_data, recv_wcs, arrived>>
    PROVE  ImmInv'
BY DEF ImmInv, NotiInv, EntryInv, ReportedInv, ImmExact, ImmAtMostOnce, ImmFromSameEntry,
       delivered

\* A frame with an immediate queues its notification behind the older ones.
LEMMA ImmArrives ==
    ASSUME NEW imm \in BOOLEAN, IInv, ImmInv, HwReceive(imm)
    PROVE  ImmInv'
<1>0. /\ arrived \in Nat /\ arrived' = arrived + 1 /\ rq_noti \in Seq(Nat)
      /\ imm_inv_data \in [Slots -> Int] /\ imm_inv_data' = imm_inv_data
      /\ recv_wcs \in Seq(WcType) /\ recv_wcs' = recv_wcs /\ delivered' = delivered
  BY DEF IInv, TypeOK, HwReceive, delivered
<1>1. CASE ~imm
  <2>1. rq_noti' = rq_noti
    BY <1>1 DEF HwReceive
  <2>2. NotiInv'
    BY <1>0, <2>1 DEF ImmInv, NotiInv
  <2>3. EntryInv'
    BY <1>0, <2>1 DEF ImmInv, EntryInv
  <2>4. ReportedInv' /\ ImmExact'
    BY <1>0, <2>1 DEF ImmInv, ReportedInv, ImmExact, ImmAtMostOnce, ImmFromSameEntry
  <2> QED
    BY <2>2, <2>3, <2>4 DEF ImmInv
<1>2. CASE imm
  <2>1. PICK m \in Nat : m = Len(rq_noti)
    BY <1>0
  <2>2. /\ Len(rq_noti') = m + 1 /\ rq_noti'[m + 1] = arrived
        /\ \A i \in 1 .. m : rq_noti'[i] = rq_noti[i] /\ rq_noti[i] \in Nat
    BY <1>0, <1>2, <2>1 DEF HwReceive
  <2>3. \A i \in 1 .. m : rq_noti[i] < arrived
    BY <2>1 DEF ImmInv, NotiInv
  <2>4. NotiInv'
    <3>1. ASSUME NEW i \in 1 .. m + 1 PROVE rq_noti'[i] < arrived + 1
      <4>1. CASE i = m + 1
        BY <1>0, <2>2, <4>1
      <4>2. CASE i # m + 1
        BY <1>0, <2>1, <2>2, <2>3, <4>2
      <4> QED
        BY <4>1, <4>2
    <3>2. ASSUME NEW i \in 1 .. m + 1, NEW j \in 1 .. m + 1, i < j
          PROVE  rq_noti'[i] < rq_noti'[j]
      <4>0. i \in 1 .. m
        BY <2>1, <3>2
      <4>1. CASE j = m + 1
        BY <2>2, <2>3, <4>0, <4>1
      <4>2. CASE j # m + 1
        <5>1. j \in 1 .. m
          BY <2>1, <4>2
        <5> QED
          BY <2>1, <2>2, <3>2, <4>0, <5>1 DEF ImmInv, NotiInv
      <4> QED
        BY <4>1, <4>2
    <3> QED
      BY <1>0, <2>2, <3>1, <3>2 DEF NotiInv
  <2>5. EntryInv'
    <3> SUFFICES ASSUME NEW s \in Slots, imm_inv_data[s] # NoFrame
                 PROVE  /\ imm_inv_data[s] \in 0 .. arrived
                        /\ imm_inv_data[s] % rq_max_wr = s
                        /\ \A i \in 1 .. m + 1 : imm_inv_data[s] < rq_noti'[i]
                        /\ \A k \in 1 .. delivered : recv_wcs[k].imm # imm_inv_data[s]
      BY <1>0, <2>2 DEF EntryInv
    <3>1. /\ imm_inv_data[s] \in 0 .. arrived - 1
          /\ imm_inv_data[s] % rq_max_wr = s
          /\ \A i \in 1 .. m : imm_inv_data[s] < rq_noti[i]
          /\ \A k \in 1 .. delivered : recv_wcs[k].imm # imm_inv_data[s]
      BY <2>1 DEF ImmInv, EntryInv
    <3>2. ASSUME NEW i \in 1 .. m + 1 PROVE imm_inv_data[s] < rq_noti'[i]
      <4>1. CASE i = m + 1
        BY <1>0, <2>2, <3>1, <4>1
      <4>2. CASE i # m + 1
        BY <2>1, <2>2, <3>1, <4>2
      <4> QED
        BY <4>1, <4>2
    <3>3. imm_inv_data[s] \in 0 .. arrived
      BY <1>0, <3>1
    <3> QED
      BY <3>1, <3>2, <3>3
  <2>6. ReportedInv'
    <3> SUFFICES ASSUME NEW k \in 1 .. delivered, NEW i \in 1 .. m + 1
                 PROVE  recv_wcs[k].imm < rq_noti'[i]
      BY <1>0, <2>2 DEF ReportedInv
    <3>1. CASE i = m + 1
      <4>1. recv_wcs[k].imm < arrived
        BY ReportedOld DEF IInv
      <4> QED
        BY <2>2, <3>1, <4>1
    <3>2. CASE i # m + 1
      <4>1. i \in 1 .. m
        BY <2>1, <3>2
      <4> QED
        BY <2>1, <2>2, <4>1 DEF ImmInv, ReportedInv
    <3> QED
      BY <3>1, <3>2
  <2>7. ImmExact'
    BY <1>0 DEF ImmInv, ImmExact, ImmAtMostOnce, ImmFromSameEntry
  <2> QED
    BY <2>4, <2>5, <2>6, <2>7 DEF ImmInv
<1> QED
  BY <1>1, <1>2

\* The interrupt records the oldest notification in the entry of its frame.
LEMMA ImmServed ==
    ASSUME IInv, ImmInv, axidma_rq_recv
    PROVE  ImmInv'
<1>0. /\ arrived \in Nat /\ arrived' = arrived /\ rq_noti \in Seq(Nat) /\ rq_noti # << >>
      /\ imm_inv_data \in [Slots -> Int] /\ recv_wcs' = recv_wcs /\ delivered' = delivered
  BY SMTT(20) DEF IInv, TypeOK, axidma_rq_recv, delivered
<1>1. PICK m \in Nat : m + 1 = Len(rq_noti)
  <2>1. Len(rq_noti) \in Nat /\ Len(rq_noti) # 0
    BY <1>0
  <2>2. Len(rq_noti) - 1 \in Nat /\ (Len(rq_noti) - 1) + 1 = Len(rq_noti)
    BY <2>1
  <2> QED
    BY <2>2
<1>2. PICK f \in Nat : f = Head(rq_noti) /\ f = rq_noti[1]
  BY <1>0
<1>3. /\ Len(rq_noti') = m
      /\ \A i \in 1 .. m : rq_noti'[i] = rq_noti[i + 1] /\ rq_noti[i + 1] \in Nat
  BY <1>0, <1>1 DEF axidma_rq_recv
<1>4. \A i \in 1 .. m : i + 1 \in 1 .. Len(rq_noti) /\ 1 \in 1 .. Len(rq_noti) /\ 1 < i + 1
  BY <1>1
<1>5. f < arrived /\ \A i \in 1 .. m : f < rq_noti'[i]
  <2>1. f < arrived
    <3>1. 1 \in 1 .. Len(rq_noti)
      BY <1>1
    <3> QED
      BY <1>2, <3>1 DEF ImmInv, NotiInv
  <2>2. ASSUME NEW i \in 1 .. m PROVE f < rq_noti'[i]
    BY <1>2, <1>3, <1>4 DEF ImmInv, NotiInv
  <2> QED
    BY <2>1, <2>2
<1>6. PICK e \in Slots : e = f % rq_max_wr
  BY CursorInc
<1>7. imm_inv_data' = [imm_inv_data EXCEPT ![e] = f]
  <2>1. RingPtr(f + 1) = e + 1
    BY <1>6, RingPtrWrap
  <2>2. NotiEntry(RingPtr(f + 1)) = e
    BY <2>1, DepthFacts DEF NotiEntry, Slots
  <2> QED
    BY <1>2, <2>2 DEF axidma_rq_recv
<1>8. NotiInv'
  <2>1. ASSUME NEW i \in 1 .. m PROVE rq_noti'[i] < arrived
    BY <1>3, <1>4 DEF ImmInv, NotiInv
  <2>2. ASSUME NEW i \in 1 .. m, NEW j \in 1 .. m, i < j PROVE rq_noti'[i] < rq_noti'[j]
    <3>1. i + 1 < j + 1
      BY <2>2
    <3> QED
      BY <1>3, <1>4, <3>1 DEF ImmInv, NotiInv
  <2> QED
    BY <1>0, <1>3, <2>1, <2>2 DEF NotiInv
<1>9. EntryInv'
  <2> SUFFICES ASSUME NEW s \in Slots, imm_inv_data'[s] # NoFrame
               PROVE  /\ imm_inv_data'[s] \in 0 .. arrived - 1
                      /\ imm_inv_data'[s] % rq_max_wr = s
                      /\ \A i \in 1 .. m : imm_inv_data'[s] < rq_noti'[i]
                      /\ \A k \in 1 .. delivered : recv_wcs[k].imm # imm_inv_data'[s]
    BY <1>0, <1>3 DEF EntryInv
  <2>1. CASE s = e
    <3>1. imm_inv_data'[s] = f
      BY <1>0, <1>7, <2>1
    <3>2. f \in 0 .. arrived - 1 /\ f % rq_max_wr = s
      BY <1>0, <1>5, <1>6, <2>1
    <3>3. ASSUME NEW k \in 1 .. delivered PROVE recv_wcs[k].imm # f
      <4>1. recv_wcs[k].imm < rq_noti[1]
        <5>1. 1 \in 1 .. Len(rq_noti)
          BY <1>1
        <5> QED
          BY <5>1 DEF ImmInv, ReportedInv
      <4> QED
        BY <1>2, <4>1
    <3> QED
      BY <1>5, <3>1, <3>2, <3>3
  <2>2. CASE s # e
    <3>1. imm_inv_data'[s] = imm_inv_data[s]
      BY <1>0, <1>7, <2>2
    <3>2. /\ imm_inv_data[s] \in 0 .. arrived - 1
          /\ imm_inv_data[s] % rq_max_wr = s
          /\ \A i \in 1 .. Len(rq_noti) : imm_inv_data[s] < rq_noti[i]
          /\ \A k \in 1 .. delivered : recv_wcs[k].imm # imm_inv_data[s]
      BY <3>1 DEF ImmInv, EntryInv
    <3>3. \A i \in 1 .. m : imm_inv_data[s] < rq_noti'[i]
      BY <1>3, <1>4, <3>2
    <3> QED
      BY <3>1, <3>2, <3>3
  <2> QED
    BY <2>1, <2>2
<1>10. ReportedInv'
  BY <1>0, <1>3, <1>4 DEF ImmInv, ReportedInv
<1>11. ImmExact'
  BY <1>0 DEF ImmInv, ImmExact, ImmAtMostOnce, ImmFromSameEntry
<1> QED
  BY <1>8, <1>9, <1>10, <1>11 DEF ImmInv

\* A report takes the immediate of its entry, which is of its own frame or of
\* an older one of the entry.
LEMMA ImmReported ==
    ASSUME IInv, ImmInv, Report
    PROVE  ImmInv'
<1> USE DepthFacts
<1>0. /\ arrived \in Nat /\ popped \in Nat /\ posted \in Nat /\ delivered \in Nat
      /\ arrived' = arrived /\ rq_noti \in Seq(Nat) /\ rq_noti' = rq_noti
      /\ imm_inv_data \in [Slots -> Int] /\ recv_wcs \in Seq(WcType)
      /\ delivered <= popped /\ popped <= arrived /\ arrived <= posted
      /\ posted <= delivered + RecvCredit
      /\ cons \in Slots /\ cons = delivered % rq_max_wr
  <2>1. delivered \in Nat
    BY DEF IInv, TypeOK, delivered
  <2> QED
    BY <2>1 DEF IInv, TypeOK, CounterInv, CursorInv, Report, hwVars
<1>1. PICK d \in Nat : d = delivered
  BY <1>0
<1>2. PICK g \in Int : g = imm_inv_data[cons]
  BY <1>0
<1>3. d < popped
  BY <1>0, <1>1 DEF IInv, CursorInv, Report
<1>4. rqe_list[cons] = d /\ sgl[d] = d
  <2>1. d \in delivered .. posted - 1 /\ d \in delivered .. popped - 1
    BY <1>0, <1>1, <1>3
  <2> QED
    BY <1>0, <1>1, <2>1 DEF IInv, RequestInv, CopyInv
<1>5. PICK wc \in WcType : wc = [wr_id |-> d, data |-> d, imm |-> g]
  <2>1. [wr_id |-> d, data |-> d, imm |-> g] \in WcType
    BY DEF WcType
  <2> QED
    BY <2>1
<1>6. recv_wcs' = Append(recv_wcs, wc)
  BY <1>2, <1>4, <1>5 DEF Report, NoWr
<1>7. /\ delivered' = d + 1
      /\ \A k \in 1 .. d : recv_wcs'[k] = recv_wcs[k] /\ recv_wcs[k].imm \in Int
      /\ recv_wcs'[d + 1].imm = g /\ recv_wcs'[d + 1].data = d
  <2>1. Len(recv_wcs) = d /\ \A k \in 1 .. d : recv_wcs[k] \in WcType
    BY <1>0, <1>1 DEF delivered
  <2>2. /\ Len(recv_wcs') = d + 1 /\ \A k \in 1 .. d : recv_wcs'[k] = recv_wcs[k]
        /\ recv_wcs'[d + 1] = wc
    BY <1>0, <1>6, <2>1
  <2> QED
    BY <1>5, <2>1, <2>2 DEF delivered, WcType
<1>8. imm_inv_data' = [imm_inv_data EXCEPT ![cons] = NoFrame]
  BY DEF Report, TakeImm
<1>9. \A k \in 1 .. d + 1 : k \in 1 .. d \/ k = d + 1
  OBVIOUS
<1>10. g # NoFrame => /\ g \in 0 .. arrived - 1 /\ g % rq_max_wr = d % rq_max_wr
                      /\ \A k \in 1 .. d : recv_wcs[k].imm # g
  BY <1>0, <1>1, <1>2 DEF ImmInv, EntryInv
<1>11. \A i \in 1 .. Len(rq_noti) : g < rq_noti[i]
  <2> SUFFICES ASSUME NEW i \in 1 .. Len(rq_noti) PROVE g < rq_noti[i]
    OBVIOUS
  <2>1. CASE g = NoFrame
    <3>1. rq_noti[i] \in Nat
      BY <1>0
    <3> QED
      BY <2>1, <3>1 DEF NoFrame
  <2>2. CASE g # NoFrame
    BY <1>0, <1>2, <2>2 DEF ImmInv, EntryInv
  <2> QED
    BY <2>1, <2>2
<1>12. g # NoFrame => g <= d /\ (d - g) % rq_max_wr = 0
  <2> SUFFICES ASSUME g # NoFrame PROVE g <= d /\ (d - g) % rq_max_wr = 0
    OBVIOUS
  <2>1. g \in Nat /\ g < arrived /\ g % rq_max_wr = d % rq_max_wr
    BY <1>0, <1>10
  <2>2. g <= d
    <3> SUFFICES ASSUME d < g PROVE FALSE
      BY <2>1
    <3>1. g - d < rq_max_wr /\ d - g < rq_max_wr /\ g # d
      BY <1>0, <1>1, <2>1
    <3> QED
      BY <2>1, <3>1, EntriesDistinct
  <2> QED
    BY <2>1, <2>2, ModAligned
<1>13. NotiInv'
  BY <1>0 DEF ImmInv, NotiInv
<1>14. EntryInv'
  <2> SUFFICES ASSUME NEW s \in Slots, imm_inv_data'[s] # NoFrame
               PROVE  /\ imm_inv_data'[s] \in 0 .. arrived - 1
                      /\ imm_inv_data'[s] % rq_max_wr = s
                      /\ \A i \in 1 .. Len(rq_noti) : imm_inv_data'[s] < rq_noti[i]
                      /\ \A k \in 1 .. d + 1 : recv_wcs'[k].imm # imm_inv_data'[s]
    BY <1>0, <1>7 DEF EntryInv
  <2>1. s # cons /\ imm_inv_data'[s] = imm_inv_data[s]
    BY <1>0, <1>8
  <2>2. /\ imm_inv_data[s] \in 0 .. arrived - 1
        /\ imm_inv_data[s] % rq_max_wr = s
        /\ \A i \in 1 .. Len(rq_noti) : imm_inv_data[s] < rq_noti[i]
        /\ \A k \in 1 .. d : recv_wcs[k].imm # imm_inv_data[s]
    BY <1>1, <2>1 DEF ImmInv, EntryInv
  <2>3. g # imm_inv_data[s]
    <3>1. CASE g = NoFrame
      BY <2>1, <3>1
    <3>2. CASE g # NoFrame
      BY <1>0, <1>1, <1>10, <2>1, <2>2, <3>2
    <3> QED
      BY <3>1, <3>2
  <2>4. \A k \in 1 .. d + 1 : recv_wcs'[k].imm # imm_inv_data[s]
    BY <1>7, <1>9, <2>2, <2>3
  <2> QED
    BY <2>1, <2>2, <2>4
<1>15. ReportedInv'
  <2> SUFFICES ASSUME NEW k \in 1 .. d + 1, NEW i \in 1 .. Len(rq_noti)
               PROVE  recv_wcs'[k].imm < rq_noti[i]
    BY <1>0, <1>7 DEF ReportedInv
  <2>1. CASE k = d + 1
    BY <1>7, <1>11, <2>1
  <2>2. CASE k \in 1 .. d
    BY <1>1, <1>7, <2>2 DEF ImmInv, ReportedInv
  <2> QED
    BY <1>9, <2>1, <2>2
<1>16. ImmAtMostOnce'
  <2> SUFFICES ASSUME NEW j \in 1 .. d + 1, NEW k \in 1 .. d + 1, j # k,
                      recv_wcs'[j].imm = recv_wcs'[k].imm, recv_wcs'[j].imm # NoFrame
               PROVE  FALSE
    BY <1>7 DEF ImmAtMostOnce
  <2>1. CASE j = d + 1
    BY <1>7, <1>9, <1>10, <2>1
  <2>2. CASE k = d + 1
    BY <1>7, <1>9, <1>10, <2>2
  <2>3. CASE j \in 1 .. d /\ k \in 1 .. d
    BY <1>1, <1>7, <2>3 DEF ImmInv, ImmExact, ImmAtMostOnce
  <2> QED
    BY <1>9, <2>1, <2>2, <2>3
<1>17. ImmFromSameEntry'
  <2> SUFFICES ASSUME NEW k \in 1 .. d + 1, recv_wcs'[k].imm # NoFrame
               PROVE  /\ recv_wcs'[k].imm <= recv_wcs'[k].data
                      /\ (recv_wcs'[k].data - recv_wcs'[k].imm) % rq_max_wr = 0
    BY <1>7 DEF ImmFromSameEntry
  <2>1. CASE k = d + 1
    BY <1>7, <1>12, <2>1
  <2>2. CASE k \in 1 .. d
    BY <1>1, <1>7, <2>2 DEF ImmInv, ImmExact, ImmFromSameEntry
  <2> QED
    BY <1>9, <2>1, <2>2
<1> QED
  BY <1>13, <1>14, <1>15, <1>16, <1>17 DEF ImmInv, ImmExact

\* The immediates that the DMA interrupt delivers beside the frames are reported
\* once, never before their frame and never with a frame of another entry of the
\* ring, for rings of every depth and however late the interrupt is served
\* (axidma_rq_recv, xib_poll_kernel_cq).
THEOREM RecvImmediates == Spec => []ImmExact
<1>1. Init => ImmInv
  BY DEF Init, ImmInv, NotiInv, EntryInv, ReportedInv, ImmExact, ImmAtMostOnce,
         ImmFromSameEntry, delivered, NoFrame
<1>2. IInv /\ ImmInv /\ [Next]_vars => ImmInv'
  <2> SUFFICES ASSUME IInv, ImmInv, [Next]_vars PROVE ImmInv'
    OBVIOUS
  <2>1. ASSUME NEW imm \in {FALSE, ImmFrames}, HwReceive(imm) PROVE ImmInv'
    <3>1. imm \in BOOLEAN
      BY RecvQueueAssumption
    <3> QED
      BY <2>1, <3>1, ImmArrives
  <2>2. CASE PostRecv \/ PostRecvTooLong
    BY <2>2, ImmKept DEF PostRecv, PostRecvTooLong, hwVars
  <2>3. ASSUME NEW n \in 1 .. MaxEntries, PollBegin(n) PROVE ImmInv'
    BY <2>3, ImmKept DEF PollBegin, hwVars
  <2>4. CASE PopCopy \/ PopConsume \/ PopDone \/ ReportDone
    BY <2>4, ImmKept DEF PopCopy, PopConsume, PopDone, ReportDone, hwVars
  <2>5. CASE UNCHANGED vars
    BY <2>5, ImmKept DEF vars
  <2> QED
    BY <2>1, <2>2, <2>3, <2>4, <2>5, ImmServed, ImmReported DEF Next, PollStep
<1>3. ImmInv => ImmExact
  BY DEF ImmInv
<1> QED
  BY <1>1, <1>2, <1>3, RecvInvariant, PTL DEF Spec
-----------------------------------------------------------------------------
(* The refinement of RecvService.  Under the invariant the mapping reads   *)
(* the numbers from the reported receives on out of the rings.             *)

\* The requests, or frames, from number a up to number b.
Numbers(a, b) == [j \in 1 .. b - a |-> a + (j - 1)]

\* The reports of the first d receives.
FirstReports(d) == [k \in 1 .. d |-> [wr_id |-> k - 1, data |-> k - 1]]

\* They are lists: one more number is one more element, and the first number
\* is the first element.
LEMMA NumbersList ==
    ASSUME NEW a \in Nat, NEW b \in Nat, a <= b
    PROVE  /\ Numbers(a, b) \in Seq(Nat) /\ Len(Numbers(a, b)) = b - a
           /\ Append(Numbers(a, b), b) = Numbers(a, b + 1)
<1>1. PICK n \in Nat : n = b - a
  BY SMT
<1>2. PICK s : s = Numbers(a, b)
  OBVIOUS
<1>3. s = [j \in 1 .. n |-> a + (j - 1)] /\ \A j \in 1 .. n : a + (j - 1) \in Nat
  BY <1>1, <1>2 DEF Numbers
<1>4. s \in Seq(Nat) /\ Len(s) = n
  BY <1>3
<1>5. PICK t : t = Numbers(a, b + 1)
  OBVIOUS
<1>6. t = [j \in 1 .. n + 1 |-> a + (j - 1)]
  BY <1>1, <1>5 DEF Numbers
<1>7. Append(s, b) = t
  <2>1. Append(s, b) = [j \in 1 .. n + 1 |-> IF j <= n THEN s[j] ELSE b]
    BY <1>3, <1>4
  <2>2. ASSUME NEW j \in 1 .. n + 1
        PROVE  (IF j <= n THEN s[j] ELSE b) = a + (j - 1)
    BY <1>1, <1>3
  <2> QED
    BY <1>6, <2>1, <2>2
<1> QED
  BY <1>1, <1>2, <1>4, <1>5, <1>7

\* The first number, and the numbers after it.
LEMMA NumbersRest ==
    ASSUME NEW a \in Nat, NEW b \in Nat, a < b
    PROVE  /\ Numbers(a, b) # << >> /\ Head(Numbers(a, b)) = a
           /\ Tail(Numbers(a, b)) = Numbers(a + 1, b)
<1>1. PICK n \in Nat : n = b - (a + 1)
  BY SMT
<1>2. PICK s : s = Numbers(a, b)
  OBVIOUS
<1>3. s = [j \in 1 .. n + 1 |-> a + (j - 1)] /\ \A j \in 1 .. n + 1 : a + (j - 1) \in Nat
  BY <1>1, <1>2 DEF Numbers
<1>4. s \in Seq(Nat) /\ Len(s) = n + 1 /\ s # << >> /\ s[1] = a
  BY <1>3
<1>5. PICK t : t = Numbers(a + 1, b)
  OBVIOUS
<1>6. t = [j \in 1 .. n |-> (a + 1) + (j - 1)]
  BY <1>1, <1>5 DEF Numbers
<1>7. Tail(s) = t
  <2>1. /\ Tail(s) \in Seq(Nat) /\ Len(Tail(s)) = n
        /\ \A j \in 1 .. n : Tail(s)[j] = s[j + 1]
    BY <1>4
  <2>2. t \in Seq(Nat) /\ Len(t) = n
    BY <1>6
  <2>3. \A j \in 1 .. n : Tail(s)[j] = t[j]
    BY <1>3, <1>6, <2>1
  <2> QED
    BY <2>1, <2>2, <2>3, SeqEqual
<1>8. Head(s) = a
  BY <1>4
<1> QED
  BY <1>2, <1>4, <1>5, <1>7, <1>8

\* One more report.
LEMMA ReportsList ==
    ASSUME NEW d \in Nat
    PROVE  Append(FirstReports(d), [wr_id |-> d, data |-> d]) = FirstReports(d + 1)
<1> DEFINE R(k) == [wr_id |-> k - 1, data |-> k - 1]
<1>1. PICK r : r = [wr_id |-> d, data |-> d]
  OBVIOUS
<1>2. r = R(d + 1)
  BY <1>1
<1>3. PICK s : s = FirstReports(d)
  OBVIOUS
<1>4. s = [k \in 1 .. d |-> R(k)] /\ FirstReports(d + 1) = [k \in 1 .. d + 1 |-> R(k)]
  BY <1>3 DEF FirstReports
<1> HIDE DEF R
<1>5. Len(s) = d
  BY <1>4
<1>6. Append(s, r) = [k \in 1 .. d + 1 |-> IF k <= d THEN s[k] ELSE r]
  BY <1>4, <1>5
<1>7. ASSUME NEW k \in 1 .. d + 1 PROVE (IF k <= d THEN s[k] ELSE r) = R(k)
  BY <1>2, <1>4
<1>8. Append(s, r) = FirstReports(d + 1)
  BY <1>4, <1>6, <1>7
<1> QED
  BY <1>1, <1>3, <1>8

\* An entry some places after the entry of a count.
LEMMA EntryAfterCount ==
    ASSUME NEW c \in Nat, NEW j \in 0 .. rq_max_wr - 1
    PROVE  /\ EntryAfter(c % rq_max_wr, j) = (c + j) % rq_max_wr
           /\ EntryAfter(RingPtr(c), j) = (c + j) % rq_max_wr
<1> USE DepthFacts
<1>1. PICK r \in 0 .. rq_max_wr - 1 : r = c % rq_max_wr
  BY DivMod
<1>2. PICK q \in Nat : q = (c + j) % rq_max_wr
  <2>1. c + j \in Nat
    OBVIOUS
  <2>2. (c + j) % rq_max_wr \in 0 .. rq_max_wr - 1
    BY <2>1, DivMod
  <2> QED
    BY <2>2
<1>3. q = IF r + j < rq_max_wr THEN r + j ELSE (r + j) - rq_max_wr
  BY <1>1, <1>2, ModDistance
<1>4. q \in 0 .. rq_max_wr - 1 /\ (r + j = q \/ r + j = q + rq_max_wr)
  BY <1>1, <1>3
<1>5. (r + j) % rq_max_wr = q
  <2>1. PICK x : x = r + j
    OBVIOUS
  <2>2. x % rq_max_wr = q
    BY <1>4, <2>1, RingMod2
  <2> QED
    BY <2>1, <2>2
<1>6. EntryAfter(c % rq_max_wr, j) = q
  BY <1>1, <1>5 DEF EntryAfter
<1>7. EntryAfter(RingPtr(c), j) = q
  <2>1. WrapLocal(RingPtr(c)) = r /\ RingPtr(c) \in 0 .. rq_max_wr
    BY <1>1, RingPtrWrap, RingPtrType
  <2>2. CASE RingPtr(c) = r
    BY <1>5, <2>2 DEF EntryAfter
  <2>3. CASE RingPtr(c) = rq_max_wr /\ r = 0
    <3>1. q = j
      BY <1>3, <2>3
    <3>2. PICK x : x = rq_max_wr + j
      OBVIOUS
    <3>3. x = q + rq_max_wr
      BY <3>1, <3>2
    <3>4. x % rq_max_wr = q
      BY <1>4, <3>3, RingMod2
    <3> QED
      BY <2>3, <3>2, <3>4 DEF EntryAfter
  <2> QED
    BY <2>1, <2>2, <2>3 DEF WrapLocal
<1> QED
  BY <1>2, <1>6, <1>7

\* What the mapping reads out of the rings, in every state of the invariant:
\* the requests that are not reported, their frames, and the reports.
Mapped ==
    /\ PendingRequests = Numbers(delivered, posted)
    /\ InboxFrames = Numbers(delivered, arrived)
    /\ Reports = FirstReports(delivered)

\* The cursors of the driver lead the mapping to the right entries.
LEMMA MappedInv == IInv => Mapped
<1> SUFFICES ASSUME IInv PROVE Mapped
  OBVIOUS
<1> USE DepthFacts
<1>0. PICK d \in Nat, p \in Nat, a \in Nat, w \in Nat :
          /\ d = delivered /\ p = popped /\ a = arrived /\ w = posted
          /\ d <= p /\ p <= a /\ a <= w /\ w - d < rq_max_wr /\ w <= MaxRecv
  <2>1. delivered \in Nat
    BY DEF IInv, TypeOK, delivered
  <2> QED
    BY <2>1 DEF IInv, TypeOK, CounterInv
<1>1. ASSUME NEW j \in 1 .. w - d
      PROVE  rqe_list[EntryAfter(cons, j - 1)] = d + (j - 1)
  <2>1. j - 1 \in 0 .. rq_max_wr - 1 /\ d + (j - 1) \in d .. w - 1
    BY <1>0
  <2>2. EntryAfter(d % rq_max_wr, j - 1) = (d + (j - 1)) % rq_max_wr
    BY <2>1, EntryAfterCount
  <2>3. cons = d % rq_max_wr
    BY <1>0 DEF IInv, CursorInv
  <2>4. rqe_list[(d + (j - 1)) % rq_max_wr] = d + (j - 1)
    BY <1>0, <2>1 DEF IInv, RequestInv
  <2> QED
    BY <2>2, <2>3, <2>4
<1>2. PendingRequests = Numbers(delivered, posted)
  BY <1>0, <1>1 DEF PendingRequests, Numbers
<1>3. ASSUME NEW j \in 1 .. a - d
      PROVE  (IF j <= p - d THEN sgl[rqe_list[EntryAfter(cons, j - 1)]]
              ELSE rq_buf[EntryAfter(rq_wrptr_db_local, (j - (p - d)) - 1)]) = d + (j - 1)
  <2>1. CASE j <= p - d
    <3>1. j \in 1 .. w - d /\ d + (j - 1) \in d .. p - 1
      BY <1>0, <2>1
    <3>2. sgl[d + (j - 1)] = d + (j - 1)
      BY <1>0, <3>1 DEF IInv, CopyInv
    <3> QED
      BY <1>1, <2>1, <3>1, <3>2
  <2>2. CASE ~(j <= p - d)
    <3>1. PICK i \in 0 .. rq_max_wr - 1 : i = (j - (p - d)) - 1 /\ p + i \in p .. a - 1
                                          /\ p + i = d + (j - 1)
      <4>1. /\ (j - (p - d)) - 1 \in 0 .. rq_max_wr - 1
            /\ p + ((j - (p - d)) - 1) = d + (j - 1)
            /\ d + (j - 1) \in p .. a - 1
        BY <1>0, <2>2
      <4> QED
        BY <4>1
    <3>2. EntryAfter(rq_wrptr_db_local, i) = (p + i) % rq_max_wr
      <4>1. rq_wrptr_db_local = p % rq_max_wr \/ rq_wrptr_db_local = RingPtr(p)
        BY <1>0 DEF IInv, CursorInv
      <4> QED
        BY <4>1, EntryAfterCount
    <3>3. rq_buf[(p + i) % rq_max_wr] = p + i
      BY <1>0, <3>1 DEF IInv, FrameInv
    <3> QED
      BY <2>2, <3>1, <3>2, <3>3
  <2> QED
    BY <2>1, <2>2
<1>4. InboxFrames = Numbers(delivered, arrived)
  BY <1>0, <1>3 DEF InboxFrames, Numbers
<1>5. Reports = FirstReports(delivered)
  BY DEF Reports, FirstReports, IInv, RecvInOrder
<1> QED
  BY <1>2, <1>4, <1>5 DEF Mapped

\* A step of the driver or of the hardware is a step of the service, or leaves
\* what its users see alone.
LEMMA ServiceStep ==
    ASSUME IInv, Mapped, Mapped', [Next]_vars
    PROVE  [Service!Next]_(Service!vars)
<1> USE DepthFacts
<1>0. PICK d \in Nat, p \in Nat, a \in Nat, w \in Nat :
          /\ d = delivered /\ p = popped /\ a = arrived /\ w = posted
          /\ d <= p /\ p <= a /\ a <= w /\ w <= MaxRecv
  <2>1. delivered \in Nat
    BY DEF IInv, TypeOK, delivered
  <2> QED
    BY <2>1 DEF IInv, TypeOK, CounterInv
<1>s. /\ d <= w /\ Len(Numbers(d, w)) = w - d /\ Len(Numbers(d, a)) = a - d
      /\ Append(Numbers(d, w), w) = Numbers(d, w + 1)
      /\ Append(Numbers(d, a), a) = Numbers(d, a + 1)
  <2>1. d <= w /\ d <= a
    BY <1>0
  <2>2. Len(Numbers(d, w)) = w - d /\ Append(Numbers(d, w), w) = Numbers(d, w + 1)
    BY <2>1, NumbersList, Zenon
  <2>3. Len(Numbers(d, a)) = a - d /\ Append(Numbers(d, a), a) = Numbers(d, a + 1)
    BY <2>1, NumbersList, Zenon
  <2> QED
    BY <2>1, <2>2, <2>3
<1>m. /\ PendingRequests = Numbers(d, w) /\ InboxFrames = Numbers(d, a)
      /\ PendingRequests' = Numbers(delivered', posted')
      /\ InboxFrames' = Numbers(delivered', arrived')
  BY <1>0 DEF Mapped
<1>1. CASE UNCHANGED <<recv_wcs, posted, arrived>>
  <2>1. delivered' = delivered
    BY <1>1 DEF delivered
  <2> QED
    BY <1>1, <2>1 DEF Mapped, Service!vars
<1>2. CASE PostRecv
  <2>1. delivered' = d /\ arrived' = a /\ posted' = w + 1 /\ w \in 0 .. MaxRecv - 1
    BY <1>0, <1>2 DEF PostRecv, delivered, hwVars
  <2>2. PendingRequests' = Append(PendingRequests, w)
    BY <1>s, <1>m, <2>1, Zenon
  <2>3. InboxFrames' = InboxFrames /\ Reports' = Reports
    BY <1>0, <2>1 DEF Mapped
  <2>4. Service!Post(w)
    BY <2>2, <2>3 DEF Service!Post
  <2> QED
    BY <2>1, <2>4 DEF Service!Next
<1>3. ASSUME NEW imm, HwReceive(imm)
      PROVE  Service!Next
  <2>1. delivered' = d /\ arrived' = a + 1 /\ posted' = w /\ a < w /\ a \in 0 .. MaxRecv - 1
    BY <1>0, <1>3 DEF HwReceive, delivered
  <2>2. InboxFrames' = Append(InboxFrames, a)
    BY <1>s, <1>m, <2>1, Zenon
  <2>3. PendingRequests' = PendingRequests /\ Reports' = Reports
    BY <1>0, <2>1 DEF Mapped
  <2>4. Len(InboxFrames) = a - d /\ Len(PendingRequests) = w - d
    BY <1>s, <1>m
  <2>5. Len(InboxFrames) < Len(PendingRequests)
    BY <1>0, <2>1, <2>4
  <2>6. Service!Arrive(a)
    BY <2>2, <2>3, <2>5 DEF Service!Arrive
  <2> QED
    BY <2>1, <2>6 DEF Service!Next
<1>4. CASE Report
  <2>1. delivered' = d + 1 /\ arrived' = a /\ posted' = w /\ d < a /\ d < w
    <3>1. d # p
      BY <1>0, <1>4 DEF IInv, CursorInv, Report
    <3>2. recv_wcs \in Seq(WcType) /\ \E e : recv_wcs' = Append(recv_wcs, e)
      BY <1>4 DEF IInv, TypeOK, Report
    <3>3. Len(recv_wcs') = Len(recv_wcs) + 1
      BY <3>2
    <3> QED
      BY <1>0, <1>4, <3>1, <3>3 DEF Report, hwVars, delivered
  <2>2. /\ InboxFrames # << >> /\ Head(InboxFrames) = d /\ Head(PendingRequests) = d
        /\ Tail(InboxFrames) = InboxFrames' /\ Tail(PendingRequests) = PendingRequests'
    BY <1>0, <2>1, NumbersRest DEF Mapped
  <2>3. Reports' = Append(Reports, [wr_id |-> d, data |-> d])
    BY <1>0, <2>1, ReportsList DEF Mapped
  <2>4. Service!Complete
    BY <2>2, <2>3 DEF Service!Complete
  <2> QED
    BY <2>4 DEF Service!Next
<1>5. CASE PostRecvTooLong \/ axidma_rq_recv \/ PopCopy \/ PopConsume \/ PopDone \/ ReportDone
  BY <1>1, <1>5 DEF PostRecvTooLong, axidma_rq_recv, PopCopy, PopConsume, PopDone,
     ReportDone, hwVars
<1>6. ASSUME NEW n, PollBegin(n)
      PROVE  [Service!Next]_(Service!vars)
  BY <1>1, <1>6 DEF PollBegin, hwVars
<1>7. CASE UNCHANGED vars
  BY <1>1, <1>7 DEF vars
<1> QED
  BY <1>2, <1>3, <1>4, <1>5, <1>6, <1>7 DEF Next, PollStep

\* The receive queue implements the service, for rings of every depth: its
\* initial states are the service's, and every step of post_recv, of the
\* hardware, of the interrupt and of the poll is a step of the service or
\* invisible to its users.  That the frames are reported (the fairness of the
\* service) is left to TLC.
THEOREM RecvImplementsService == Spec => Service!Spec
<1>1. Init /\ Mapped => Service!Init
  <2> SUFFICES ASSUME Init, Mapped PROVE Service!Init
    OBVIOUS
  <2>1. delivered = 0 /\ posted = 0 /\ arrived = 0
    BY DEF Init, delivered
  <2>2. Numbers(0, 0) = << >> /\ FirstReports(0) = << >>
    BY DEF Numbers, FirstReports
  <2> QED
    BY <2>1, <2>2 DEF Mapped, Service!Init
<1>2. IInv /\ Mapped /\ Mapped' /\ [Next]_vars => [Service!Next]_(Service!vars)
  BY ServiceStep
<1> QED
  BY <1>1, <1>2, RecvInvariant, MappedInv, PTL DEF Spec, Service!Spec
=============================================================================
