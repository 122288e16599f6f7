---------------------------- MODULE XibGsiProofs ----------------------------
(***************************************************************************)
(* Proofs about QP1, for any depth of its rings: management datagrams are  *)
(* reported once each, in order and in the receives posted for them, and   *)
(* none is left behind, until the tasklet counts a whole turn of the ring  *)
(* again; the sends are reported once each and in order, also between      *)
(* notifications, until the send ring is overrun.                          *)
(***************************************************************************)
EXTENDS XibGsi, RingLemmas

ConstantsOK ==
    /\ max_wr \in Nat \ {0}
    /\ MaxChain \in Nat /\ MaxEntries \in Nat

Received == [wr_id : Nat, frame : Nat]
Request == [wr_id : Int, signaled : BOOLEAN]
Executed == [frame : Int, err : BOOLEAN]
Reported == [wr_id : Int, elem : Nat]

RecvTypes ==
    /\ posted \in Nat /\ arrived \in Nat
    /\ rqe_list \in [Slots -> Received] /\ rq_buf \in [Slots -> Nat]
    /\ recv_wcs \in Seq(Received)
    /\ hdl \in [sched : BOOLEAN, left : Nat]

\* The positions of the receive side are the counts modulo the depth; the
\* tasklet has handled g frames, and it is scheduled or knows of the others.
RecvCounts(g) ==
    /\ Len(recv_wcs) <= g /\ g <= arrived /\ arrived <= posted
    /\ posted < Len(recv_wcs) + max_wr
    /\ prod = posted % max_wr /\ cons = Len(recv_wcs) % max_wr
    /\ gsi_cons = g % max_wr /\ rq_wrptr_db_local = g % max_wr
    /\ rq_db = RingPtr(arrived)
    /\ hdl.left <= arrived - g
    /\ ~hdl.sched => hdl.left = arrived - g

\* What the entries of the two rings hold.
RecvContents(g) ==
    /\ \A k \in Len(recv_wcs) .. posted - 1 : rqe_list[k % max_wr].wr_id = k + 1
    /\ \A k \in Len(recv_wcs) .. g - 1 : rqe_list[k % max_wr].frame = k + 1
    /\ \A k \in g .. arrived - 1 : rq_buf[k % max_wr] = k + 1

RecvInv ==
    /\ RecvTypes /\ MadsInOrder
    /\ \E g \in 0 .. arrived : RecvCounts(g) /\ RecvContents(g)

SendTypes ==
    /\ sent \in Seq(Request) /\ wire \in Seq(Executed) /\ send_wcs \in Seq(Reported)
    /\ wr_id_array \in [Slots -> Request] /\ cqe_err \in [Slots -> BOOLEAN]
    /\ send_sgl \in Int
    /\ reaped \in Nat /\ offered \in Nat /\ post \in Nat
    /\ poll \in [pc : {"idle", "recv", "send", "flush"}, i : Nat, n : Nat, head : Int]

\* The positions of the send side.  The poll has read a head between what it
\* has passed and what the hardware has completed.
SendCounts ==
    /\ reaped <= Len(wire) /\ Len(wire) <= Len(sent) /\ Len(sent) <= reaped + max_wr
    /\ sq_cmpl_db_local = Len(sent) % max_wr
    /\ SQ_PROD_IDX = RingPtr(Len(sent)) /\ CQ_HEAD_PTR = RingPtr(Len(wire))
    /\ send_cq_db_local = RingPtr(reaped)
    /\ poll.pc = "send" => \E h \in reaped .. Len(wire) : poll.head = RingPtr(h)

SendInv == SendTypes /\ SendCounts

\* What the entries hold for the elements that are not polled: the request, but
\* for a notification, and how it ended.
OrderInv ==
    /\ \A k \in reaped .. Len(sent) - 1 :
          sent[k + 1].wr_id # CNP => wr_id_array[k % max_wr] = sent[k + 1]
    /\ \A k \in reaped .. Len(wire) - 1 : cqe_err[k % max_wr] = wire[k + 1].err
    /\ SendsReported
-----------------------------------------------------------------------------
(* Receiving *)

\* Positions of counts are entries of the ring, and follow the counts.
LEMMA RingFacts ==
    ASSUME ConstantsOK, NEW a \in Nat
    PROVE  /\ a % max_wr \in Slots /\ RingInc(a % max_wr) = (a + 1) % max_wr
           /\ EagerReset((a % max_wr) + 1) = (a + 1) % max_wr
<1>1. a % max_wr \in 0 .. max_wr - 1
  BY DivMod DEF ConstantsOK
<1>2. ((a % max_wr) + 1) % max_wr = (a + 1) % max_wr
  BY ModInc DEF ConstantsOK
<1>3. (a % max_wr) + 1 \in 0 .. max_wr
  BY <1>1 DEF ConstantsOK
<1>4. ((a % max_wr) + 1) % max_wr = EagerReset((a % max_wr) + 1)
  BY <1>3, RingMod DEF ConstantsOK, EagerReset
<1> QED
  BY <1>1, <1>2, <1>4 DEF Slots, RingInc

\* Two counts less than a turn apart have entries of their own.
LEMMA RingDistinct ==
    ASSUME ConstantsOK, NEW a \in Nat, NEW b \in Nat, a # b, a < b + max_wr, b < a + max_wr
    PROVE  a % max_wr # b % max_wr
<1>1. max_wr \in Nat \ {0} /\ b - a < max_wr /\ a - b < max_wr
  BY DEF ConstantsOK
<1> QED
  BY <1>1, ModDistinct

\* The pointers over 1..max_wr: the next one, and the entry one stands at.
LEMMA PtrFacts ==
    ASSUME ConstantsOK, NEW a \in Nat
    PROVE  /\ RingPtr(a) \in Int /\ RingPtr(a + 1) = (a % max_wr) + 1
           /\ (IF RingPtr(a) = max_wr THEN 0 ELSE RingPtr(a)) = a % max_wr
<1>0. max_wr \in Nat \ {0} /\ a % max_wr \in 0 .. max_wr - 1
  BY DivMod DEF ConstantsOK
<1>1. RingPtr(a + 1) = (a % max_wr) + 1
  <2>1. a + 1 # 0 /\ (a + 1) - 1 = a
    OBVIOUS
  <2> QED
    BY <2>1 DEF RingPtr
<1>2. CASE a = 0
  <2>1. a % max_wr = 0
    BY <1>0, <1>2, RingMod
  <2> QED
    BY <1>0, <1>1, <1>2, <2>1 DEF RingPtr
<1>3. CASE a # 0
  <2>1. PICK b \in Nat : b = a - 1
    BY <1>3
  <2>2. b % max_wr \in 0 .. max_wr - 1 /\ RingPtr(a) = (b % max_wr) + 1
    BY <1>0, <1>3, <2>1, DivMod DEF RingPtr
  <2>3. ((b % max_wr) + 1) % max_wr = (b + 1) % max_wr
    BY <1>0, ModInc
  <2>4. (b % max_wr) + 1 \in 0 .. max_wr /\ b + 1 = a
    BY <1>0, <2>1, <2>2
  <2>5. ((b % max_wr) + 1) % max_wr = IF (b % max_wr) + 1 = max_wr THEN 0 ELSE (b % max_wr) + 1
    BY <1>0, <2>4, RingMod
  <2> QED
    BY <1>0, <1>1, <2>2, <2>3, <2>4, <2>5
<1> QED
  BY <1>2, <1>3

\* The number of frames between two positions is that between the counts,
\* unless a pointer that was reset is compared with one at the end of its turn.
LEMMA RecdExact ==
    ASSUME ConstantsOK, NEW g \in Nat, NEW a \in Nat, g <= a, a < g + max_wr
    PROVE  /\ ~(g % max_wr = 0 /\ RingPtr(a) = max_wr)
                => xib_get_rq_recd(g % max_wr, RingPtr(a)) = a - g
           /\ (((a % max_wr) + max_wr) - (g % max_wr)) % max_wr = a - g
<1>0. max_wr \in Nat \ {0}
  BY DEF ConstantsOK
<1>1. PICK d \in 0 .. max_wr - 1 : d = a - g
  BY <1>0
<1>2. PICK r \in 0 .. max_wr - 1 : r = g % max_wr
  BY <1>0, DivMod
<1>3. PICK s : s = a % max_wr
  OBVIOUS
<1>4. s = IF r + d < max_wr THEN r + d ELSE (r + d) - max_wr
  <2>1. a = g + d
    BY <1>1
  <2> QED
    BY <1>0, <1>1, <1>2, <1>3, <2>1, ModDistance
<1>5. PICK p \in Int : p = RingPtr(a)
  BY PtrFacts
<1>6. (IF p = max_wr THEN 0 ELSE p) = s
  BY <1>3, <1>5, PtrFacts
<1>7. ~(r = 0 /\ p = max_wr) => (IF r > p THEN (p + max_wr) - r ELSE p - r) = d
  BY <1>0, <1>4, <1>6
<1>8. (s + max_wr) - r = d \/ (s + max_wr) - r = d + max_wr
  BY <1>0, <1>4
<1>9. ((s + max_wr) - r) % max_wr = d
  BY <1>0, <1>8, RingMod2
<1> QED
  BY <1>1, <1>2, <1>3, <1>5, <1>7, <1>9 DEF xib_get_rq_recd

\* Steps that leave the receive side alone.
LEMMA RecvKept ==
    ASSUME RecvInv, UNCHANGED recvVars
    PROVE  RecvInv'
BY DEF RecvInv, RecvTypes, MadsInOrder, RecvCounts, RecvContents, recvVars

\* A completion of the send side schedules the tasklet.
LEMMA RecvScheduled ==
    ASSUME RecvInv, UNCHANGED <<prod, cons, gsi_cons, rq_wrptr_db_local, rqe_list, rq_buf,
                                rq_db, arrived, posted, recv_wcs>>,
           hdl' = [hdl EXCEPT !.sched = TRUE]
    PROVE  RecvInv'
<1>1. hdl' \in [sched : BOOLEAN, left : Nat] /\ hdl'.sched /\ hdl'.left = hdl.left
  BY DEF RecvInv, RecvTypes
<1>2. PICK g \in 0 .. arrived : RecvCounts(g) /\ RecvContents(g)
  BY DEF RecvInv
<1>3. RecvCounts(g)'
  BY <1>1, <1>2 DEF RecvCounts
<1>4. RecvContents(g)'
  BY <1>2 DEF RecvContents
<1> QED
  BY <1>1, <1>3, <1>4 DEF RecvInv, RecvTypes, MadsInOrder

\* A receive is posted at prod, which is no entry in use.
LEMMA RecvPosted ==
    ASSUME ConstantsOK, RecvInv, PostRecv
    PROVE  RecvInv'
<1>0. RecvTypes /\ max_wr \in Nat \ {0}
  BY DEF RecvInv, ConstantsOK
<1>1. PICK g \in 0 .. arrived : RecvCounts(g) /\ RecvContents(g)
  BY DEF RecvInv
<1>2. /\ prod \in Slots /\ prod = posted % max_wr /\ prod' = (posted + 1) % max_wr
      /\ posted' = posted + 1 /\ posted < (Len(recv_wcs) + max_wr) - 1
  BY <1>0, <1>1, RingFacts DEF PostRecv, RecvTypes, RecvCounts
<1>3. /\ rqe_list' \in [Slots -> Received] /\ rqe_list'[prod].wr_id = posted + 1
      /\ \A s \in Slots : /\ rqe_list'[s].frame = rqe_list[s].frame
                          /\ s # prod => rqe_list'[s] = rqe_list[s]
  <2>1. rqe_list' = [rqe_list EXCEPT ![prod].wr_id = posted + 1] /\ posted + 1 \in Nat
    BY <1>0 DEF PostRecv, RecvTypes
  <2> QED
    BY <1>0, <1>2, <2>1 DEF RecvTypes, Received
<1>4. UNCHANGED <<cons, gsi_cons, rq_wrptr_db_local, rq_buf, rq_db, arrived, hdl, recv_wcs>>
  BY DEF PostRecv
<1>5. RecvTypes' /\ MadsInOrder'
  BY <1>0, <1>2, <1>3, <1>4 DEF RecvTypes, RecvInv, MadsInOrder
<1>6. RecvCounts(g)'
  BY <1>0, <1>1, <1>2, <1>4 DEF RecvCounts, RecvTypes
<1>7. ASSUME NEW k \in Len(recv_wcs) .. posted - 1
      PROVE  k % max_wr \in Slots /\ rqe_list'[k % max_wr] = rqe_list[k % max_wr]
  <2>1. k \in Nat /\ k # posted /\ k < posted + max_wr /\ posted < k + max_wr
    BY <1>0, <1>1 DEF RecvCounts, RecvTypes
  <2>2. k % max_wr # posted % max_wr /\ k % max_wr \in Slots
    BY <1>0, <2>1, RingDistinct, RingFacts DEF RecvTypes
  <2> QED
    BY <1>2, <1>3, <2>2
<1>8. RecvContents(g)'
  <2>1. ASSUME NEW k \in Len(recv_wcs) .. (posted + 1) - 1
        PROVE  rqe_list'[k % max_wr].wr_id = k + 1
    <3>1. CASE k = posted
      BY <1>2, <1>3, <3>1
    <3>2. CASE k # posted
      <4>1. k \in Len(recv_wcs) .. posted - 1
        BY <1>0, <3>2 DEF RecvTypes
      <4> QED
        BY <1>1, <1>7, <4>1 DEF RecvContents
    <3> QED
      BY <3>1, <3>2
  <2>2. ASSUME NEW k \in Len(recv_wcs) .. g - 1
        PROVE  rqe_list'[k % max_wr].frame = k + 1
    <3>1. k \in Len(recv_wcs) .. posted - 1
      BY <1>0, <1>1 DEF RecvTypes, RecvCounts
    <3> QED
      BY <1>1, <1>7, <3>1 DEF RecvContents
  <2> QED
    BY <1>1, <1>2, <1>4, <2>1, <2>2 DEF RecvContents
<1>9. g \in 0 .. arrived'
  BY <1>4
<1> QED
  BY <1>5, <1>6, <1>8, <1>9 DEF RecvInv

\* A datagram lands in the buffer after those that are still to be handled.
LEMMA RecvLanded ==
    ASSUME ConstantsOK, RecvInv, HwDatagram
    PROVE  RecvInv'
<1>0. RecvTypes /\ max_wr \in Nat \ {0}
  BY DEF RecvInv, ConstantsOK
<1>1. PICK g \in 0 .. arrived : RecvCounts(g) /\ RecvContents(g)
  BY DEF RecvInv
<1>2. PICK s \in Slots : s = arrived % max_wr
  BY <1>0, RingFacts DEF RecvTypes
<1>3. /\ rq_buf' = [rq_buf EXCEPT ![s] = arrived + 1] /\ arrived' = arrived + 1
      /\ rq_db' = RingPtr(arrived + 1) /\ hdl' = [hdl EXCEPT !.sched = TRUE]
      /\ arrived < posted
      /\ UNCHANGED <<prod, cons, gsi_cons, rq_wrptr_db_local, rqe_list, posted, recv_wcs>>
  BY <1>2 DEF HwDatagram
<1>4. hdl' \in [sched : BOOLEAN, left : Nat] /\ hdl'.sched /\ hdl'.left = hdl.left
  BY <1>0, <1>3 DEF RecvTypes
<1>5. RecvTypes' /\ MadsInOrder'
  BY <1>0, <1>3, <1>4 DEF RecvTypes, RecvInv, MadsInOrder
<1>6. RecvCounts(g)'
  BY <1>0, <1>1, <1>3, <1>4 DEF RecvCounts, RecvTypes
<1>7. ASSUME NEW k \in g .. (arrived + 1) - 1
      PROVE  rq_buf'[k % max_wr] = k + 1
  <2>1. CASE k = arrived
    BY <1>0, <1>2, <1>3, <2>1 DEF RecvTypes
  <2>2. CASE k # arrived
    <3>1. k \in g .. arrived - 1 /\ k \in Nat /\ k < arrived + max_wr /\ arrived < k + max_wr
      BY <1>0, <1>1, <2>2 DEF RecvTypes, RecvCounts
    <3>2. k % max_wr # arrived % max_wr /\ k % max_wr \in Slots
      BY <1>0, <2>2, <3>1, RingDistinct, RingFacts DEF RecvTypes
    <3>3. rq_buf[k % max_wr] = k + 1
      BY <1>1, <3>1 DEF RecvContents
    <3> QED
      BY <1>0, <1>2, <1>3, <3>2, <3>3 DEF RecvTypes
  <2> QED
    BY <2>1, <2>2
<1>8. RecvContents(g)'
  BY <1>1, <1>3, <1>7 DEF RecvContents
<1>9. g \in 0 .. arrived'
  BY <1>0, <1>3 DEF RecvTypes
<1> QED
  BY <1>5, <1>6, <1>8, <1>9 DEF RecvInv

\* The tasklet starts: it has as many frames to handle as have landed, unless
\* it counts a turn again.
LEMMA RecvHandlerBegin ==
    ASSUME ConstantsOK, RecvInv, HandlerBegin, ~rewound'
    PROVE  RecvInv'
<1>0. RecvTypes /\ max_wr \in Nat \ {0}
  BY DEF RecvInv, ConstantsOK
<1>1. PICK g \in 0 .. arrived : RecvCounts(g) /\ RecvContents(g)
  BY DEF RecvInv
<1>2. g \in Nat /\ g <= arrived /\ arrived < g + max_wr
  BY <1>0, <1>1 DEF RecvTypes, RecvCounts
<1>3. xib_get_rq_recd(g % max_wr, RingPtr(arrived)) = arrived - g
  <2>1. ~(g % max_wr = 0 /\ RingPtr(arrived) = max_wr)
    BY <1>1 DEF HandlerBegin, RecvCounts
  <2> QED
    BY <1>0, <1>2, <2>1, RecdExact DEF RecvTypes
<1>4. /\ hdl' = [sched |-> FALSE, left |-> arrived - g]
      /\ UNCHANGED <<prod, cons, gsi_cons, rq_wrptr_db_local, rqe_list, rq_buf, rq_db,
                     arrived, posted, recv_wcs>>
  BY <1>1, <1>3 DEF HandlerBegin, RecvCounts
<1>5. hdl' \in [sched : BOOLEAN, left : Nat] /\ hdl'.left = arrived - g
  BY <1>0, <1>2, <1>4 DEF RecvTypes
<1>6. RecvTypes' /\ MadsInOrder'
  BY <1>0, <1>4, <1>5 DEF RecvTypes, RecvInv, MadsInOrder
<1>7. RecvCounts(g)'
  BY <1>0, <1>1, <1>2, <1>4, <1>5 DEF RecvCounts, RecvTypes
<1>8. RecvContents(g)' /\ g \in 0 .. arrived'
  BY <1>1, <1>4 DEF RecvContents
<1> QED
  BY <1>6, <1>7, <1>8 DEF RecvInv

\* One frame is copied to the request it belongs to.
LEMMA RecvHandlerFrame ==
    ASSUME ConstantsOK, RecvInv, HandlerFrame
    PROVE  RecvInv'
<1>0. RecvTypes /\ max_wr \in Nat \ {0}
  BY DEF RecvInv, ConstantsOK
<1>1. PICK g \in 0 .. arrived : RecvCounts(g) /\ RecvContents(g)
  BY DEF RecvInv
<1>2. g \in Nat /\ g < arrived /\ hdl.left > 0
  BY <1>0, <1>1 DEF RecvTypes, RecvCounts, HandlerFrame
<1>3. PICK s \in Slots : s = g % max_wr
  BY <1>2, RingFacts
<1>4. /\ gsi_cons = s /\ rq_wrptr_db_local = s /\ ~(s >= max_wr)
      /\ rq_buf[s] = g + 1
  BY <1>0, <1>1, <1>2, <1>3 DEF RecvCounts, RecvContents, Slots, RecvTypes
<1>5. /\ rqe_list' = [rqe_list EXCEPT ![s].frame = g + 1]
      /\ gsi_cons' = RingInc(s) /\ rq_wrptr_db_local' = EagerReset(s + 1)
      /\ hdl' = [hdl EXCEPT !.left = @ - 1]
      /\ UNCHANGED <<prod, cons, rq_buf, rq_db, arrived, posted, recv_wcs>>
  BY <1>4 DEF HandlerFrame
<1>6. gsi_cons' = (g + 1) % max_wr /\ rq_wrptr_db_local' = (g + 1) % max_wr
  BY <1>2, <1>3, <1>5, RingFacts
<1>7. /\ rqe_list' \in [Slots -> Received] /\ rqe_list'[s].frame = g + 1
      /\ \A t \in Slots : /\ rqe_list'[t].wr_id = rqe_list[t].wr_id
                          /\ t # s => rqe_list'[t] = rqe_list[t]
  <2>1. rqe_list \in [Slots -> Received] /\ g + 1 \in Nat
    BY <1>0, <1>2 DEF RecvTypes
  <2>2. PICK q : q = [rqe_list[s] EXCEPT !.frame = g + 1]
    OBVIOUS
  <2>3. q \in Received /\ q.frame = g + 1 /\ q.wr_id = rqe_list[s].wr_id
    BY <2>1, <2>2 DEF Received
  <2>4. rqe_list' = [rqe_list EXCEPT ![s] = q]
    BY <1>5, <2>2
  <2>5. \A t \in Slots : rqe_list'[t] = IF t = s THEN q ELSE rqe_list[t]
    BY <2>1, <2>4
  <2>6. rqe_list' \in [Slots -> Received]
    BY <2>1, <2>3, <2>4
  <2>7. rqe_list'[s].frame = g + 1
    BY <2>3, <2>5
  <2>8. ASSUME NEW t \in Slots
        PROVE  rqe_list'[t].wr_id = rqe_list[t].wr_id /\ (t # s => rqe_list'[t] = rqe_list[t])
    <3>1. rqe_list'[t] = IF t = s THEN q ELSE rqe_list[t]
      BY <2>5
    <3> QED
      BY <2>3, <3>1
  <2> QED
    BY <2>6, <2>7, <2>8
<1>8. /\ hdl' \in [sched : BOOLEAN, left : Nat] /\ hdl'.left = hdl.left - 1
      /\ hdl'.sched = hdl.sched
  <2>1. hdl \in [sched : BOOLEAN, left : Nat] /\ hdl.left > 0
    BY <1>0, <1>2 DEF RecvTypes
  <2>2. hdl' = [hdl EXCEPT !.left = hdl.left - 1] /\ hdl.left - 1 \in Nat
    BY <1>5, <2>1
  <2> QED
    BY <2>1, <2>2
<1>9. RecvTypes' /\ MadsInOrder'
  BY <1>0, <1>5, <1>7, <1>8 DEF RecvTypes, RecvInv, MadsInOrder
<1>10. RecvCounts(g + 1)'
  <2>1. Len(recv_wcs) \in Nat
    BY <1>0 DEF RecvTypes
  <2> QED
    BY <1>0, <1>1, <1>2, <1>5, <1>6, <1>8, <2>1 DEF RecvCounts, RecvTypes
<1>11. RecvContents(g + 1)'
  <2>1. ASSUME NEW k \in Len(recv_wcs) .. posted - 1
        PROVE  rqe_list'[k % max_wr].wr_id = k + 1
    <3>1. k % max_wr \in Slots
      BY <1>0, RingFacts DEF RecvTypes
    <3> QED
      BY <1>1, <1>7, <3>1 DEF RecvContents
  <2>2. ASSUME NEW k \in Len(recv_wcs) .. (g + 1) - 1
        PROVE  rqe_list'[k % max_wr].frame = k + 1
    <3>1. CASE k = g
      BY <1>3, <1>7, <3>1
    <3>2. CASE k # g
      <4>1. k \in Len(recv_wcs) .. g - 1 /\ k \in Nat /\ k < g + max_wr /\ g < k + max_wr
        BY <1>0, <1>1, <1>2, <3>2 DEF RecvTypes, RecvCounts
      <4>2. k % max_wr # g % max_wr /\ k % max_wr \in Slots
        BY <1>2, <3>2, <4>1, RingDistinct, RingFacts
      <4> QED
        BY <1>1, <1>3, <1>7, <4>1, <4>2 DEF RecvContents
    <3> QED
      BY <3>1, <3>2
  <2>3. \A k \in g + 1 .. arrived - 1 : rq_buf[k % max_wr] = k + 1
    BY <1>1, <1>2 DEF RecvContents
  <2> QED
    BY <1>5, <2>1, <2>2, <2>3 DEF RecvContents
<1>12. g + 1 \in 0 .. arrived'
  BY <1>0, <1>2, <1>5 DEF RecvTypes
<1> QED
  BY <1>9, <1>10, <1>11, <1>12 DEF RecvInv

\* The poll reports the request at cons with the frame that was copied to it.
LEMMA RecvPolled ==
    ASSUME ConstantsOK, RecvInv, PollRecv
    PROVE  RecvInv'
<1>0. RecvTypes /\ max_wr \in Nat \ {0}
  BY DEF RecvInv, ConstantsOK
<1>1. PICK g \in 0 .. arrived : RecvCounts(g) /\ RecvContents(g)
  BY DEF RecvInv
<1>2. PICK r \in Nat : r = Len(recv_wcs)
  BY <1>0 DEF RecvTypes
<1>3. r < g /\ cons = r % max_wr /\ r % max_wr \in Slots
  <2>1. cons = r % max_wr /\ gsi_cons = g % max_wr /\ r <= g /\ cons # gsi_cons
    BY <1>1, <1>2 DEF RecvCounts, PollRecv
  <2>2. r # g
    BY <2>1
  <2> QED
    BY <1>2, <2>1, <2>2, RingFacts
<1>4. rqe_list[cons] = [wr_id |-> r + 1, frame |-> r + 1]
  <2>1. rqe_list[cons].wr_id = r + 1 /\ rqe_list[cons].frame = r + 1
    BY <1>0, <1>1, <1>2, <1>3 DEF RecvTypes, RecvCounts, RecvContents
  <2> QED
    BY <1>0, <1>3, <2>1 DEF RecvTypes, Received
<1>5. /\ recv_wcs' = Append(recv_wcs, rqe_list[cons]) /\ cons' = (r + 1) % max_wr
      /\ UNCHANGED <<prod, gsi_cons, rq_wrptr_db_local, rqe_list, rq_buf, rq_db, arrived, hdl,
                     posted>>
  BY <1>3, RingFacts DEF PollRecv
<1>6. rqe_list[cons] \in Received
  BY <1>0, <1>3 DEF RecvTypes
<1>7. /\ recv_wcs' \in Seq(Received) /\ Len(recv_wcs') = r + 1
      /\ recv_wcs'[r + 1] = rqe_list[cons]
      /\ \A k \in 1 .. r : recv_wcs'[k] = recv_wcs[k]
  BY <1>0, <1>2, <1>5, <1>6 DEF RecvTypes
<1>8. RecvTypes' /\ MadsInOrder'
  BY <1>0, <1>2, <1>4, <1>5, <1>7 DEF RecvTypes, RecvInv, MadsInOrder
<1>9. RecvCounts(g)'
  BY <1>0, <1>1, <1>2, <1>3, <1>5, <1>7 DEF RecvCounts, RecvTypes
<1>10. RecvContents(g)'
  <2>1. \A k \in r + 1 .. posted - 1 : rqe_list[k % max_wr].wr_id = k + 1
    BY <1>1, <1>2 DEF RecvContents
  <2>2. \A k \in r + 1 .. g - 1 : rqe_list[k % max_wr].frame = k + 1
    BY <1>1, <1>2 DEF RecvContents
  <2> QED
    BY <1>1, <1>5, <1>7, <2>1, <2>2 DEF RecvContents
<1>11. g \in 0 .. arrived'
  BY <1>5
<1> QED
  BY <1>8, <1>9, <1>10, <1>11 DEF RecvInv

\* Every step keeps the receive side correct, until a turn is counted again.
LEMMA RecvInvNext ==
    ASSUME ConstantsOK, RecvInv, Next, ~rewound'
    PROVE  RecvInv'
<1>1. CASE PostRecv \/ HwDatagram \/ Handler
  BY <1>1, RecvPosted, RecvLanded, RecvHandlerBegin, RecvHandlerFrame DEF Handler
<1>2. CASE PollStep
  BY <1>2, RecvPolled, RecvKept
     DEF PollStep, PollRecvDone, PollSend, PollSendDone, PollFlush
<1>3. CASE \E err \in BOOLEAN : HwSend(err)
  BY <1>3, RecvScheduled DEF HwSend
<1>4. CASE \/ \E new \in {"RTS", "SQD"} : xib_modify_qp(new)
           \/ \E n \in 1 .. MaxChain : PostBegin(n) \/ PostSqd(n)
           \/ \E signaled \in BOOLEAN : PostWr(signaled) \/ PostWrFails(signaled)
           \/ send_out_cnp
           \/ \E n \in 1 .. MaxEntries : PollBegin(n)
  BY <1>4, RecvKept DEF xib_modify_qp, PostBegin, PostSqd, PostWr, PostWrFails,
                        send_out_cnp, PollBegin
<1> QED
  BY <1>1, <1>2, <1>3, <1>4 DEF Next

\* Nothing has been posted at the start.
LEMMA RecvInvInit ==
    ASSUME ConstantsOK, Init
    PROVE  RecvInv
<1>0. max_wr \in Nat \ {0} /\ 0 % max_wr = 0
  BY RingMod DEF ConstantsOK
<1>1. RecvTypes
  BY DEF Init, RecvTypes, Received
<1>2. RecvCounts(0)
  BY <1>0 DEF Init, RecvCounts, RingPtr
<1>3. RecvContents(0) /\ MadsInOrder /\ 0 \in 0 .. arrived
  BY DEF Init, RecvContents, MadsInOrder
<1> QED
  BY <1>1, <1>2, <1>3 DEF RecvInv

\* When the tasklet is done, what it has handled is all that has landed.
LEMMA NoneLeftFollows ==
    ASSUME ConstantsOK, RecvInv
    PROVE  NoMadLeftBehind
<1> SUFFICES ASSUME ~hdl.sched, hdl.left = 0
             PROVE  (gsi_cons + max_wr - cons) % max_wr = arrived - Len(recv_wcs)
  BY DEF NoMadLeftBehind
<1>0. RecvTypes /\ max_wr \in Nat \ {0}
  BY DEF RecvInv, ConstantsOK
<1>1. PICK g \in 0 .. arrived : RecvCounts(g)
  BY DEF RecvInv
<1>2. PICK r \in Nat : r = Len(recv_wcs)
  BY <1>0 DEF RecvTypes
<1>3. g = arrived /\ r <= g /\ g < r + max_wr /\ gsi_cons = g % max_wr /\ cons = r % max_wr
  BY <1>0, <1>1, <1>2 DEF RecvTypes, RecvCounts
<1>4. (((g % max_wr) + max_wr) - (r % max_wr)) % max_wr = g - r
  BY <1>0, <1>2, <1>3, RecdExact DEF RecvTypes
<1>5. g % max_wr \in Slots /\ r % max_wr \in Slots
  BY <1>3, RingFacts
<1>6. gsi_cons + max_wr - cons = ((g % max_wr) + max_wr) - (r % max_wr)
  BY <1>0, <1>3, <1>5 DEF Slots
<1> QED
  BY <1>2, <1>3, <1>4, <1>6
-----------------------------------------------------------------------------
(* Sending *)

\* The requests handed to the hardware.
LEMMA SentTypes ==
    ASSUME SendTypes
    PROVE  /\ Len(sent) \in Nat
           /\ \A k \in 1 .. Len(sent) :
                 sent[k] \in Request /\ sent[k].wr_id \in Int /\ sent[k].signaled \in BOOLEAN
<1>1. Len(sent) \in Nat /\ \A k \in 1 .. Len(sent) : sent[k] \in Request
  BY DEF SendTypes
<1>2. \A r \in Request : r.wr_id \in Int /\ r.signaled \in BOOLEAN
  BY DEF Request
<1> QED
  BY <1>1, <1>2

\* The entries of the send rings.
LEMMA SendEntries ==
    ASSUME SendInv
    PROVE  /\ Len(sent) \in Nat /\ Len(wire) \in Nat /\ reaped \in Nat
           /\ reaped <= Len(wire) /\ Len(wire) <= Len(sent) /\ Len(sent) <= reaped + max_wr
           /\ offered \in Nat /\ post \in Nat
BY DEF SendInv, SendTypes, SendCounts

\* What was reported stays right when the elements that were passed stay.
LEMMA ReportsKept ==
    ASSUME SendInv, SendsReported, UNCHANGED <<send_wcs, reaped>>,
           \A k \in 1 .. reaped : sent'[k] = sent[k] /\ wire'[k] = wire[k]
    PROVE  SendsReported'
<1>1. \A k \in 1 .. reaped : ToReport(k)' <=> ToReport(k)
  BY DEF ToReport
<1> QED
  BY <1>1 DEF SendsReported

\* Steps that leave the send ring, the wire and the completions alone.
LEMMA SendQuiet ==
    ASSUME SendInv, UNCHANGED <<ringVars, hwSendVars, reapVars>>,
           offered' \in Nat, post' \in Nat,
           poll' \in [pc : {"idle", "recv", "send", "flush"}, i : Nat, n : Nat, head : Int],
           poll'.pc = "send" => \/ poll.pc = "send" /\ poll'.head = poll.head
                                \/ poll'.head = CQ_HEAD_PTR
    PROVE  SendInv' /\ (OrderInv => OrderInv')
<1>1. SendTypes'
  BY DEF SendInv, SendTypes, ringVars, hwSendVars, reapVars
<1>2. SendCounts'
  <2>1. Len(wire) \in reaped .. Len(wire)
    BY SendEntries
  <2>2. poll'.pc = "send" => \E h \in reaped .. Len(wire) : poll'.head = RingPtr(h)
    BY <2>1 DEF SendInv, SendCounts
  <2> QED
    BY <2>2 DEF SendInv, SendCounts, ringVars, hwSendVars, reapVars
<1>3. OrderInv => OrderInv'
  BY ReportsKept DEF OrderInv, ringVars, hwSendVars, reapVars
<1> QED
  BY <1>1, <1>2, <1>3 DEF SendInv

\* One element is handed to the hardware while an entry of the ring is free.
LEMMA SendRing ==
    ASSUME ConstantsOK, SendInv, NEW req \in Request, Ring(req), UNCHANGED hwSendVars,
           UNCHANGED reapVars, poll' = poll, offered' \in Nat, post' \in Nat,
           send_sgl' \in Int, wr_id_array' \in [Slots -> Request],
           Len(sent) < reaped + max_wr,
           \A k \in reaped .. Len(sent) - 1 :
              sent[k + 1].wr_id # CNP => wr_id_array'[k % max_wr] = wr_id_array[k % max_wr],
           req.wr_id # CNP => wr_id_array'[Len(sent) % max_wr] = req
    PROVE  SendInv' /\ (OrderInv => OrderInv')
<1>0. SendTypes /\ SendCounts
  BY DEF SendInv
<1>1. PICK s \in Nat : s = Len(sent)
  BY <1>0 DEF SendTypes
<1>2. /\ sent' = Append(sent, req) /\ sq_cmpl_db_local' = RingInc(s % max_wr)
      /\ SQ_PROD_IDX' = (s % max_wr) + 1
  BY <1>0, <1>1 DEF Ring, SendCounts
<1>3. /\ sent' \in Seq(Request) /\ Len(sent') = s + 1
      /\ sent'[s + 1] = req /\ \A k \in 1 .. s : sent'[k] = sent[k]
  BY <1>0, <1>1, <1>2 DEF SendTypes
<1>4. sq_cmpl_db_local' = (s + 1) % max_wr /\ SQ_PROD_IDX' = RingPtr(s + 1)
  BY <1>2, RingFacts, PtrFacts
<1>5. SendTypes'
  BY <1>0, <1>3 DEF SendTypes, hwSendVars, reapVars
<1>6. SendCounts'
  <2>1. Len(wire) <= s + 1 /\ s + 1 <= reaped + max_wr
    BY <1>1, SendEntries DEF ConstantsOK
  <2> QED
    BY <1>0, <1>3, <1>4, <2>1 DEF SendCounts, hwSendVars, reapVars
<1>7. ASSUME OrderInv PROVE OrderInv'
  <2>1. \A k \in 1 .. reaped : sent'[k] = sent[k] /\ wire'[k] = wire[k]
    BY <1>1, <1>3, SendEntries DEF hwSendVars
  <2>2. SendsReported'
    BY <1>7, <2>1, ReportsKept DEF OrderInv, reapVars
  <2>3. ASSUME NEW k \in reaped .. (s + 1) - 1, sent'[k + 1].wr_id # CNP
        PROVE  wr_id_array'[k % max_wr] = sent'[k + 1]
    <3>1. CASE k = s
      BY <1>1, <1>3, <2>3, <3>1
    <3>2. CASE k # s
      <4>1. k \in reaped .. s - 1 /\ k + 1 \in 1 .. s
        BY <1>1, <3>2, SendEntries
      <4> QED
        BY <1>1, <1>3, <1>7, <2>3, <4>1 DEF OrderInv
    <3> QED
      BY <3>1, <3>2
  <2>4. UNCHANGED <<cqe_err, wire, reaped>>
    BY DEF hwSendVars, reapVars
  <2> QED
    BY <1>3, <1>7, <2>2, <2>3, <2>4 DEF OrderInv
<1> QED
  BY <1>5, <1>6, <1>7 DEF SendInv

\* The elements that are not polled have other entries than the next one.
LEMMA NextEntryFree ==
    ASSUME ConstantsOK, SendInv, NEW b \in reaped .. reaped + max_wr - 1,
           NEW k \in reaped .. b - 1
    PROVE  k % max_wr # b % max_wr /\ k % max_wr \in Slots
<1>1. /\ k \in Nat /\ b \in Nat /\ k # b /\ k < b + max_wr /\ b < k + max_wr
  BY SendEntries DEF ConstantsOK
<1> QED
  BY <1>1, RingDistinct, RingFacts

\* Until the ring is full, the next entry is free.
LEMMA EntryLeft ==
    ASSUME ConstantsOK, SendInv, FillsRing, ~full'
    PROVE  Len(sent) < reaped + max_wr /\ Len(sent) \in reaped .. reaped + max_wr - 1
<1>1. ~(Len(sent) - reaped >= max_wr)
  BY Zenon DEF FillsRing
<1> QED
  BY <1>1, SendEntries DEF ConstantsOK

\* A request of a chain is sent.
LEMMA SendPosted ==
    ASSUME ConstantsOK, SendInv, NEW signaled \in BOOLEAN, PostWr(signaled), ~full'
    PROVE  SendInv' /\ (OrderInv => OrderInv')
<1> DEFINE req == [wr_id |-> offered + 1, signaled |-> signaled]
<1>0. SendTypes /\ SendCounts
  BY DEF SendInv
<1>1. PICK s \in Nat : s = Len(sent)
  BY <1>0 DEF SendTypes
<1>2. PICK e \in Slots : e = s % max_wr
  BY RingFacts
<1>3. req \in Request
  BY <1>0 DEF Request, SendTypes
<1>4. /\ wr_id_array' = [wr_id_array EXCEPT ![e] = req] /\ send_sgl' = offered + 1
      /\ Ring(req) /\ offered' = offered + 1 /\ post' = post - 1 /\ post > 0
      /\ UNCHANGED hwSendVars /\ UNCHANGED reapVars /\ poll' = poll
  BY <1>0, <1>1, <1>2 DEF PostWr, xib_prepare_sgl, SendCounts
<1> HIDE DEF req
<1>5. /\ wr_id_array' \in [Slots -> Request] /\ wr_id_array'[e] = req
      /\ \A t \in Slots \ {e} : wr_id_array'[t] = wr_id_array[t]
  BY <1>0, <1>3, <1>4 DEF SendTypes
<1>6. offered' \in Nat /\ post' \in Nat /\ send_sgl' \in Int
  BY <1>4, SendEntries
<1>7. s < reaped + max_wr /\ s \in reaped .. reaped + max_wr - 1
  BY <1>1, EntryLeft DEF PostWr
<1>8. \A k \in reaped .. s - 1 : wr_id_array'[k % max_wr] = wr_id_array[k % max_wr]
  BY <1>2, <1>5, <1>7, NextEntryFree
<1>9. wr_id_array'[s % max_wr] = req
  BY <1>2, <1>5
<1> QED
  BY <1>1, <1>3, <1>4, <1>5, <1>6, <1>7, <1>8, <1>9, SendRing

\* A request that cannot be built leaves its number at the next entry, which is
\* none of those in flight.
LEMMA SendFails ==
    ASSUME ConstantsOK, SendInv, NEW signaled \in BOOLEAN, PostWrFails(signaled), ~full'
    PROVE  SendInv' /\ (OrderInv => OrderInv')
<1> DEFINE req == [wr_id |-> offered + 1, signaled |-> signaled]
<1>0. SendTypes /\ SendCounts
  BY DEF SendInv
<1>1. PICK s \in Nat : s = Len(sent)
  BY <1>0 DEF SendTypes
<1>2. PICK e \in Slots : e = s % max_wr
  BY RingFacts
<1>3. req \in Request
  BY <1>0 DEF Request, SendTypes
<1>4. /\ wr_id_array' = [wr_id_array EXCEPT ![e] = req]
      /\ offered' = offered + 1 /\ post' = 0 /\ post > 0
      /\ UNCHANGED <<sq_cmpl_db_local, send_sgl, SQ_PROD_IDX, sent, hwSendVars, reapVars, poll>>
  BY <1>0, <1>1, <1>2 DEF PostWrFails, SendCounts
<1> HIDE DEF req
<1>5. /\ wr_id_array' \in [Slots -> Request]
      /\ \A t \in Slots \ {e} : wr_id_array'[t] = wr_id_array[t]
  BY <1>0, <1>3, <1>4 DEF SendTypes
<1>6. SendTypes'
  <2>1. offered' \in Nat /\ post' \in Nat
    BY <1>4, SendEntries
  <2> QED
    BY <1>0, <1>4, <1>5, <2>1 DEF SendTypes, hwSendVars, reapVars
<1>7. SendCounts'
  BY <1>0, <1>4 DEF SendCounts, hwSendVars, reapVars
<1>8. ASSUME OrderInv PROVE OrderInv'
  <2>1. s \in reaped .. reaped + max_wr - 1
    BY <1>1, EntryLeft DEF PostWrFails
  <2>2. \A k \in reaped .. s - 1 : wr_id_array'[k % max_wr] = wr_id_array[k % max_wr]
    BY <1>2, <1>5, <2>1, NextEntryFree
  <2>3. SendsReported'
    BY <1>4, <1>8, ReportsKept DEF OrderInv, hwSendVars, reapVars
  <2> QED
    BY <1>1, <1>4, <1>8, <2>2, <2>3 DEF OrderInv, hwSendVars, reapVars
<1> QED
  BY <1>6, <1>7, <1>8 DEF SendInv

\* A congestion notification takes an entry of the ring; wr_id_array stays.
LEMMA SendCnp ==
    ASSUME ConstantsOK, SendInv, send_out_cnp, ~full'
    PROVE  SendInv' /\ (OrderInv => OrderInv')
<1> DEFINE req == [wr_id |-> CNP, signaled |-> FALSE]
<1>1. req \in Request /\ req.wr_id = CNP /\ CNP \in Int
  BY DEF Request, CNP
<1>2. /\ Ring(req) /\ send_sgl' = CNP
      /\ UNCHANGED <<wr_id_array, hwSendVars, reapVars, post, poll, offered>>
  BY DEF send_out_cnp
<1> HIDE DEF req
<1>3. Len(sent) < reaped + max_wr
  BY EntryLeft DEF send_out_cnp
<1>4. /\ offered' \in Nat /\ post' \in Nat /\ send_sgl' \in Int
      /\ wr_id_array' \in [Slots -> Request]
  BY <1>1, <1>2, SendEntries DEF SendInv, SendTypes
<1> QED
  BY <1>1, <1>2, <1>3, <1>4, SendRing

\* The hardware executes an element and writes how it ended.
LEMMA SendExecuted ==
    ASSUME ConstantsOK, SendInv, NEW err \in BOOLEAN, HwSend(err)
    PROVE  SendInv' /\ (OrderInv => OrderInv')
<1> DEFINE done == [frame |-> send_sgl, err |-> err]
<1>0. SendTypes /\ SendCounts
  BY DEF SendInv
<1>1. PICK w \in Nat : w = Len(wire)
  BY <1>0 DEF SendTypes
<1>2. w < Len(sent) /\ Len(sent) \in Nat
  <2>1. w # Len(sent)
    BY <1>0, <1>1 DEF HwSend, SendCounts
  <2> QED
    BY <1>1, <2>1, SendEntries
<1>3. PICK e \in Slots : e = w % max_wr
  BY RingFacts
<1>4. /\ wire' = Append(wire, done) /\ CQ_HEAD_PTR' = RingPtr(w + 1)
      /\ cqe_err' = [cqe_err EXCEPT ![e] = err]
      /\ UNCHANGED <<ringVars, reapVars, post, poll, offered>>
  BY <1>1, <1>3 DEF HwSend
<1>5. done \in Executed /\ done.err = err
  BY <1>0 DEF Executed, SendTypes
<1> HIDE DEF done
<1>6. /\ wire' \in Seq(Executed) /\ Len(wire') = w + 1 /\ wire'[w + 1] = done
      /\ \A k \in 1 .. w : wire'[k] = wire[k]
  BY <1>0, <1>1, <1>4, <1>5 DEF SendTypes
<1>7. /\ cqe_err' \in [Slots -> BOOLEAN] /\ cqe_err'[e] = err
      /\ \A t \in Slots \ {e} : cqe_err'[t] = cqe_err[t]
  BY <1>0, <1>4 DEF SendTypes
<1>8. SendTypes'
  BY <1>0, <1>4, <1>6, <1>7 DEF SendTypes, ringVars, reapVars
<1>9. SendCounts'
  <2>1. reaped <= w + 1 /\ w + 1 <= Len(sent) /\ reaped .. w \subseteq reaped .. w + 1
    BY <1>1, <1>2, SendEntries
  <2> QED
    BY <1>0, <1>1, <1>4, <1>6, <2>1 DEF SendCounts, ringVars, reapVars
<1>10. ASSUME OrderInv PROVE OrderInv'
  <2>1. w \in reaped .. reaped + max_wr - 1
    BY <1>1, <1>2, SendEntries DEF ConstantsOK
  <2>2. ASSUME NEW k \in reaped .. (w + 1) - 1
        PROVE  cqe_err'[k % max_wr] = wire'[k + 1].err
    <3>1. CASE k = w
      BY <1>3, <1>5, <1>6, <1>7, <3>1
    <3>2. CASE k # w
      <4>1. k \in reaped .. w - 1 /\ k + 1 \in 1 .. w
        BY <1>1, <3>2, SendEntries
      <4>2. k % max_wr # e /\ k % max_wr \in Slots
        BY <1>3, <2>1, <4>1, NextEntryFree
      <4> QED
        BY <1>1, <1>6, <1>7, <1>10, <4>1, <4>2 DEF OrderInv
    <3> QED
      BY <3>1, <3>2
  <2>3. SendsReported'
    <3>1. \A k \in 1 .. reaped : sent'[k] = sent[k] /\ wire'[k] = wire[k]
      BY <1>1, <1>4, <1>6, SendEntries DEF ringVars
    <3> QED
      BY <1>4, <1>10, <3>1, ReportsKept DEF OrderInv, reapVars
  <2> QED
    BY <1>4, <1>6, <1>10, <2>2, <2>3 DEF OrderInv, ringVars, reapVars
<1> QED
  BY <1>8, <1>9, <1>10 DEF SendInv

\* What the poll reports of an element is right.
LEMMA SendReported ==
    ASSUME ConstantsOK, SendInv, OrderInv, NEW c \in Nat, c = reaped, c < Len(wire),
           UNCHANGED <<sent, wire>>, reaped' = c + 1,
           IF ReportsSend(c % max_wr)
             THEN send_wcs' = Append(send_wcs, [wr_id |-> wr_id_array[c % max_wr].wr_id,
                                                elem |-> c + 1])
             ELSE send_wcs' = send_wcs
    PROVE  SendsReported' /\ send_wcs' \in Seq(Reported)
<1> DEFINE e == c % max_wr
           new == [wr_id |-> wr_id_array[e].wr_id, elem |-> c + 1]
<1>0. SendTypes /\ SendCounts /\ SendsReported
  BY DEF SendInv, OrderInv
<1>1. PICK n \in Nat : n = Len(send_wcs)
  BY <1>0 DEF SendTypes
<1>2. e \in Slots /\ c + 1 \in 1 .. Len(sent) /\ c \in reaped .. Len(wire) - 1
      /\ c \in reaped .. Len(sent) - 1
  <2>1. e \in Slots
    BY RingFacts
  <2>2. Len(sent) \in Nat /\ Len(wire) \in Nat /\ c < Len(sent)
    BY SendEntries
  <2> QED
    BY <2>1, <2>2
<1>3. /\ wr_id_array[e].wr_id \in Int /\ new \in Reported
      /\ new.wr_id = wr_id_array[e].wr_id /\ new.elem = c + 1
  <2>1. wr_id_array[e] \in Request
    BY <1>0, <1>2 DEF SendTypes
  <2>2. wr_id_array[e].wr_id \in Int
    BY <2>1 DEF Request
  <2> QED
    BY <2>2 DEF Reported
<1>4. /\ cqe_err[e] = wire[c + 1].err
      /\ sent[c + 1].wr_id # CNP => wr_id_array[e] = sent[c + 1]
  BY <1>2 DEF OrderInv
<1>5. /\ \A j \in 1 .. n : /\ send_wcs[j] \in Reported /\ send_wcs[j].elem \in 1 .. c
      /\ \A k \in 1 .. c : ToReport(k) => \E j \in 1 .. n : send_wcs[j].elem = k
  <2>1. \A j \in 1 .. n : send_wcs[j] \in Reported
    BY <1>0, <1>1 DEF SendTypes
  <2> QED
    BY <1>0, <1>1, <2>1 DEF SendsReported
<1>6. \A k \in 1 .. c + 1 : ToReport(k)' <=> ToReport(k)
  BY DEF ToReport
<1>7. CASE ReportsSend(e)
  <2> HIDE DEF e, new
  <2>1. send_wcs' = Append(send_wcs, new) /\ send_wcs \in Seq(Reported)
    BY <1>0, <1>7 DEF SendTypes, e, new
  <2>2. /\ send_wcs' \in Seq(Reported) /\ Len(send_wcs') = n + 1 /\ send_wcs'[n + 1] = new
        /\ \A j \in 1 .. n : send_wcs'[j] = send_wcs[j]
    BY <1>1, <1>3, <2>1
  <2>3. ASSUME NEW j \in 1 .. n + 1, NEW k \in 1 .. n + 1, j < k
        PROVE  send_wcs'[j].elem < send_wcs'[k].elem
    <3>0. j \in 1 .. n
      BY <2>3
    <3>1. CASE k = n + 1
      BY <1>3, <1>5, <2>2, <3>0, <3>1
    <3>2. CASE k # n + 1
      <4>1. k \in 1 .. n
        BY <3>2
      <4> QED
        BY <1>0, <1>1, <2>2, <2>3, <3>0, <4>1 DEF SendsReported
    <3> QED
      BY <3>1, <3>2
  <2>4. sent[c + 1].wr_id # CNP => ToReport(c + 1) /\ sent[c + 1].wr_id = new.wr_id
    BY <1>3, <1>4, <1>7 DEF ReportsSend, ToReport
  <2>5. ASSUME NEW j \in 1 .. n + 1
        PROVE  /\ send_wcs'[j].elem \in 1 .. c + 1
               /\ \/ sent[send_wcs'[j].elem].wr_id = CNP
                  \/ /\ ToReport(send_wcs'[j].elem)
                     /\ sent[send_wcs'[j].elem].wr_id = send_wcs'[j].wr_id
    <3>1. CASE j = n + 1
      BY <1>3, <2>2, <2>4, <3>1
    <3>2. CASE j # n + 1
      <4>1. j \in 1 .. n /\ send_wcs'[j] = send_wcs[j]
        BY <2>2, <3>2
      <4>2. send_wcs[j].elem \in 1 .. c + 1
        BY <1>5, <4>1
      <4> QED
        BY <1>0, <1>1, <4>1, <4>2 DEF SendsReported
    <3> QED
      BY <3>1, <3>2
  <2>6. ASSUME NEW k \in 1 .. c + 1, ToReport(k)
        PROVE  \E j \in 1 .. n + 1 : send_wcs'[j].elem = k
    <3>1. CASE k = c + 1
      <4>1. n + 1 \in 1 .. n + 1
        OBVIOUS
      <4> QED
        BY <1>3, <2>2, <3>1, <4>1
    <3>2. CASE k # c + 1
      <4>1. PICK j \in 1 .. n : send_wcs[j].elem = k
        BY <1>5, <2>6, <3>2
      <4>2. j \in 1 .. n + 1
        OBVIOUS
      <4> QED
        BY <2>2, <4>1, <4>2
    <3> QED
      BY <3>1, <3>2
  <2> QED
    BY <1>6, <2>2, <2>3, <2>5, <2>6 DEF SendsReported
<1>8. CASE ~ReportsSend(e)
  <2>1. send_wcs' = send_wcs /\ send_wcs \in Seq(Reported)
    BY <1>0, <1>8 DEF SendTypes
  <2>2. ~ToReport(c + 1)
    BY <1>4, <1>8 DEF ReportsSend, ToReport
  <2>3. \A k \in 1 .. c + 1 : ToReport(k) => \E j \in 1 .. n : send_wcs[j].elem = k
    BY <1>5, <2>2
  <2>4. \A j \in 1 .. n : send_wcs[j].elem \in 1 .. c + 1
    BY <1>5
  <2> QED
    BY <1>0, <1>1, <1>6, <2>1, <2>3, <2>4 DEF SendsReported
<1> QED
  BY <1>7, <1>8

\* The poll passes a completion, and reports the request of its entry.
LEMMA SendPolled ==
    ASSUME ConstantsOK, SendInv, PollSend
    PROVE  SendInv' /\ (OrderInv => OrderInv')
<1> DEFINE Poll == [pc : {"idle", "recv", "send", "flush"}, i : Nat, n : Nat, head : Int]
<1>0. SendTypes /\ SendCounts
  BY DEF SendInv
<1>1. PICK c \in Nat : c = reaped
  BY <1>0 DEF SendTypes
<1>2. PICK h \in c .. Len(wire) : poll.head = RingPtr(h)
  BY <1>0, <1>1 DEF PollSend, SendCounts
<1>3. c < h /\ c < Len(wire) /\ c < Len(sent) /\ Len(wire) \in Nat /\ Len(sent) \in Nat
  <2>1. c # h
    BY <1>0, <1>1, <1>2 DEF PollSend, SendCounts
  <2> QED
    BY <1>1, <1>2, <2>1, SendEntries
<1>4. PICK e \in Slots : e = c % max_wr
  BY RingFacts
<1>5. (IF send_cq_db_local = max_wr THEN 0 ELSE send_cq_db_local) = e
  BY <1>0, <1>1, <1>4, PtrFacts DEF SendCounts
<1>6. /\ send_cq_db_local' = RingPtr(c + 1) /\ reaped' = c + 1
      /\ IF ReportsSend(e)
           THEN /\ send_wcs' = Append(send_wcs, [wr_id |-> wr_id_array[e].wr_id, elem |-> c + 1])
                /\ poll' = [poll EXCEPT !.i = @ + 1]
           ELSE UNCHANGED <<send_wcs, poll>>
      /\ UNCHANGED <<ringVars, hwSendVars, post, offered>>
  BY <1>1, <1>4, <1>5, PtrFacts DEF PollSend
<1>7. poll' \in Poll /\ poll'.pc = poll.pc /\ poll'.head = poll.head
  <2>1. poll \in Poll /\ (poll' = [poll EXCEPT !.i = @ + 1] \/ poll' = poll)
    BY <1>0, <1>6 DEF SendTypes
  <2> QED
    BY <2>1, SMTT(20)
<1>8. send_wcs' \in Seq(Reported)
  <2>1. wr_id_array[e] \in Request
    BY <1>0 DEF SendTypes
  <2>2. wr_id_array[e].wr_id \in Int
    BY <2>1 DEF Request
  <2>3. [wr_id |-> wr_id_array[e].wr_id, elem |-> c + 1] \in Reported
    BY <2>2 DEF Reported
  <2>4. \/ send_wcs' = Append(send_wcs, [wr_id |-> wr_id_array[e].wr_id, elem |-> c + 1])
        \/ send_wcs' = send_wcs
    BY <1>6
  <2>5. send_wcs \in Seq(Reported)
    BY <1>0 DEF SendTypes
  <2> QED
    BY <2>3, <2>4, <2>5
<1>9. SendTypes'
  <2>1. UNCHANGED <<ringVars, hwSendVars, post, offered>> /\ reaped' = c + 1
    BY <1>6
  <2> QED
    BY <1>0, <1>7, <1>8, <2>1 DEF SendTypes, ringVars, hwSendVars
<1>10. SendCounts'
  <2>1. h \in c + 1 .. Len(wire)
    BY <1>2, <1>3
  <2>2. c + 1 <= Len(wire) /\ Len(sent) <= (c + 1) + max_wr
    BY <1>1, <1>3, SendEntries DEF ConstantsOK
  <2> QED
    BY <1>0, <1>2, <1>6, <1>7, <2>1, <2>2 DEF SendCounts, ringVars, hwSendVars
<1>11. ASSUME OrderInv PROVE OrderInv'
  <2>1. SendsReported'
    BY <1>1, <1>3, <1>4, <1>6, <1>11, SendReported DEF ringVars, hwSendVars
  <2>2. c + 1 .. Len(sent) - 1 \subseteq c .. Len(sent) - 1
        /\ c + 1 .. Len(wire) - 1 \subseteq c .. Len(wire) - 1
    BY <1>3
  <2> QED
    BY <1>1, <1>6, <1>11, <2>1, <2>2 DEF OrderInv, ringVars, hwSendVars
<1> QED
  BY <1>9, <1>10, <1>11 DEF SendInv

\* Every step keeps the send side correct, until the ring is overrun.
LEMMA SendInvNext ==
    ASSUME ConstantsOK, SendInv, Next, ~full'
    PROVE  SendInv' /\ (OrderInv => OrderInv')
<1> DEFINE Poll == [pc : {"idle", "recv", "send", "flush"}, i : Nat, n : Nat, head : Int]
<1>0. offered \in Nat /\ post \in Nat /\ poll \in Poll
  BY DEF SendInv, SendTypes
<1>1. CASE UNCHANGED <<ringVars, hwSendVars, reapVars, post, poll, offered>>
  BY <1>0, <1>1, SendQuiet
<1>2. ASSUME NEW n \in 1 .. MaxChain, PostBegin(n) \/ PostSqd(n)
      PROVE  SendInv' /\ (OrderInv => OrderInv')
  <2>1. n \in Nat
    BY DEF ConstantsOK
  <2>2. /\ UNCHANGED <<ringVars, hwSendVars, reapVars, poll>>
        /\ offered' \in {offered, offered + n} /\ post' \in {post, n}
    BY <1>2 DEF PostBegin, PostSqd
  <2>3. offered' \in Nat /\ post' \in Nat
    BY <1>0, <2>1, <2>2
  <2> QED
    BY <1>0, <2>2, <2>3, SendQuiet
<1>3. ASSUME poll' \in Poll, UNCHANGED <<ringVars, hwSendVars, reapVars, post, offered>>,
             poll'.pc = "send" => \/ poll.pc = "send" /\ poll'.head = poll.head
                                  \/ poll'.head = CQ_HEAD_PTR
      PROVE  SendInv' /\ (OrderInv => OrderInv')
  BY <1>0, <1>3, SendQuiet
<1>4. ASSUME NEW n \in 1 .. MaxEntries, PollBegin(n)
      PROVE  SendInv' /\ (OrderInv => OrderInv')
  <2>1. n \in Nat
    BY DEF ConstantsOK
  <2>2. poll' \in Poll /\ poll'.pc = "recv"
    BY <1>4, <2>1 DEF PollBegin
  <2> QED
    BY <1>3, <1>4, <2>2 DEF PollBegin
<1>5. CASE PollRecv
  <2>1. poll' = [poll EXCEPT !.i = @ + 1]
    BY <1>5 DEF PollRecv
  <2>2. poll' \in Poll /\ poll'.pc = poll.pc /\ poll'.head = poll.head
    BY <1>0, <2>1
  <2> QED
    BY <1>3, <1>5, <2>2 DEF PollRecv
<1>6. CASE PollRecvDone
  <2>1. poll' = [poll EXCEPT !.pc = "send", !.head = CQ_HEAD_PTR]
    BY <1>6 DEF PollRecvDone
  <2>2. CQ_HEAD_PTR \in Int
    BY PtrFacts DEF SendInv, SendTypes, SendCounts
  <2>3. poll' \in Poll /\ poll'.head = CQ_HEAD_PTR
    BY <1>0, <2>1, <2>2
  <2> QED
    BY <1>3, <1>6, <2>3 DEF PollRecvDone
<1>7. CASE PollSendDone
  <2>1. poll' = [poll EXCEPT !.pc = "flush"]
    BY <1>7 DEF PollSendDone
  <2>2. poll' \in Poll /\ poll'.pc = "flush"
    BY <1>0, <2>1
  <2> QED
    BY <1>3, <1>7, <2>2 DEF PollSendDone
<1>8. CASE PollFlush
  <2>1. poll' = [poll EXCEPT !.pc = "idle", !.i = 0, !.n = 0, !.head = 0]
    BY <1>8 DEF PollFlush
  <2>2. PICK a : a = [poll EXCEPT !.pc = "idle"]
    OBVIOUS
  <2>3. a \in Poll /\ a.pc = "idle"
    BY <1>0, <2>2
  <2>4. PICK b : b = [a EXCEPT !.i = 0]
    OBVIOUS
  <2>5. b \in Poll /\ b.pc = "idle"
    BY <2>3, <2>4
  <2>6. PICK c : c = [b EXCEPT !.n = 0]
    OBVIOUS
  <2>7. c \in Poll /\ c.pc = "idle"
    BY <2>5, <2>6
  <2>8. poll' = [c EXCEPT !.head = 0]
    BY <2>1, <2>2, <2>4, <2>6
  <2>9. poll' \in Poll /\ poll'.pc = "idle"
    BY <2>7, <2>8
  <2> QED
    BY <1>3, <1>8, <2>9 DEF PollFlush
<1>9. CASE PostRecv \/ HwDatagram \/ Handler \/ \E new \in {"RTS", "SQD"} : xib_modify_qp(new)
  BY <1>1, <1>9 DEF PostRecv, HwDatagram, Handler, HandlerBegin, HandlerFrame, xib_modify_qp
<1>10. CASE \/ \E signaled \in BOOLEAN : PostWr(signaled) \/ PostWrFails(signaled)
            \/ send_out_cnp
            \/ \E err \in BOOLEAN : HwSend(err)
            \/ PollSend
  BY <1>10, SendPosted, SendFails, SendCnp, SendExecuted, SendPolled
<1> QED
  BY <1>2, <1>4, <1>5, <1>6, <1>7, <1>8, <1>9, <1>10 DEF Next, PollStep

\* Nothing has been sent at the start.
LEMMA SendInvInit ==
    ASSUME ConstantsOK, Init
    PROVE  SendInv /\ OrderInv
<1>0. max_wr \in Nat \ {0} /\ 0 % max_wr = 0 /\ RingPtr(0) = 0
  BY RingMod DEF ConstantsOK, RingPtr
<1>1. SendTypes
  <2>1. [wr_id |-> 0, signaled |-> FALSE] \in Request
    BY DEF Request
  <2>2. /\ [pc |-> "idle", i |-> 0, n |-> 0, head |-> 0]
             \in [pc : {"idle", "recv", "send", "flush"}, i : Nat, n : Nat, head : Int]
        /\ << >> \in Seq(Request) /\ << >> \in Seq(Executed) /\ << >> \in Seq(Reported)
    OBVIOUS
  <2> QED
    BY <2>1, <2>2 DEF Init, SendTypes
<1>2. SendCounts
  BY <1>0 DEF Init, SendCounts, ConstantsOK
<1>3. OrderInv
  BY DEF Init, OrderInv, SendsReported
<1> QED
  BY <1>1, <1>2, <1>3 DEF SendInv

\* A step that changes nothing.
LEMMA GsiStutter ==
    ASSUME UNCHANGED vars
    PROVE  /\ RecvInv => RecvInv'
           /\ SendInv => SendInv'
           /\ SendInv /\ OrderInv => OrderInv'
<1>1. RecvInv => RecvInv'
  BY RecvKept DEF vars
<1>2. SendInv => SendInv'
  BY DEF vars, ringVars, hwSendVars, reapVars, SendInv, SendTypes, SendCounts
<1>3. SendInv /\ OrderInv => OrderInv'
  BY ReportsKept DEF vars, ringVars, hwSendVars, reapVars, OrderInv
<1> QED
  BY <1>1, <1>2, <1>3

\* The two histories never end.
LEMMA HistoriesStay ==
    ASSUME [Next]_vars
    PROVE  (rewound => rewound') /\ (full => full')
<1> DEFINE Stay == (rewound => rewound') /\ (full => full')
<1>1. ASSUME HandlerBegin PROVE Stay
  <2>1. (rewound => rewound') /\ full' = full
    BY <1>1, Zenon DEF HandlerBegin, ringVars
  <2> QED
    BY <2>1
<1>2. ASSUME FillsRing PROVE full => full'
  BY <1>2, Zenon DEF FillsRing
<1>3. ASSUME NEW signaled \in BOOLEAN, PostWr(signaled) \/ PostWrFails(signaled)
      PROVE  Stay
  <2>1. rewound' = rewound /\ FillsRing
    BY <1>3 DEF PostWr, PostWrFails, recvVars
  <2> QED
    BY <1>2, <2>1
<1>4. ASSUME send_out_cnp PROVE Stay
  <2>1. rewound' = rewound /\ FillsRing
    BY <1>4 DEF send_out_cnp, recvVars
  <2> QED
    BY <1>2, <2>1
<1>5. ASSUME PostRecv \/ HwDatagram \/ HandlerFrame \/ PollStep PROVE Stay
  BY <1>5 DEF PostRecv, HwDatagram, HandlerFrame, PollStep, PollRecv, PollRecvDone, PollSend,
              PollSendDone, PollFlush, recvVars, ringVars
<1>6. ASSUME NEW new, xib_modify_qp(new) PROVE Stay
  BY <1>6 DEF xib_modify_qp, recvVars, ringVars
<1>7. ASSUME NEW n, PostBegin(n) \/ PostSqd(n) \/ HwSend(n) \/ PollBegin(n) PROVE Stay
  BY <1>7 DEF PostBegin, PostSqd, HwSend, PollBegin, recvVars, ringVars
<1>8. ASSUME UNCHANGED vars PROVE Stay
  BY <1>8 DEF vars, recvVars, ringVars
<1> HIDE DEF Stay
<1>9. Next => Stay
  BY <1>1, <1>3, <1>4, <1>5, <1>6, <1>7 DEF Next, Handler
<1>10. Stay
  BY <1>8, <1>9
<1> QED
  BY <1>10 DEF Stay
-----------------------------------------------------------------------------
\* Until the tasklet counts a whole turn of the ring again, the datagrams reach
\* the MAD layer once each, in order and in the receives posted for them, and
\* none is left behind when the tasklet is done, for any depth of the ring and
\* any credit of the peers (xib_gsi_comp_handler, xib_gsi_poll_cq): the eager
\* reset of rq_wrptr_db_local does no harm but the one that rewound stands for.
THEOREM GsiMadsExact ==
    ASSUME ConstantsOK
    PROVE  Spec => []MadsExact
<1> DEFINE Inv == ~rewound => RecvInv
<1>1. Init => Inv
  BY RecvInvInit
<1>2. Inv /\ [Next]_vars => Inv'
  BY RecvInvNext, GsiStutter, HistoriesStay
<1>3. Inv => MadsExact
  BY NoneLeftFollows DEF RecvInv, MadsExact
<1> QED
  BY <1>1, <1>2, <1>3, PTL DEF Spec

\* Until an entry of the send ring is reused before it was polled, the signaled
\* requests that succeeded are reported once each, in posting order and by
\* their ids, whatever notifications are in the ring (xib_gsi_post_send,
\* send_out_cnp, xib_gsi_poll_cq).
THEOREM GsiSendsReportedInOrder ==
    ASSUME ConstantsOK
    PROVE  Spec => []SendsReportedInOrder
<1> DEFINE Inv == ~full => SendInv /\ OrderInv
<1>1. Init => Inv
  BY SendInvInit
<1>2. Inv /\ [Next]_vars => Inv'
  BY SendInvNext, GsiStutter, HistoriesStay
<1>3. Inv => SendsReportedInOrder
  BY DEF OrderInv, SendsReportedInOrder
<1> QED
  BY <1>1, <1>2, <1>3, PTL DEF Spec
=============================================================================
