------------------------- MODULE XibSendQueueProofs -------------------------
(***************************************************************************)
(* Proofs about the kernel QP's send queue, for rings of every depth,      *)
(* chains of every length and consumers of every credit below the depth.   *)
(***************************************************************************)
EXTENDS XibSendQueue, RingLemmas, SequenceTheorems

\* The consumer leaves one entry of the ring free.
Credit == SendCredit < sq_max_wr

\* No completion frees the buffer of an entry that staged none: reads and
\* writes are not staged, so that their completions must not free.
FreesOnlyStaged ==
    SqMemIsPs \/ Opcodes \cap {"IB_WR_RDMA_READ", "IB_WR_RDMA_WRITE"} = {}
-----------------------------------------------------------------------------
(* The inductive invariant.  A position is the remainder of a history      *)
(* counter; the counters are never a full turn of the ring apart.          *)

CountInv ==
    /\ reaped <= Len(executed) /\ Len(executed) <= Len(sent)
    /\ Len(sent) <= reaped + SendCredit
    /\ post.pc \in {"wr", "bell"} => Len(sent) + post.left <= reaped + SendCredit
    /\ post.pc \in {"wr", "bell", "sqd"} => post.left > 0

CursorInv ==
    /\ sq_cmpl_db_local = Len(sent) % sq_max_wr
    /\ SQ_PROD_IDX = RingPtr(Len(sent))
    /\ CQ_HEAD_PTR = RingPtr(Len(executed))
    /\ send_cq_db_local = RingPtr(reaped)
    /\ poll.pc = "reap" => \E h \in reaped .. Len(executed) : poll.head = RingPtr(h)

\* The requests are numbered as they are offered.
NameInv ==
    /\ \A k \in 1 .. Len(sent) : sent[k].wr_id < offered
    /\ \A j, k \in 1 .. Len(sent) : j < k => sent[j].wr_id < sent[k].wr_id
    /\ post.pc = "bell" => /\ post.req.wr_id < offered
                           /\ \A k \in 1 .. Len(sent) : sent[k].wr_id < post.req.wr_id

\* The entry of the request with number k of those handed to the hardware.
EntryHolds(k, req) ==
    LET s == (k - 1) % sq_max_wr
    IN  /\ wqe[s].wr_id = req.wr_id /\ wqe[s].opcode = req.opcode
        /\ wr_id_array[s].wr_id = req.wr_id /\ wr_id_array[s].signaled = req.signaled

EntryInv ==
    /\ \A k \in reaped + 1 .. Len(sent) : EntryHolds(k, sent[k])
    /\ post.pc = "bell" => EntryHolds(Len(sent) + 1, post.req)

CqeInv ==
    \A k \in reaped + 1 .. Len(executed) :
        /\ cqe[(k - 1) % sq_max_wr].opcode = executed[k].opcode
        /\ cqe[(k - 1) % sq_max_wr].err = executed[k].err

\* The poll reported the signaled requests among the reaped ones.
ReportInv ==
    /\ \A i, j \in 1 .. Len(send_wcs) : i < j => send_wcs[i].wr_id < send_wcs[j].wr_id
    /\ \A j \in 1 .. Len(send_wcs) : \E k \in 1 .. reaped :
           /\ sent[k].signaled = TRUE
           /\ send_wcs[j].wr_id = executed[k].wr_id /\ send_wcs[j].err = executed[k].err
    /\ \A k \in 1 .. reaped : sent[k].signaled = TRUE => \E j \in 1 .. Len(send_wcs) :
           send_wcs[j].wr_id = executed[k].wr_id /\ send_wcs[j].err = executed[k].err

RingInv ==
    /\ TypeOK /\ CountInv /\ CursorInv /\ NameInv /\ EntryInv /\ CqeInv
    /\ ExecutedInOrder /\ ReportInv

\* The staging buffer of a send waits in its entry.
BufferHolds(k, req) ==
    /\ req.opcode \in {WqeOpcode(op) : op \in Opcodes}
    /\ req.opcode = XRNIC_SEND_ONLY =>
           req.wr_id \in bufs /\ pl_buf_list[(k - 1) % sq_max_wr] = req.wr_id

BufferInv ==
    /\ \A k \in reaped + 1 .. Len(sent) : BufferHolds(k, sent[k])
    /\ post.pc = "bell" => BufferHolds(Len(sent) + 1, post.req)
    /\ NoBadFree

\* The list of state SQD holds the requests that were linked last.
SqdInv ==
    /\ sqd_length = Len(sqd_wr_list) /\ sqd_length <= sq_max_wr
    /\ \A k \in 1 .. Len(flush_wcs) : flush_wcs[k] < offered
    /\ \A k \in 1 .. Len(sqd_wr_list) : sqd_wr_list[k] < offered
    /\ \A j, k \in 1 .. Len(flush_wcs) : j < k => flush_wcs[j] < flush_wcs[k]
    /\ \A j, k \in 1 .. Len(sqd_wr_list) : j < k => sqd_wr_list[j] < sqd_wr_list[k]
    /\ \A j \in 1 .. Len(flush_wcs) : \A k \in 1 .. Len(sqd_wr_list) :
           flush_wcs[j] < sqd_wr_list[k]
-----------------------------------------------------------------------------
(* The ring arithmetic. *)

\* The pointer, the entry and the lazy wrap of a count.
LEMMA RingFacts ==
    ASSUME ConstantsOK, NEW n \in Nat
    PROVE  /\ n % sq_max_wr \in Slots
           /\ RingPtr(n) \in 0 .. sq_max_wr
           /\ (n % sq_max_wr) + 1 = RingPtr(n + 1)
           /\ WrapLocal((n % sq_max_wr) + 1) = (n + 1) % sq_max_wr
           /\ WrapLocal(RingPtr(n)) = n % sq_max_wr
<1>0. PICK N \in Nat \ {0} : N = sq_max_wr
  BY DEF ConstantsOK
<1>1. PICK r \in 0 .. N - 1 : r = n % N
  BY DivMod
<1>2. RingPtr(n + 1) = r + 1
  <2>1. n + 1 # 0 /\ (n + 1) - 1 = n
    OBVIOUS
  <2> QED
    BY <1>0, <1>1, <2>1 DEF RingPtr
<1>3. (r + 1) % N = (n + 1) % N
  BY <1>1, ModInc
<1>4. (r + 1) % N = IF r + 1 = N THEN 0 ELSE r + 1
  <2>1. PICK x \in 0 .. N : x = r + 1
    OBVIOUS
  <2>2. x % N = IF x = N THEN 0 ELSE x
    BY RingMod
  <2> QED
    BY <2>1, <2>2
<1>5. WrapLocal(r + 1) = (n + 1) % N
  BY <1>0, <1>3, <1>4 DEF WrapLocal
<1>6. RingPtr(n) \in 0 .. N /\ WrapLocal(RingPtr(n)) = r
  <2>1. CASE n = 0
    <3>1. r = 0
      BY <1>1, <2>1
    <3> QED
      BY <1>0, <2>1, <3>1 DEF RingPtr, WrapLocal
  <2>2. CASE n # 0
    <3>1. PICK m \in Nat : n = m + 1
      <4>1. n - 1 \in Nat /\ n = (n - 1) + 1
        BY <2>2
      <4> QED
        BY <4>1
    <3>2. PICK q \in 0 .. N - 1 : q = m % N
      BY DivMod
    <3>3. RingPtr(n) = q + 1
      <4>1. n # 0 /\ n - 1 = m
        BY <3>1
      <4> QED
        BY <1>0, <3>2, <4>1 DEF RingPtr
    <3>4. (q + 1) % N = r
      BY <1>1, <3>1, <3>2, ModInc
    <3>5. (q + 1) % N = IF q + 1 = N THEN 0 ELSE q + 1
      <4>1. PICK x \in 0 .. N : x = q + 1
        OBVIOUS
      <4>2. x % N = IF x = N THEN 0 ELSE x
        BY RingMod
      <4> QED
        BY <4>1, <4>2
    <3> QED
      BY <1>0, <3>3, <3>4, <3>5 DEF WrapLocal
  <2> QED
    BY <2>1, <2>2
<1> QED
  BY <1>0, <1>1, <1>2, <1>5, <1>6 DEF Slots

\* Counts less than a turn apart have different pointers and entries.
LEMMA RingApart ==
    ASSUME ConstantsOK, NEW a \in Nat, NEW b \in Nat, a < b, b - a < sq_max_wr
    PROVE  /\ RingPtr(a) # RingPtr(b)
           /\ a % sq_max_wr # b % sq_max_wr
<1>0. PICK N \in Nat \ {0} : N = sq_max_wr
  BY DEF ConstantsOK
<1>1. a % N # b % N
  <2>1. a # b /\ b - a < N /\ a - b < N
    BY <1>0
  <2> QED
    BY <2>1, ModDistinct
<1>2. RingPtr(a) # RingPtr(b)
  <2>0. PICK c \in Nat : b = c + 1
    <3>1. b - 1 \in Nat /\ b = (b - 1) + 1
      OBVIOUS
    <3> QED
      BY <3>1
  <2>1. PICK q \in 0 .. N - 1 : q = c % N /\ RingPtr(b) = q + 1
    <3>1. c % N \in 0 .. N - 1 /\ b # 0 /\ b - 1 = c
      BY <2>0, DivMod
    <3> QED
      BY <1>0, <3>1 DEF RingPtr
  <2>2. CASE a = 0
    BY <2>1, <2>2 DEF RingPtr
  <2>3. CASE a # 0
    <3>1. PICK d \in Nat : a = d + 1
      <4>1. a - 1 \in Nat /\ a = (a - 1) + 1
        BY <2>3
      <4> QED
        BY <4>1
    <3>2. PICK p \in 0 .. N - 1 : p = d % N /\ RingPtr(a) = p + 1
      <4>1. d % N \in 0 .. N - 1 /\ a # 0 /\ a - 1 = d
        BY <3>1, DivMod
      <4> QED
        BY <1>0, <4>1 DEF RingPtr
    <3>3. d # c /\ c - d < N /\ d - c < N
      BY <1>0, <2>0, <3>1
    <3>4. p # q
      BY <2>1, <3>2, <3>3, ModDistinct
    <3> QED
      BY <2>1, <3>2, <3>4
  <2> QED
    BY <2>2, <2>3
<1> QED
  BY <1>0, <1>1, <1>2
-----------------------------------------------------------------------------
(* Types of the two calls. *)

PostType ==
    [pc : {"idle", "wr", "bell", "sqd", "stuck"}, left : Nat, req : Request]
PollType ==
    [pc : {"idle", "reap", "flush"}, head : 0 .. sq_max_wr, i : Nat, n : Nat]

\* A call in front of its next request.
LEMMA PostTypes ==
    /\ NoReq \in Request
    /\ IdlePost \in PostType /\ IdlePost.pc = "idle"
    /\ [IdlePost EXCEPT !.pc = "stuck"] \in PostType
    /\ [IdlePost EXCEPT !.pc = "stuck"].pc = "stuck"
    /\ \A p \in {"idle", "wr", "bell", "sqd", "stuck"} : \A n \in Nat :
           LET q == [pc |-> p, left |-> n, req |-> NoReq]
           IN  q \in PostType /\ q.pc = p /\ q.left = n
<1>1. NoReq \in Request
  BY DEF NoReq, Request
<1>2. IdlePost \in PostType /\ IdlePost.pc = "idle"
  BY <1>1 DEF IdlePost, PostType
<1>3. /\ [IdlePost EXCEPT !.pc = "stuck"] \in PostType
      /\ [IdlePost EXCEPT !.pc = "stuck"].pc = "stuck"
  BY <1>2 DEF PostType
<1>4. ASSUME NEW p \in {"idle", "wr", "bell", "sqd", "stuck"}, NEW n \in Nat
      PROVE  LET q == [pc |-> p, left |-> n, req |-> NoReq]
             IN  q \in PostType /\ q.pc = p /\ q.left = n
  BY <1>1 DEF PostType
<1> QED
  BY <1>1, <1>2, <1>3, <1>4

\* A step that leaves the ring, the hardware and the reports alone.
LEMMA RingKept ==
    ASSUME RingInv, UNCHANGED <<ringVars, hwVars, reapVars, sent>>, TypeOK', CountInv',
           offered <= offered', post'.pc = "bell" => post' = post,
           poll'.pc = "reap" => \E h \in reaped .. Len(executed) : poll'.head = RingPtr(h)
    PROVE  RingInv'
<1>0. /\ sq_cmpl_db_local' = sq_cmpl_db_local /\ wr_id_array' = wr_id_array /\ wqe' = wqe
      /\ SQ_PROD_IDX' = SQ_PROD_IDX /\ cqe' = cqe /\ CQ_HEAD_PTR' = CQ_HEAD_PTR
      /\ executed' = executed /\ send_cq_db_local' = send_cq_db_local
      /\ send_wcs' = send_wcs /\ reaped' = reaped /\ sent' = sent
  BY DEF ringVars, hwVars, reapVars
<1>1. CursorInv'
  BY <1>0 DEF RingInv, CursorInv, RingPtr
<1>2. NameInv'
  <2>1. offered \in Nat /\ offered' \in Nat /\ sent \in Seq(Request)
    BY DEF RingInv, TypeOK
  <2>2. \A k \in 1 .. Len(sent) : sent[k].wr_id \in Int
    <3>1. \A k \in 1 .. Len(sent) : sent[k] \in Request
      BY <2>1
    <3> QED
      BY <3>1 DEF Request
  <2>3. \A k \in 1 .. Len(sent) : sent[k].wr_id < offered'
    BY <2>1, <2>2 DEF RingInv, NameInv
  <2>4. post'.pc = "bell" => /\ post'.req.wr_id < offered'
                             /\ \A k \in 1 .. Len(sent) : sent[k].wr_id < post'.req.wr_id
    <3> SUFFICES ASSUME post'.pc = "bell"
                 PROVE  /\ post'.req.wr_id < offered'
                        /\ \A k \in 1 .. Len(sent) : sent[k].wr_id < post'.req.wr_id
      OBVIOUS
    <3>1. post' = post /\ post.pc = "bell" /\ post.req.wr_id \in Int
      BY DEF RingInv, TypeOK, Request
    <3> QED
      BY <2>1, <3>1 DEF RingInv, NameInv
  <2> QED
    BY <1>0, <2>3, <2>4 DEF RingInv, NameInv
<1>3. EntryInv' /\ CqeInv' /\ ExecutedInOrder' /\ ReportInv'
  <2>1. post'.pc = "bell" => post.pc = "bell" /\ post'.req = post.req
    OBVIOUS
  <2>2. EntryInv'
    BY <1>0, <2>1 DEF RingInv, EntryInv, EntryHolds
  <2>3. CqeInv' /\ ExecutedInOrder' /\ ReportInv'
    BY <1>0 DEF RingInv, CqeInv, ExecutedInOrder, ReportInv
  <2> QED
    BY <2>2, <2>3
<1> QED
  BY <1>1, <1>2, <1>3 DEF RingInv

\* The queue starts empty.
LEMMA SendInit == ASSUME ConstantsOK, Init PROVE RingInv /\ BufferInv /\ SqdInv
<1>0. /\ sent = << >> /\ executed = << >> /\ send_wcs = << >> /\ Len(sent) = 0
      /\ Len(executed) = 0 /\ Len(send_wcs) = 0 /\ reaped = 0 /\ post = IdlePost
      /\ poll = IdlePoll /\ offered = 0 /\ post.pc = "idle" /\ poll.pc = "idle"
      /\ RingPtr(0) = 0 /\ 0 % sq_max_wr = 0 /\ 0 \in Slots
      /\ sq_max_wr \in Nat \ {0} /\ SendCredit \in Nat
  BY DEF Init, IdlePost, IdlePoll, RingPtr, ConstantsOK, Slots
<1>1. TypeOK
  <2>1. post \in PostType
    BY <1>0, PostTypes
  <2>2. poll \in PollType
    BY <1>0 DEF IdlePoll, PollType
  <2>3. wr_id_array \in [Slots -> [wr_id : Int, signaled : BOOLEAN]]
    <3>1. [wr_id |-> 0, signaled |-> FALSE] \in [wr_id : Int, signaled : BOOLEAN]
      OBVIOUS
    <3> QED
      BY <3>1 DEF Init
  <2>4. wqe \in [Slots -> [wr_id : Int, opcode : Int]] /\ pl_buf_list \in [Slots -> Int]
    BY DEF Init, NoBuf
  <2>5. cqe \in [Slots -> [opcode : Int, err : BOOLEAN]]
    <3>1. [opcode |-> 0, err |-> FALSE] \in [opcode : Int, err : BOOLEAN]
      OBVIOUS
    <3> QED
      BY <3>1 DEF Init
  <2>6. /\ sqd_wr_list \in Seq(Int) /\ flush_wcs \in Seq(Int) /\ sent \in Seq(Request)
        /\ send_wcs \in Seq([wr_id : Int, err : BOOLEAN])
        /\ executed \in Seq([wr_id : Int, opcode : Int, err : BOOLEAN])
    BY DEF Init
  <2>7. /\ state \in {"RTS", "SQD", "ERR"}
        /\ sq_cmpl_db_local \in Slots /\ send_cq_db_local \in 0 .. sq_max_wr
        /\ sqd_length \in Nat /\ post_send_count \in Nat /\ sq_polled_count \in Nat
        /\ SQ_PROD_IDX \in 0 .. sq_max_wr /\ CQ_HEAD_PTR \in 0 .. sq_max_wr
        /\ bufs \in SUBSET Int /\ offered \in Nat /\ reaped \in Nat
        /\ accepted_sqd \in SUBSET Int
    BY <1>0 DEF Init
  <2>8. sq_drained \in BOOLEAN /\ bad_free \in BOOLEAN
    BY DEF Init
  <2> QED
    BY <2>1, <2>2, <2>3, <2>4, <2>5, <2>6, <2>7, <2>8 DEF TypeOK, PostType, PollType
<1>2. CountInv /\ CursorInv /\ NameInv
  BY <1>0 DEF Init, CountInv, CursorInv, NameInv
<1>3. EntryInv /\ CqeInv /\ ExecutedInOrder /\ ReportInv
  BY <1>0 DEF EntryInv, CqeInv, ExecutedInOrder, ReportInv
<1>4. BufferInv
  BY <1>0 DEF Init, BufferInv, NoBadFree
<1>5. SqdInv
  BY <1>0 DEF Init, SqdInv
<1> QED
  BY <1>1, <1>2, <1>3, <1>4, <1>5 DEF RingInv
-----------------------------------------------------------------------------
(* The list of state SQD. *)

\* A call of state SQD links requests that are newer than those on the list,
\* and no more than there is room for.
LEMMA Links ==
    ASSUME ConstantsOK, TypeOK, SqdInv, post.left > 0,
           NEW n \in 0 .. SqdRoom(post.left), LinkSqd(n), flush_wcs' = flush_wcs
    PROVE  /\ SqdInv'
           /\ sqd_wr_list' \in Seq(Int) /\ sqd_length' \in Nat
           /\ offered' \in Nat /\ offered <= offered'
<1>0. /\ sqd_wr_list \in Seq(Int) /\ flush_wcs \in Seq(Int) /\ sqd_length \in Nat
      /\ offered \in Nat /\ post.left \in Nat /\ sq_max_wr \in Nat
      /\ sqd_length = Len(sqd_wr_list) /\ sqd_length <= sq_max_wr
  BY DEF ConstantsOK, TypeOK, SqdInv
<1>1. n \in Nat /\ n <= post.left /\ sqd_length + n <= sq_max_wr
  BY <1>0 DEF SqdRoom
<1>2. PICK m \in Nat : m = Len(sqd_wr_list)
  BY <1>0
<1>3. PICK t : t = [j \in 1 .. n |-> offered + j - 1]
  OBVIOUS
<1>4. t \in Seq(Int) /\ Len(t) = n /\ \A j \in 1 .. n : t[j] = (offered + j) - 1
  BY <1>0, <1>1, <1>3
<1>5. sqd_wr_list' = sqd_wr_list \o t /\ sqd_length' = sqd_length + n
      /\ offered' = offered + post.left
  BY <1>3 DEF LinkSqd
<1>6. /\ sqd_wr_list' \in Seq(Int) /\ Len(sqd_wr_list') = m + n
      /\ \A j \in 1 .. m : sqd_wr_list'[j] = sqd_wr_list[j] /\ sqd_wr_list[j] \in Int
      /\ \A j \in m + 1 .. m + n : sqd_wr_list'[j] = t[j - m]
  <2>1. /\ sqd_wr_list \o t \in Seq(Int) /\ Len(sqd_wr_list \o t) = m + n
        /\ \A j \in 1 .. m + n : (sqd_wr_list \o t)[j] =
               IF j <= m THEN sqd_wr_list[j] ELSE t[j - m]
    BY <1>0, <1>2, <1>4, ConcatProperties
  <2>2. \A j \in 1 .. m : sqd_wr_list[j] \in Int /\ j \in 1 .. m + n /\ j <= m
    BY <1>0, <1>1, <1>2
  <2>3. \A j \in m + 1 .. m + n : j \in 1 .. m + n /\ ~(j <= m)
    BY <1>1, <1>2
  <2> QED
    BY <1>5, <2>1, <2>2, <2>3
<1>7. ASSUME NEW j \in m + 1 .. m + n PROVE sqd_wr_list'[j] = (offered + (j - m)) - 1
  <2>1. j - m \in 1 .. n
    BY <1>1, <1>2
  <2> QED
    BY <1>4, <1>6, <2>1
<1>8. ASSUME NEW k \in 1 .. m + n PROVE k \in 1 .. m \/ k \in m + 1 .. m + n
  BY <1>1, <1>2
<1>9. ASSUME NEW k \in 1 .. m PROVE sqd_wr_list[k] < offered
  BY <1>2 DEF SqdInv
<1>10. ASSUME NEW k \in 1 .. m + n PROVE sqd_wr_list'[k] < offered'
  <2>1. CASE k \in 1 .. m
    <3>1. sqd_wr_list'[k] = sqd_wr_list[k] /\ sqd_wr_list[k] \in Int
          /\ sqd_wr_list[k] < offered
      BY <1>6, <1>9, <2>1
    <3> QED
      BY <1>0, <1>5, <3>1, SMTT(20)
  <2>2. CASE k \in m + 1 .. m + n
    <3>1. sqd_wr_list'[k] = (offered + (k - m)) - 1
      BY <1>7, <2>2
    <3> QED
      BY <1>0, <1>1, <1>2, <1>5, <2>2, <3>1
  <2> QED
    BY <1>8, <2>1, <2>2
<1>11. ASSUME NEW k \in 1 .. Len(flush_wcs) PROVE flush_wcs[k] < offered /\ flush_wcs[k] < offered'
  <2>1. flush_wcs[k] < offered /\ flush_wcs[k] \in Int
    BY <1>0 DEF SqdInv
  <2> QED
    BY <1>0, <1>5, <2>1, SMTT(20)
<1>12. ASSUME NEW j \in 1 .. m + n, NEW k \in 1 .. m + n, j < k
       PROVE  sqd_wr_list'[j] < sqd_wr_list'[k]
  <2>1. CASE k \in 1 .. m
    <3>1. j \in 1 .. m
      BY <1>1, <1>12, <2>1
    <3> QED
      BY <1>2, <1>6, <1>12, <2>1, <3>1 DEF SqdInv
  <2>2. CASE j \in 1 .. m /\ k \in m + 1 .. m + n
    <3>1. sqd_wr_list'[j] = sqd_wr_list[j] /\ sqd_wr_list[j] \in Int
          /\ sqd_wr_list[j] < offered
      BY <1>6, <1>9, <2>2
    <3>2. sqd_wr_list'[k] = (offered + (k - m)) - 1
      BY <1>7, <2>2
    <3> QED
      BY <1>0, <1>2, <2>2, <3>1, <3>2
  <2>3. CASE j \in m + 1 .. m + n /\ k \in m + 1 .. m + n
    BY <1>0, <1>2, <1>7, <1>12, <2>3
  <2> QED
    BY <1>8, <2>1, <2>2, <2>3
<1>13. ASSUME NEW j \in 1 .. Len(flush_wcs), NEW k \in 1 .. m + n
       PROVE  flush_wcs[j] < sqd_wr_list'[k]
  <2>1. CASE k \in 1 .. m
    BY <1>2, <1>6, <2>1 DEF SqdInv
  <2>2. CASE k \in m + 1 .. m + n
    <3>1. flush_wcs[j] < offered /\ flush_wcs[j] \in Int
      BY <1>0, <1>11
    <3> QED
      BY <1>0, <1>2, <1>7, <2>2, <3>1
  <2> QED
    BY <1>8, <2>1, <2>2
<1>14. SqdInv'
  <2>1. sqd_length' = m + n /\ sqd_length' <= sq_max_wr
    BY <1>0, <1>1, <1>2, <1>5
  <2> QED
    BY <1>6, <1>10, <1>11, <1>12, <1>13, <2>1 DEF SqdInv
<1> QED
  BY <1>0, <1>1, <1>5, <1>6, <1>14, SMTT(20)

\* The poll takes the oldest request off the list.
LEMMA Flushes ==
    ASSUME ConstantsOK, TypeOK, SqdInv, Flush
    PROVE  /\ SqdInv'
           /\ sqd_wr_list' \in Seq(Int) /\ flush_wcs' \in Seq(Int) /\ sqd_length' \in Nat
<1>0. /\ sqd_wr_list \in Seq(Int) /\ flush_wcs \in Seq(Int) /\ sqd_length \in Nat
      /\ offered \in Nat /\ sqd_length = Len(sqd_wr_list) /\ sqd_wr_list # << >>
  BY SMTT(20) DEF TypeOK, SqdInv, Flush
<1>1. PICK m \in Nat : m + 1 = Len(sqd_wr_list)
  <2>1. Len(sqd_wr_list) \in Nat /\ Len(sqd_wr_list) # 0
    BY <1>0
  <2>2. Len(sqd_wr_list) - 1 \in Nat /\ (Len(sqd_wr_list) - 1) + 1 = Len(sqd_wr_list)
    BY <2>1
  <2> QED
    BY <2>2
<1>2. PICK f \in Nat : f = Len(flush_wcs)
  BY <1>0
<1>3. /\ sqd_wr_list' \in Seq(Int) /\ Len(sqd_wr_list') = m
      /\ \A j \in 1 .. m : sqd_wr_list'[j] = sqd_wr_list[j + 1]
  BY <1>0, <1>1 DEF Flush
<1>4. PICK h \in Int : h = Head(sqd_wr_list) /\ h = sqd_wr_list[1]
  BY <1>0
<1>5. /\ flush_wcs' \in Seq(Int) /\ Len(flush_wcs') = f + 1 /\ flush_wcs'[f + 1] = h
      /\ \A j \in 1 .. f : flush_wcs'[j] = flush_wcs[j]
  BY <1>0, <1>2, <1>4 DEF Flush
<1>6. offered' = offered /\ sqd_length' = m
  BY <1>0, <1>1 DEF Flush, FlushedLength
<1>7. 1 \in 1 .. Len(sqd_wr_list)
      /\ \A j \in 1 .. m : j + 1 \in 1 .. Len(sqd_wr_list) /\ 1 < j + 1
  BY <1>1
<1>8. \A k \in 1 .. f + 1 : k \in 1 .. f \/ k = f + 1
  OBVIOUS
<1>9. ASSUME NEW k \in 1 .. f + 1 PROVE flush_wcs'[k] < offered
  BY <1>2, <1>4, <1>5, <1>7, <1>8 DEF SqdInv
<1>10. ASSUME NEW k \in 1 .. m PROVE sqd_wr_list'[k] < offered
  BY <1>3, <1>7 DEF SqdInv
<1>11. ASSUME NEW j \in 1 .. f + 1, NEW k \in 1 .. f + 1, j < k
       PROVE  flush_wcs'[j] < flush_wcs'[k]
  <2>0. j \in 1 .. f
    BY <1>11
  <2>1. CASE k = f + 1
    BY <1>2, <1>4, <1>5, <1>7, <2>0, <2>1 DEF SqdInv
  <2>2. CASE k \in 1 .. f
    BY <1>2, <1>5, <1>11, <2>0, <2>2 DEF SqdInv
  <2> QED
    BY <1>8, <2>1, <2>2
<1>12. ASSUME NEW j \in 1 .. m, NEW k \in 1 .. m, j < k
       PROVE  sqd_wr_list'[j] < sqd_wr_list'[k]
  <2>1. j + 1 < k + 1
    BY <1>12
  <2> QED
    BY <1>3, <1>7, <2>1 DEF SqdInv
<1>13. ASSUME NEW j \in 1 .. f + 1, NEW k \in 1 .. m
       PROVE  flush_wcs'[j] < sqd_wr_list'[k]
  <2>1. CASE j = f + 1
    BY <1>3, <1>4, <1>5, <1>7, <2>1 DEF SqdInv
  <2>2. CASE j \in 1 .. f
    BY <1>2, <1>3, <1>5, <1>7, <2>2 DEF SqdInv
  <2> QED
    BY <1>8, <2>1, <2>2
<1>14. sqd_length' <= sq_max_wr
  BY <1>0, <1>1, <1>6 DEF SqdInv, ConstantsOK
<1>15. SqdInv'
  BY <1>3, <1>5, <1>6, <1>9, <1>10, <1>11, <1>12, <1>13, <1>14 DEF SqdInv
<1> QED
  BY <1>3, <1>5, <1>6, <1>15

\* A step that links and flushes nothing.
LEMMA SqdKept ==
    ASSUME TypeOK, SqdInv, UNCHANGED <<sqd_wr_list, sqd_length, flush_wcs>>,
           offered' \in Nat, offered <= offered'
    PROVE  SqdInv'
<1>0. /\ sqd_wr_list \in Seq(Int) /\ flush_wcs \in Seq(Int) /\ offered \in Nat
  BY DEF TypeOK
<1>1. ASSUME NEW k \in 1 .. Len(flush_wcs) PROVE flush_wcs[k] < offered'
  <2>1. flush_wcs[k] < offered /\ flush_wcs[k] \in Int
    BY <1>0 DEF SqdInv
  <2> QED
    BY <1>0, <2>1
<1>2. ASSUME NEW k \in 1 .. Len(sqd_wr_list) PROVE sqd_wr_list[k] < offered'
  <2>1. sqd_wr_list[k] < offered /\ sqd_wr_list[k] \in Int
    BY <1>0 DEF SqdInv
  <2> QED
    BY <1>0, <2>1
<1> QED
  BY <1>1, <1>2 DEF SqdInv
-----------------------------------------------------------------------------
(* The steps that leave the ring alone. *)

\* The state word of the QP.
LEMMA ModifyStep ==
    ASSUME ConstantsOK, RingInv, SqdInv, NEW new \in QpStates, xrnic_qp_modify(new)
    PROVE  RingInv' /\ SqdInv'
<1>0. /\ UNCHANGED <<ringVars, hwVars, sqdVars, reapVars, post_send_count, post, poll,
                     bufs, offered, sent>>
      /\ state' \in {"RTS", "SQD", "ERR"} /\ TypeOK
  BY DEF xrnic_qp_modify, ConstantsOK, RingInv
<1>1. TypeOK'
  BY <1>0 DEF TypeOK, ringVars, hwVars, sqdVars, reapVars
<1>2. CountInv'
  BY <1>0 DEF RingInv, CountInv, hwVars, reapVars
<1>3. offered <= offered' /\ offered' \in Nat
  BY <1>0 DEF TypeOK
<1>4. poll'.pc = "reap" => \E h \in reaped .. Len(executed) : poll'.head = RingPtr(h)
  BY <1>0 DEF RingInv, CursorInv
<1> QED
  BY <1>0, <1>1, <1>2, <1>3, <1>4, RingKept, SqdKept DEF sqdVars

\* A call of post_send begins while there is credit for its chain.
LEMMA PostBeginStep ==
    ASSUME ConstantsOK, RingInv, SqdInv, NEW n \in 1 .. MaxChain, PostBegin(n)
    PROVE  RingInv' /\ SqdInv'
<1>0. /\ UNCHANGED <<state, ringVars, hwVars, sqdVars, reapVars, poll, bufs, offered, sent>>
      /\ TypeOK /\ n \in Nat /\ n > 0
  BY DEF PostBegin, ConstantsOK, RingInv
<1>1. PICK p \in {"sqd", "wr"} : /\ p = "wr" => Len(sent) - reaped + n <= SendCredit
                                 /\ post' = [pc |-> p, left |-> n, req |-> NoReq]
  BY DEF PostBegin
<1>2. post' \in PostType /\ post'.pc = p /\ post'.left = n
  BY <1>0, <1>1, PostTypes
<1>3. TypeOK'
  <2>1. post_send_count' \in Nat
    BY <1>0 DEF PostBegin, TypeOK
  <2> QED
    BY <1>0, <1>2, <2>1 DEF TypeOK, PostType, ringVars, hwVars, sqdVars, reapVars
<1>4. CountInv'
  <2>1. Len(sent) \in Nat /\ reaped \in Nat /\ SendCredit \in Nat
    BY <1>0 DEF TypeOK, ConstantsOK
  <2>2. p = "wr" => Len(sent) + n <= reaped + SendCredit
    BY <1>0, <1>1, <2>1
  <2> QED
    BY <1>0, <1>2, <2>2 DEF RingInv, CountInv, hwVars, reapVars
<1>5. offered <= offered' /\ offered' \in Nat
  BY <1>0 DEF TypeOK
<1>6. poll'.pc = "reap" => \E h \in reaped .. Len(executed) : poll'.head = RingPtr(h)
  BY <1>0 DEF RingInv, CursorInv
<1>7. post'.pc = "bell" => post' = post
  BY <1>2
<1> QED
  BY <1>0, <1>3, <1>4, <1>5, <1>6, <1>7, RingKept, SqdKept DEF sqdVars

\* A call of state SQD links its chain, or part of it when a node cannot be
\* allocated.
LEMMA PostSqdStep ==
    ASSUME ConstantsOK, RingInv, SqdInv, PostSqd \/ PostSqdFails
    PROVE  RingInv' /\ SqdInv'
<1>0. /\ UNCHANGED <<state, ringVars, hwVars, reapVars, flush_wcs, post_send_count, poll,
                     bufs, sent>>
      /\ TypeOK /\ post.left \in Nat /\ post.left > 0 /\ offered \in Nat
      /\ sqd_length \in Nat /\ sq_max_wr \in Nat /\ sqd_length <= sq_max_wr
  BY DEF PostSqd, PostSqdFails, RingInv, CountInv, TypeOK, ConstantsOK, SqdInv
<1>1. PICK n \in 0 .. SqdRoom(post.left) : LinkSqd(n)
  <2>1. SqdRoom(post.left) \in Nat
    BY <1>0 DEF SqdRoom
  <2>2. CASE PostSqd
    BY <2>1, <2>2 DEF PostSqd
  <2>3. CASE PostSqdFails
    BY <2>1, <2>3 DEF PostSqdFails
  <2> QED
    BY <2>2, <2>3
<1>2. /\ SqdInv' /\ sqd_wr_list' \in Seq(Int) /\ sqd_length' \in Nat
      /\ offered' \in Nat /\ offered <= offered'
  BY <1>0, <1>1, Links
<1>3. accepted_sqd' \in SUBSET Int
  <2>1. CASE PostSqd
    <3>1. offered .. offered + post.left - 1 \subseteq Int
      BY <1>0
    <3> QED
      BY <1>0, <2>1, <3>1 DEF PostSqd, TypeOK
  <2>2. CASE PostSqdFails
    BY <1>0, <2>2 DEF PostSqdFails, TypeOK
  <2> QED
    BY <2>1, <2>2
<1>4. post' \in PostType /\ post'.pc \in {"idle", "stuck"}
  BY PostTypes DEF PostSqd, PostSqdFails
<1>5. TypeOK'
  BY <1>0, <1>2, <1>3, <1>4 DEF TypeOK, PostType, ringVars, hwVars, reapVars
<1>6. CountInv'
  BY <1>0, <1>4 DEF RingInv, CountInv, hwVars, reapVars
<1>7. poll'.pc = "reap" => \E h \in reaped .. Len(executed) : poll'.head = RingPtr(h)
  BY <1>0 DEF RingInv, CursorInv
<1>8. post'.pc = "bell" => post' = post
  BY <1>4
<1> QED
  BY <1>0, <1>2, <1>5, <1>6, <1>7, <1>8, RingKept

\* A step that changes the poll, and the SQD list, only.
LEMMA PollOnlyStep ==
    ASSUME ConstantsOK, RingInv, poll' \in PollType,
           UNCHANGED <<state, ringVars, hwVars, reapVars, accepted_sqd, post_send_count, post,
                       bufs, offered, sent>>,
           sqd_wr_list' \in Seq(Int), flush_wcs' \in Seq(Int), sqd_length' \in Nat,
           poll'.pc = "reap" => \E h \in reaped .. Len(executed) : poll'.head = RingPtr(h)
    PROVE  RingInv'
<1>1. TypeOK'
  BY DEF RingInv, TypeOK, PollType, ringVars, hwVars, reapVars
<1>2. CountInv'
  BY DEF RingInv, CountInv, hwVars, reapVars
<1>3. offered <= offered'
  BY DEF RingInv, TypeOK
<1> QED
  BY <1>1, <1>2, <1>3, RingKept

\* The poll reads how far the hardware is.
LEMMA PollBeginStep ==
    ASSUME ConstantsOK, RingInv, SqdInv, NEW n \in 1 .. MaxEntries, PollBegin(n)
    PROVE  RingInv' /\ SqdInv'
<1>0. /\ UNCHANGED <<state, ringVars, hwVars, sqdVars, reapVars, post_send_count, post, bufs,
                     offered, sent>>
      /\ TypeOK /\ n \in Nat
  BY DEF PollBegin, ConstantsOK, RingInv
<1>1. poll' = [pc |-> "reap", head |-> CQ_HEAD_PTR, i |-> 0, n |-> n]
  BY DEF PollBegin, cur_send_cq_head
<1>2. poll' \in PollType /\ poll'.head = CQ_HEAD_PTR
  BY <1>0, <1>1 DEF TypeOK, PollType
<1>3. \E h \in reaped .. Len(executed) : poll'.head = RingPtr(h)
  <2>1. Len(executed) \in reaped .. Len(executed)
    <3>1. Len(executed) \in Nat /\ reaped \in Nat /\ reaped <= Len(executed)
      BY <1>0 DEF RingInv, CountInv, TypeOK
    <3> QED
      BY <3>1
  <2>2. poll'.head = RingPtr(Len(executed))
    BY <1>2 DEF RingInv, CursorInv
  <2> QED
    BY <2>1, <2>2
<1>4. sqd_wr_list' \in Seq(Int) /\ flush_wcs' \in Seq(Int) /\ sqd_length' \in Nat
      /\ offered' \in Nat /\ offered <= offered'
  BY <1>0 DEF TypeOK, sqdVars
<1> QED
  BY <1>0, <1>2, <1>3, <1>4, PollOnlyStep, SqdKept DEF sqdVars

\* The poll goes on to the SQD list, flushes it and ends.
LEMMA PollRestStep ==
    ASSUME ConstantsOK, RingInv, SqdInv, ReapDone \/ Flush \/ FlushDone
    PROVE  RingInv' /\ SqdInv'
<1>0. /\ UNCHANGED <<state, ringVars, hwVars, reapVars, accepted_sqd, post_send_count, post,
                     bufs, offered, sent>>
      /\ TypeOK /\ poll \in PollType /\ sq_max_wr \in Nat \ {0}
  BY DEF ReapDone, Flush, FlushDone, ConstantsOK, RingInv, TypeOK, PollType, sqdVars
<1>1. poll' \in PollType /\ poll'.pc # "reap"
  <2>1. CASE ReapDone
    BY <1>0, <2>1 DEF ReapDone, PollType
  <2>2. CASE Flush
    <3>1. poll' = [poll EXCEPT !.i = poll.i + 1] /\ poll.pc = "flush" /\ poll.i + 1 \in Nat
      BY <1>0, <2>2 DEF Flush, PollType
    <3> QED
      BY <1>0, <3>1 DEF PollType
  <2>3. CASE FlushDone
    BY <1>0, <2>3 DEF FlushDone, PollType, IdlePoll
  <2> QED
    BY <2>1, <2>2, <2>3
<1>2. SqdInv' /\ sqd_wr_list' \in Seq(Int) /\ flush_wcs' \in Seq(Int) /\ sqd_length' \in Nat
  <2>1. CASE ReapDone \/ FlushDone
    <3>1. UNCHANGED <<sqd_wr_list, sqd_length, flush_wcs>> /\ offered' \in Nat
          /\ offered <= offered'
      BY <1>0, <2>1, SMTT(20) DEF ReapDone, FlushDone, sqdVars, TypeOK
    <3> QED
      BY <1>0, <3>1, SqdKept DEF TypeOK
  <2>2. CASE Flush
    BY <1>0, <2>2, Flushes
  <2> QED
    BY <2>1, <2>2
<1> QED
  BY <1>0, <1>1, <1>2, PollOnlyStep
-----------------------------------------------------------------------------
(* The steps of the ring. *)

\* Storing in the entry after the requests in flight touches none of theirs.
LEMMA EntryFree ==
    ASSUME ConstantsOK, Credit, RingInv, post.pc \in {"wr", "bell"}
    PROVE  /\ sq_cmpl_db_local \in Slots
           /\ \A k \in reaped + 1 .. Len(sent) : /\ (k - 1) % sq_max_wr \in Slots
                                                 /\ (k - 1) % sq_max_wr # sq_cmpl_db_local
<1>0. /\ reaped \in Nat /\ Len(sent) \in Nat /\ post.left \in Nat /\ SendCredit \in Nat
      /\ sq_max_wr \in Nat \ {0} /\ SendCredit < sq_max_wr
      /\ Len(sent) + post.left <= reaped + SendCredit /\ post.left > 0
      /\ sq_cmpl_db_local = Len(sent) % sq_max_wr /\ sq_cmpl_db_local \in Slots
  <2>1. /\ reaped \in Nat /\ sent \in Seq(Request) /\ post \in PostType
        /\ sq_cmpl_db_local \in Slots
    BY DEF RingInv, TypeOK, PostType
  <2>2. Len(sent) \in Nat /\ post.left \in Nat
    BY <2>1 DEF PostType
  <2> QED
    BY <2>1, <2>2 DEF ConstantsOK, Credit, RingInv, CountInv, CursorInv
<1>1. ASSUME NEW k \in reaped + 1 .. Len(sent)
      PROVE  (k - 1) % sq_max_wr \in Slots /\ (k - 1) % sq_max_wr # sq_cmpl_db_local
  <2>1. k - 1 \in Nat /\ k - 1 < Len(sent) /\ Len(sent) - (k - 1) < sq_max_wr
    BY <1>0
  <2> QED
    BY <1>0, <2>1, RingFacts, RingApart
<1> QED
  BY <1>0, <1>1

\* The value -1, stored in a u8.
LEMMA MinusOneAsByte == ASSUME NEW m \in Int, m + 1 = 0 PROVE m % 256 = 255
<1>1. PICK q \in Int, r \in 0 .. 255 : r = m % 256 /\ m = (256 * q) + r
  <2>1. PICK N \in Nat \ {0} : N = 256
    OBVIOUS
  <2>2. m % N \in 0 .. N - 1 /\ m \div N \in Int /\ m = (N * (m \div N)) + (m % N)
    OBVIOUS
  <2>3. PICK q \in Int, r \in 0 .. N - 1 : r = m % N /\ m = (N * q) + r
    BY <2>2
  <2> QED
    BY <2>1, <2>3
<1>2. r = 255
  BY <1>1
<1> QED
  BY <1>1, <1>2

\* The codes of the operations, as the u8 of the element holds them: an
\* unsupported operation becomes 255 and passes the check for a negative code.
LEMMA OpcodeValues ==
    ASSUME NEW op \in IbOpcodes
    PROVE  /\ WqeOpcode(op) \in Nat
           /\ WqeOpcode(op) = XRNIC_SEND_ONLY <=> op = "IB_WR_SEND"
           /\ WqeOpcode(op) = XRNIC_RDMA_READ <=> op = "IB_WR_RDMA_READ"
           /\ WqeOpcode(op) = XRNIC_RDMA_WRITE <=> op = "IB_WR_RDMA_WRITE"
<1>0. 2 % 256 = 2 /\ 4 % 256 = 4 /\ 0 % 256 = 0 /\ (-1) % 256 = 255
  <2>1. 2 % 256 = 2 /\ 4 % 256 = 4 /\ 0 % 256 = 0
    OBVIOUS
  <2>2. -1 \in Int /\ (-1) + 1 = 0
    OBVIOUS
  <2> QED
    BY <2>1, <2>2, MinusOneAsByte
<1>1. WqeOpcode("IB_WR_SEND") = 2 /\ WqeOpcode("IB_WR_RDMA_READ") = 4
  BY <1>0 DEF WqeOpcode, xib_wr_code, XRNIC_SEND_ONLY, XRNIC_RDMA_READ
<1>2. WqeOpcode("IB_WR_RDMA_WRITE") = 0 /\ WqeOpcode("IB_WR_LOCAL_INV") = 255
  BY <1>0 DEF WqeOpcode, xib_wr_code, XRNIC_RDMA_WRITE, XRNIC_INVALID_OPC
<1> QED
  BY <1>1, <1>2 DEF IbOpcodes, XRNIC_SEND_ONLY, XRNIC_RDMA_READ, XRNIC_RDMA_WRITE

\* A store in the free entry keeps the entries of the requests in flight.
LEMMA EntriesKept ==
    ASSUME ConstantsOK, Credit, RingInv, post.pc = "wr", sent' = sent, reaped' = reaped,
           \A s \in Slots \ {sq_cmpl_db_local} : wqe'[s] = wqe[s]
                                                 /\ wr_id_array'[s] = wr_id_array[s]
    PROVE  \A k \in reaped' + 1 .. Len(sent') : EntryHolds(k, sent[k])'
<1> SUFFICES ASSUME NEW k \in reaped + 1 .. Len(sent)
             PROVE  EntryHolds(k, sent[k])'
  OBVIOUS
<1>1. PICK s \in Slots : s = (k - 1) % sq_max_wr /\ s # sq_cmpl_db_local
  BY EntryFree
<1>2. wqe'[s] = wqe[s] /\ wr_id_array'[s] = wr_id_array[s]
  BY <1>1
<1>3. EntryHolds(k, sent[k])
  BY DEF RingInv, EntryInv
<1> QED
  BY <1>1, <1>2, <1>3 DEF EntryHolds

\* A request fills the free entry before its doorbell.
LEMMA PostWrStep ==
    ASSUME ConstantsOK, Credit, RingInv, SqdInv, NEW op \in Opcodes, NEW signaled \in BOOLEAN,
           PostWr(op, signaled)
    PROVE  RingInv' /\ SqdInv'
<1>0. /\ UNCHANGED <<state, sq_cmpl_db_local, SQ_PROD_IDX, hwVars, sqdVars, reapVars,
                     post_send_count, poll, sent>>
      /\ post.pc = "wr" /\ TypeOK /\ offered \in Nat /\ offered' = offered + 1
      /\ sq_cmpl_db_local \in Slots /\ post \in PostType
  BY DEF PostWr, RingInv, TypeOK, PostType
<1>1. PICK c \in Nat : c = WqeOpcode(op)
  BY OpcodeValues DEF ConstantsOK
<1>2. PICK e : e = [wr_id |-> offered, signaled |-> signaled]
  OBVIOUS
<1>3. e \in [wr_id : Int, signaled : BOOLEAN] /\ e.wr_id = offered /\ e.signaled = signaled
  BY <1>0, <1>2
<1>4. PICK w : w = [wr_id |-> offered, opcode |-> c]
  OBVIOUS
<1>5. w \in [wr_id : Int, opcode : Int] /\ w.wr_id = offered /\ w.opcode = c
  BY <1>0, <1>4
<1>6. PICK req : req = [wr_id |-> offered, opcode |-> c, signaled |-> signaled]
  OBVIOUS
<1>7. /\ req \in Request /\ req.wr_id = offered /\ req.opcode = c
      /\ req.signaled = signaled
  BY <1>0, <1>6 DEF Request
<1>8. /\ wr_id_array' = [wr_id_array EXCEPT ![sq_cmpl_db_local] = e]
      /\ wqe' = [wqe EXCEPT ![sq_cmpl_db_local] = w]
      /\ post' = [post EXCEPT !.pc = "bell", !.req = req]
  BY <1>1, <1>2, <1>4, <1>6 DEF PostWr
<1>9. post' \in PostType /\ post'.pc = "bell" /\ post'.req = req /\ post'.left = post.left
  <2>1. PICK q : q = [post EXCEPT !.pc = "bell"]
    OBVIOUS
  <2>2. q \in PostType /\ q.pc = "bell" /\ q.left = post.left
    BY <1>0, <2>1 DEF PostType
  <2>3. post' = [q EXCEPT !.req = req]
    BY <1>8, <2>1
  <2> QED
    BY <1>7, <2>2, <2>3 DEF PostType
<1>10. TypeOK'
  <2>1. wr_id_array' \in [Slots -> [wr_id : Int, signaled : BOOLEAN]]
    BY <1>0, <1>3, <1>8 DEF TypeOK
  <2>2. wqe' \in [Slots -> [wr_id : Int, opcode : Int]]
    BY <1>0, <1>5, <1>8 DEF TypeOK
  <2>3. bufs' \in SUBSET Int /\ pl_buf_list' \in [Slots -> Int] /\ offered' \in Nat
    <3>1. bufs' = bufs \cup {offered} \/ bufs' = bufs
      BY DEF PostWr
    <3>2. pl_buf_list' = [pl_buf_list EXCEPT ![sq_cmpl_db_local] = offered]
          \/ pl_buf_list' = pl_buf_list
      BY DEF PostWr
    <3>3. /\ bufs \subseteq Int /\ pl_buf_list \in [Slots -> Int]
          /\ sq_cmpl_db_local \in Slots /\ offered \in Int
      BY <1>0 DEF TypeOK
    <3>4. bufs' \subseteq Int
      BY <3>1, <3>3
    <3>5. pl_buf_list' \in [Slots -> Int]
      BY <3>2, <3>3
    <3> QED
      BY <1>0, <3>4, <3>5
  <2> QED
    BY <1>0, <1>9, <2>1, <2>2, <2>3 DEF TypeOK, PostType, hwVars, sqdVars, reapVars
<1>11. CountInv' /\ CursorInv'
  BY <1>0, <1>9 DEF RingInv, CountInv, CursorInv, hwVars, reapVars, RingPtr
<1>12. NameInv'
  <2>1. \A k \in 1 .. Len(sent) : sent[k].wr_id < offered /\ sent[k].wr_id \in Int
    <3>1. \A k \in 1 .. Len(sent) : sent[k] \in Request
      BY <1>0, SMTT(20) DEF TypeOK
    <3> QED
      BY <3>1 DEF RingInv, NameInv, Request
  <2>2. \A k \in 1 .. Len(sent) : sent[k].wr_id < offered + 1
    BY <1>0, <2>1
  <2> QED
    BY <1>0, <1>7, <1>9, <2>1, <2>2 DEF RingInv, NameInv
<1>13. EntryInv'
  <2>1. /\ wqe'[sq_cmpl_db_local] = w /\ wr_id_array'[sq_cmpl_db_local] = e
        /\ \A s \in Slots \ {sq_cmpl_db_local} : wqe'[s] = wqe[s]
                                                 /\ wr_id_array'[s] = wr_id_array[s]
    BY <1>0, <1>8 DEF TypeOK
  <2>2. sent' = sent /\ reaped' = reaped
    BY <1>0 DEF reapVars
  <2>3. \A k \in reaped' + 1 .. Len(sent') : EntryHolds(k, sent[k])'
    BY <1>0, <2>1, <2>2, EntriesKept
  <2>4. EntryHolds(Len(sent) + 1, post.req)'
    <3>1. ((Len(sent) + 1) - 1) % sq_max_wr = sq_cmpl_db_local
      <4>1. Len(sent) \in Nat /\ sq_cmpl_db_local = Len(sent) % sq_max_wr
        BY <1>0 DEF RingInv, CursorInv, TypeOK
      <4>2. (Len(sent) + 1) - 1 = Len(sent)
        BY <4>1
      <4> QED
        BY <4>1, <4>2
    <3> QED
      BY <1>3, <1>5, <1>7, <1>9, <2>1, <2>2, <3>1 DEF EntryHolds
  <2> QED
    BY <2>3, <2>4 DEF EntryInv
<1>14. CqeInv' /\ ExecutedInOrder' /\ ReportInv'
  BY <1>0 DEF RingInv, CqeInv, ExecutedInOrder, ReportInv, hwVars, reapVars
<1>15. SqdInv'
  <2>1. offered' \in Nat /\ offered <= offered'
    BY <1>0
  <2> QED
    BY <1>0, <2>1, SqdKept DEF sqdVars
<1> QED
  BY <1>10, <1>11, <1>12, <1>13, <1>14, <1>15 DEF RingInv

\* A request that fails leaves its mark in the free entry only.
LEMMA PostWrFailsStep ==
    ASSUME ConstantsOK, Credit, RingInv, SqdInv, NEW signaled \in BOOLEAN,
           NEW why \in Failures, PostWrFails(signaled, why)
    PROVE  RingInv' /\ SqdInv'
<1>0. /\ UNCHANGED <<state, sq_cmpl_db_local, wqe, SQ_PROD_IDX, hwVars, sqdVars, reapVars,
                     post_send_count, poll, sent>>
      /\ post.pc = "wr" /\ TypeOK /\ offered \in Nat /\ offered' = offered + 1
      /\ sq_cmpl_db_local \in Slots
  BY DEF PostWrFails, RingInv, TypeOK
<1>1. PICK e \in [wr_id : Int, signaled : BOOLEAN] :
        wr_id_array' = [wr_id_array EXCEPT ![sq_cmpl_db_local] = e]
  <2>1. [wr_id |-> offered, signaled |-> signaled] \in [wr_id : Int, signaled : BOOLEAN]
    BY <1>0
  <2> QED
    BY <2>1 DEF PostWrFails
<1>2. post' \in PostType /\ post'.pc = "idle"
  BY PostTypes DEF PostWrFails, PostFailed
<1>3. TypeOK'
  <2>1. wr_id_array' \in [Slots -> [wr_id : Int, signaled : BOOLEAN]]
    BY <1>0, <1>1 DEF TypeOK
  <2>2. /\ bufs \subseteq Int /\ pl_buf_list \in [Slots -> Int]
        /\ sq_cmpl_db_local \in Slots /\ offered \in Int
    BY <1>0 DEF TypeOK
  <2>3. bufs' \subseteq Int
    <3>1. bufs' = bufs \cup {offered} \/ bufs' = bufs
      BY DEF PostWrFails
    <3> QED
      BY <2>2, <3>1
  <2>4. pl_buf_list' \in [Slots -> Int]
    <3>1. PICK b : /\ b = offered \/ b = NoBuf
                   /\ pl_buf_list' = [pl_buf_list EXCEPT ![sq_cmpl_db_local] = b]
      BY DEF PostWrFails
    <3>2. b \in Int
      BY <2>2, <3>1 DEF NoBuf
    <3> QED
      BY <2>2, <3>1, <3>2
  <2>5. bufs' \in SUBSET Int /\ offered' \in Nat
    BY <1>0, <2>3
  <2> QED
    BY <1>0, <1>2, <2>1, <2>4, <2>5 DEF TypeOK, PostType, hwVars, sqdVars, reapVars
<1>4. CountInv' /\ CursorInv'
  BY <1>0, <1>2 DEF RingInv, CountInv, CursorInv, hwVars, reapVars, RingPtr
<1>5. NameInv'
  <2>1. \A k \in 1 .. Len(sent) : sent[k].wr_id < offered /\ sent[k].wr_id \in Int
    <3>1. \A k \in 1 .. Len(sent) : sent[k] \in Request
      BY <1>0, SMTT(20) DEF TypeOK
    <3> QED
      BY <3>1 DEF RingInv, NameInv, Request
  <2>2. \A k \in 1 .. Len(sent) : sent[k].wr_id < offered + 1
    BY <1>0, <2>1
  <2> QED
    BY <1>0, <1>2, <2>2 DEF RingInv, NameInv
<1>6. EntryInv'
  <2>1. \A s \in Slots \ {sq_cmpl_db_local} : wqe'[s] = wqe[s]
                                              /\ wr_id_array'[s] = wr_id_array[s]
    BY <1>0, <1>1 DEF TypeOK
  <2>2. sent' = sent /\ reaped' = reaped
    BY <1>0 DEF reapVars
  <2>3. \A k \in reaped' + 1 .. Len(sent') : EntryHolds(k, sent[k])'
    BY <1>0, <2>1, <2>2, EntriesKept
  <2> QED
    BY <1>2, <2>3 DEF EntryInv
<1>7. CqeInv' /\ ExecutedInOrder' /\ ReportInv'
  BY <1>0 DEF RingInv, CqeInv, ExecutedInOrder, ReportInv, hwVars, reapVars
<1>8. SqdInv'
  <2>1. offered' \in Nat /\ offered <= offered'
    BY <1>0
  <2> QED
    BY <1>0, <2>1, SqdKept DEF sqdVars
<1> QED
  BY <1>3, <1>4, <1>5, <1>6, <1>7, <1>8 DEF RingInv

\* The list of requests handed over, one longer.
LEMMA SentOneMore ==
    ASSUME sent \in Seq(Request), NEW req \in Request, sent' = Append(sent, req)
    PROVE  /\ sent' \in Seq(Request) /\ Len(sent') = Len(sent) + 1
           /\ sent'[Len(sent) + 1] = req
           /\ \A k \in 1 .. Len(sent) : sent'[k] = sent[k]
           /\ \A k \in 1 .. Len(sent') : k \in 1 .. Len(sent) \/ k = Len(sent) + 1
<1>1. Len(sent) \in Nat
  OBVIOUS
<1>2. sent' \in Seq(Request) /\ Len(sent') = Len(sent) + 1
  OBVIOUS
<1>3. sent'[Len(sent) + 1] = req /\ \A k \in 1 .. Len(sent) : sent'[k] = sent[k]
  OBVIOUS
<1> QED
  BY <1>1, <1>2, <1>3

\* The doorbell hands the filled entry to the hardware.
LEMMA SendWrStep ==
    ASSUME ConstantsOK, Credit, RingInv, SqdInv, xrnic_send_wr
    PROVE  RingInv' /\ SqdInv'
<1>0. /\ UNCHANGED <<state, wr_id_array, pl_buf_list, wqe, hwVars, sqdVars, reapVars,
                     post_send_count, poll, bufs, offered>>
      /\ post.pc = "bell" /\ TypeOK /\ offered \in Nat /\ reaped \in Nat
      /\ sent \in Seq(Request) /\ executed \in Seq([wr_id : Int, opcode : Int, err : BOOLEAN])
      /\ post \in PostType /\ sq_max_wr \in Nat \ {0} /\ SendCredit \in Nat
      /\ sq_cmpl_db_local = Len(sent) % sq_max_wr
  BY DEF xrnic_send_wr, RingInv, TypeOK, PostType, ConstantsOK, CursorInv
<1>1. PICK req \in Request : req = post.req
  BY <1>0 DEF PostType
<1>2. PICK n \in Nat : n = post.left
  BY <1>0 DEF PostType
<1>3. PICK c \in Nat : c = Len(sent)
  BY <1>0
<1>4. /\ sent' \in Seq(Request) /\ Len(sent') = c + 1 /\ sent'[c + 1] = req
      /\ \A k \in 1 .. c : sent'[k] = sent[k]
      /\ \A k \in 1 .. c + 1 : k \in 1 .. c \/ k = c + 1
  BY <1>0, <1>1, <1>3, SentOneMore DEF xrnic_send_wr
<1>5. /\ n > 0 /\ c + n <= reaped + SendCredit /\ reaped <= Len(executed)
      /\ Len(executed) <= c
  BY <1>0, <1>2, <1>3 DEF RingInv, CountInv
<1>6. /\ post' \in PostType
      /\ post'.pc \in {"idle", "wr"} /\ (post'.pc = "wr" => post'.left = n - 1 /\ n # 1)
  <2>1. CASE n = 1
    BY <1>2, <2>1, PostTypes DEF xrnic_send_wr
  <2>2. CASE n # 1
    <3>1. n - 1 \in Nat
      BY <1>5
    <3>2. post' = [pc |-> "wr", left |-> n - 1, req |-> NoReq]
      BY <1>2, <2>2 DEF xrnic_send_wr
    <3>3. post' \in PostType /\ post'.pc = "wr" /\ post'.left = n - 1
      BY <3>1, <3>2, PostTypes
    <3> QED
      BY <2>2, <3>3
  <2> QED
    BY <2>1, <2>2
<1>7. /\ sq_cmpl_db_local' = (c + 1) % sq_max_wr /\ sq_cmpl_db_local' \in Slots
      /\ SQ_PROD_IDX' = RingPtr(c + 1) /\ SQ_PROD_IDX' \in 0 .. sq_max_wr
  <2>1. /\ sq_cmpl_db_local' = WrapLocal((c % sq_max_wr) + 1)
        /\ SQ_PROD_IDX' = (c % sq_max_wr) + 1
    BY <1>0, <1>3 DEF xrnic_send_wr, Doorbell
  <2>2. /\ (c % sq_max_wr) + 1 = RingPtr(c + 1)
        /\ WrapLocal((c % sq_max_wr) + 1) = (c + 1) % sq_max_wr
    BY RingFacts
  <2>3. (c + 1) % sq_max_wr \in Slots /\ RingPtr(c + 1) \in 0 .. sq_max_wr
    BY RingFacts
  <2> QED
    BY <2>1, <2>2, <2>3
<1>8. TypeOK'
  BY <1>0, <1>4, <1>6, <1>7 DEF TypeOK, PostType, hwVars, sqdVars, reapVars
<1>9. reaped' = reaped /\ executed' = executed /\ send_wcs' = send_wcs /\ cqe' = cqe
      /\ send_cq_db_local' = send_cq_db_local /\ CQ_HEAD_PTR' = CQ_HEAD_PTR /\ poll' = poll
      /\ wqe' = wqe /\ wr_id_array' = wr_id_array /\ offered' = offered
  BY <1>0 DEF hwVars, reapVars
<1>10. CountInv'
  <2>0. Len(executed) \in Nat /\ reaped \in Nat
    BY <1>0
  <2>1. reaped <= Len(executed) /\ Len(executed) <= c + 1 /\ c + 1 <= reaped + SendCredit
    BY <1>0, <1>5, <2>0
  <2>2. n # 1 => n - 1 > 0 /\ (c + 1) + (n - 1) <= reaped + SendCredit
    BY <1>0, <1>5
  <2>3. post'.pc = "wr" => /\ post'.left > 0
                           /\ (c + 1) + post'.left <= reaped + SendCredit
    BY <1>6, <2>2
  <2> QED
    BY <1>4, <1>6, <1>9, <2>1, <2>3 DEF CountInv
<1>11. CursorInv'
  BY <1>4, <1>7, <1>9 DEF RingInv, CursorInv, RingPtr
<1>12. NameInv'
  <2>1. ASSUME NEW k \in 1 .. c + 1 PROVE sent'[k].wr_id < offered
    BY <1>0, <1>1, <1>3, <1>4 DEF RingInv, NameInv
  <2>2. ASSUME NEW j \in 1 .. c + 1, NEW k \in 1 .. c + 1, j < k
        PROVE  sent'[j].wr_id < sent'[k].wr_id
    <3>0. j \in 1 .. c
      BY <2>2
    <3>1. CASE k \in 1 .. c
      BY <1>3, <1>4, <2>2, <3>0, <3>1 DEF RingInv, NameInv
    <3>2. CASE k = c + 1
      BY <1>0, <1>1, <1>3, <1>4, <3>0, <3>2 DEF RingInv, NameInv
    <3> QED
      BY <1>4, <3>1, <3>2
  <2> QED
    BY <1>4, <1>6, <1>9, <2>1, <2>2 DEF NameInv
<1>13. EntryInv'
  <2>1. ASSUME NEW k \in reaped + 1 .. c + 1 PROVE EntryHolds(k, sent[k])'
    <3>0. k \in reaped + 1 .. c \/ k = c + 1
      BY <1>0
    <3>1. CASE k \in reaped + 1 .. c
      <4>1. EntryHolds(k, sent[k]) /\ sent'[k] = sent[k]
        <5>1. k \in 1 .. c
          BY <1>0, <3>1
        <5> QED
          BY <1>3, <1>4, <3>1, <5>1 DEF RingInv, EntryInv
      <4> QED
        BY <1>9, <4>1 DEF EntryHolds
    <3>2. CASE k = c + 1
      <4>1. EntryHolds(c + 1, req)
        BY <1>0, <1>1, <1>3 DEF RingInv, EntryInv
      <4> QED
        BY <1>4, <1>9, <3>2, <4>1 DEF EntryHolds
    <3> QED
      BY <3>0, <3>1, <3>2
  <2> QED
    BY <1>4, <1>6, <1>9, <2>1 DEF EntryInv
<1>14. CqeInv'
  BY <1>9 DEF RingInv, CqeInv
<1>15. ExecutedInOrder' /\ ReportInv'
  <2>1. ASSUME NEW k \in 1 .. Len(executed) PROVE k \in 1 .. c
    <3>1. Len(executed) \in Nat
      BY <1>0
    <3> QED
      BY <1>5, <3>1
  <2>2. ASSUME NEW k \in 1 .. reaped PROVE k \in 1 .. c
    <3>1. Len(executed) \in Nat
      BY <1>0
    <3> QED
      BY <1>0, <1>5, <3>1
  <2>3. ExecutedInOrder'
    <3>1. Len(executed) <= c + 1
      <4>1. Len(executed) \in Nat
        BY <1>0
      <4> QED
        BY <1>5, <4>1
    <3> QED
      BY <1>4, <1>9, <2>1, <3>1 DEF RingInv, ExecutedInOrder
  <2>4. \A k \in 1 .. reaped : sent'[k] = sent[k]
    BY <1>4, <2>2
  <2>5. ReportInv'
    BY <1>9, <2>4 DEF RingInv, ReportInv
  <2> QED
    BY <2>3, <2>5
<1>16. SqdInv'
  <2>1. offered' \in Nat /\ offered <= offered'
    BY <1>0
  <2> QED
    BY <1>0, <2>1, SqdKept DEF sqdVars
<1> QED
  BY <1>8, <1>10, <1>11, <1>12, <1>13, <1>14, <1>15, <1>16 DEF RingInv

\* The history counters are numbers.
LEMMA Counts ==
    ASSUME RingInv
    PROVE  Len(executed) \in Nat /\ Len(sent) \in Nat /\ reaped \in Nat
<1>1. /\ executed \in Seq([wr_id : Int, opcode : Int, err : BOOLEAN])
      /\ sent \in Seq(Request) /\ reaped \in Nat
  BY DEF RingInv, TypeOK
<1> QED
  BY <1>1

\* The producer index tells the hardware whether an element is left.
LEMMA HwAhead ==
    ASSUME ConstantsOK, Credit, RingInv, RingPtr(Len(executed)) # SQ_PROD_IDX
    PROVE  Len(executed) + 1 \in reaped + 1 .. Len(sent)
<1>0. Len(executed) \in Nat /\ Len(sent) \in Nat /\ reaped \in Nat
  BY Counts
<1>1. SQ_PROD_IDX = RingPtr(Len(sent)) /\ reaped <= Len(executed)
      /\ Len(executed) <= Len(sent)
  BY DEF RingInv, CursorInv, CountInv
<1>2. Len(executed) # Len(sent)
  BY <1>1
<1> QED
  BY <1>0, <1>1, <1>2

\* The completion queue of the requests not reaped has room for one more.
LEMMA CqeFree ==
    ASSUME ConstantsOK, Credit, RingInv, RingPtr(Len(executed)) # SQ_PROD_IDX,
           NEW k \in reaped + 1 .. Len(executed)
    PROVE  /\ (k - 1) % sq_max_wr \in Slots
           /\ (k - 1) % sq_max_wr # Len(executed) % sq_max_wr
<1>0. /\ Len(executed) \in Nat /\ Len(sent) \in Nat /\ reaped \in Nat /\ SendCredit \in Nat
      /\ sq_max_wr \in Nat \ {0}
  BY Counts DEF ConstantsOK
<1>1. Len(executed) + 1 \in reaped + 1 .. Len(sent)
  BY HwAhead
<1>2. Len(sent) <= reaped + SendCredit /\ SendCredit < sq_max_wr
  BY DEF RingInv, CountInv, Credit
<1>3. k - 1 \in Nat /\ k - 1 < Len(executed) /\ Len(executed) - (k - 1) < sq_max_wr
  BY <1>0, <1>1, <1>2
<1> QED
  BY <1>0, <1>3, RingFacts, RingApart

\* The list of completed elements, one longer.
LEMMA ExecutedOneMore ==
    ASSUME NEW S, executed \in Seq(S), NEW x \in S, executed' = Append(executed, x)
    PROVE  /\ executed' \in Seq(S) /\ Len(executed') = Len(executed) + 1
           /\ executed'[Len(executed) + 1] = x
           /\ \A k \in 1 .. Len(executed) : executed'[k] = executed[k]
           /\ \A k \in 1 .. Len(executed') : k \in 1 .. Len(executed) \/ k = Len(executed) + 1
<1>1. Len(executed) \in Nat
  OBVIOUS
<1>2. executed' \in Seq(S) /\ Len(executed') = Len(executed) + 1
  OBVIOUS
<1>3. executed'[Len(executed) + 1] = x /\ \A k \in 1 .. Len(executed) : executed'[k] = executed[k]
  OBVIOUS
<1> QED
  BY <1>1, <1>2, <1>3

\* The hardware completes the oldest element it was handed.
LEMMA HwCompleteStep ==
    ASSUME ConstantsOK, Credit, RingInv, SqdInv, NEW err \in BOOLEAN, HwComplete(err)
    PROVE  RingInv' /\ SqdInv'
<1> DEFINE Cqe == [opcode : Int, err : BOOLEAN]
           Done == [wr_id : Int, opcode : Int, err : BOOLEAN]
<1>0. /\ UNCHANGED <<state, ringVars, sqdVars, reapVars, post_send_count, post, poll, bufs,
                     offered, sent>>
      /\ TypeOK /\ offered \in Nat /\ reaped \in Nat /\ executed \in Seq(Done)
      /\ cqe \in [Slots -> Cqe] /\ wqe \in [Slots -> [wr_id : Int, opcode : Int]]
      /\ sent \in Seq(Request) /\ sq_max_wr \in Nat \ {0} /\ SendCredit \in Nat
      /\ RingPtr(Len(executed)) # SQ_PROD_IDX
  BY DEF HwComplete, RingInv, TypeOK, ConstantsOK
<1>1. PICK d \in Nat : d = Len(executed)
  BY <1>0
<1>2. PICK c \in Nat : c = Len(sent)
  BY <1>0
<1>3. d + 1 \in reaped + 1 .. c /\ reaped <= d /\ d + 1 <= c
  <2>1. d + 1 \in reaped + 1 .. c
    BY <1>0, <1>1, <1>2, HwAhead
  <2> QED
    BY <1>0, <2>1
<1>4. PICK s \in Slots : s = d % sq_max_wr
  BY RingFacts
<1>5. /\ wqe[s].wr_id = sent[d + 1].wr_id /\ wqe[s].opcode = sent[d + 1].opcode
      /\ wr_id_array[s].signaled = sent[d + 1].signaled
  <2>1. EntryHolds(d + 1, sent[d + 1])
    BY <1>2, <1>3 DEF RingInv, EntryInv
  <2>2. ((d + 1) - 1) = d
    OBVIOUS
  <2> QED
    BY <1>4, <2>1, <2>2 DEF EntryHolds
<1>6. PICK w \in Int, o \in Int : w = wqe[s].wr_id /\ o = wqe[s].opcode
  BY <1>0, <1>4
<1>7. PICK x : x = [wr_id |-> w, opcode |-> o, err |-> err]
  OBVIOUS
<1>8. x \in Done /\ x.wr_id = w /\ x.opcode = o /\ x.err = err
  BY <1>7
<1>9. PICK y : y = [opcode |-> o, err |-> err]
  OBVIOUS
<1>10. y \in Cqe /\ y.opcode = o /\ y.err = err
  BY <1>9
<1>11. executed' = Append(executed, x) /\ cqe' = [cqe EXCEPT ![s] = y]
       /\ CQ_HEAD_PTR' = RingPtr(d + 1)
  BY <1>1, <1>4, <1>6, <1>7, <1>9 DEF HwComplete
<1>12. /\ executed' \in Seq(Done) /\ Len(executed') = d + 1 /\ executed'[d + 1] = x
       /\ \A k \in 1 .. d : executed'[k] = executed[k]
       /\ \A k \in 1 .. d + 1 : k \in 1 .. d \/ k = d + 1
  BY <1>0, <1>1, <1>8, <1>11, ExecutedOneMore
<1>13. cqe' \in [Slots -> Cqe] /\ cqe'[s] = y /\ \A t \in Slots \ {s} : cqe'[t] = cqe[t]
  BY <1>0, <1>4, <1>10, <1>11
<1>14. RingPtr(d + 1) \in 0 .. sq_max_wr
  BY RingFacts
<1>15. TypeOK'
  BY <1>0, <1>11, <1>12, <1>13, <1>14 DEF TypeOK, ringVars, sqdVars, reapVars
<1>16. /\ reaped' = reaped /\ sent' = sent /\ send_wcs' = send_wcs /\ offered' = offered
       /\ send_cq_db_local' = send_cq_db_local /\ poll' = poll /\ post' = post
       /\ wqe' = wqe /\ wr_id_array' = wr_id_array /\ SQ_PROD_IDX' = SQ_PROD_IDX
       /\ sq_cmpl_db_local' = sq_cmpl_db_local
  BY <1>0 DEF ringVars, reapVars
<1>17. CountInv'
  <2>1. reaped <= d + 1
    BY <1>0, <1>3
  <2> QED
    BY <1>1, <1>2, <1>3, <1>12, <1>16, <2>1 DEF RingInv, CountInv
<1>18. CursorInv'
  <2>1. poll.pc = "reap" => \E h \in reaped .. d + 1 : poll.head = RingPtr(h)
    <3> SUFFICES ASSUME poll.pc = "reap" PROVE \E h \in reaped .. d + 1 : poll.head = RingPtr(h)
      OBVIOUS
    <3>1. PICK h \in reaped .. d : poll.head = RingPtr(h)
      BY <1>1 DEF RingInv, CursorInv
    <3>2. h \in reaped .. d + 1
      BY <1>0
    <3> QED
      BY <3>1, <3>2
  <2> QED
    BY <1>11, <1>12, <1>16, <2>1 DEF RingInv, CursorInv, RingPtr
<1>19. NameInv' /\ EntryInv'
  <2>1. NameInv'
    BY <1>16 DEF RingInv, NameInv
  <2>2. EntryInv'
    BY <1>16 DEF RingInv, EntryInv, EntryHolds
  <2> QED
    BY <2>1, <2>2
<1>20. CqeInv'
  <2>1. ASSUME NEW k \in reaped + 1 .. d + 1
        PROVE  /\ cqe'[(k - 1) % sq_max_wr].opcode = executed'[k].opcode
               /\ cqe'[(k - 1) % sq_max_wr].err = executed'[k].err
    <3>1. CASE k = d + 1
      <4>1. (k - 1) % sq_max_wr = s
        <5>1. k - 1 = d
          BY <3>1
        <5> QED
          BY <1>4, <5>1
      <4> QED
        BY <1>8, <1>10, <1>12, <1>13, <3>1, <4>1
    <3>2. CASE k \in reaped + 1 .. d
      <4>1. PICK t \in Slots : t = (k - 1) % sq_max_wr /\ t # s
        BY <1>0, <1>1, <1>4, <3>2, CqeFree
      <4>2. k \in 1 .. d
        BY <1>0, <3>2
      <4>3. cqe'[t] = cqe[t] /\ executed'[k] = executed[k]
        BY <1>12, <1>13, <4>1, <4>2
      <4>4. cqe[t].opcode = executed[k].opcode /\ cqe[t].err = executed[k].err
        BY <1>1, <3>2, <4>1 DEF RingInv, CqeInv
      <4> QED
        BY <4>1, <4>3, <4>4
    <3>3. k = d + 1 \/ k \in reaped + 1 .. d
      BY <1>0
    <3> QED
      BY <3>1, <3>2, <3>3
  <2> QED
    BY <1>12, <1>16, <2>1 DEF CqeInv
<1>21. ExecutedInOrder'
  <2>1. ASSUME NEW k \in 1 .. d + 1
        PROVE  executed'[k].wr_id = sent[k].wr_id /\ executed'[k].opcode = sent[k].opcode
    <3>1. CASE k = d + 1
      BY <1>5, <1>6, <1>8, <1>12, <3>1
    <3>2. CASE k \in 1 .. d
      BY <1>1, <1>12, <3>2 DEF RingInv, ExecutedInOrder
    <3> QED
      BY <1>12, <3>1, <3>2
  <2> QED
    BY <1>2, <1>3, <1>12, <1>16, <2>1 DEF ExecutedInOrder
<1>22. ReportInv'
  <2>1. \A k \in 1 .. reaped : executed'[k] = executed[k]
    <3>1. ASSUME NEW k \in 1 .. reaped PROVE k \in 1 .. d
      BY <1>0, <1>3
    <3> QED
      BY <1>12, <3>1
  <2>2. \A i, j \in 1 .. Len(send_wcs) : i < j => send_wcs[i].wr_id < send_wcs[j].wr_id
    BY DEF RingInv, ReportInv
  <2>3. ASSUME NEW j \in 1 .. Len(send_wcs)
        PROVE  \E k \in 1 .. reaped : /\ sent[k].signaled = TRUE
                                      /\ send_wcs[j].wr_id = executed'[k].wr_id
                                      /\ send_wcs[j].err = executed'[k].err
    <3>1. PICK k \in 1 .. reaped : /\ sent[k].signaled = TRUE
                                   /\ send_wcs[j].wr_id = executed[k].wr_id
                                   /\ send_wcs[j].err = executed[k].err
      BY DEF RingInv, ReportInv
    <3>2. executed'[k] = executed[k]
      BY <2>1
    <3> QED
      BY <3>1, <3>2
  <2>4. ASSUME NEW k \in 1 .. reaped, sent[k].signaled = TRUE
        PROVE  \E j \in 1 .. Len(send_wcs) : /\ send_wcs[j].wr_id = executed'[k].wr_id
                                             /\ send_wcs[j].err = executed'[k].err
    <3>1. executed'[k] = executed[k]
      BY <2>1
    <3> QED
      BY <2>4, <3>1 DEF RingInv, ReportInv
  <2> QED
    BY <1>16, <2>2, <2>3, <2>4 DEF ReportInv
<1>23. SqdInv'
  <2>1. offered' \in Nat /\ offered <= offered'
    BY <1>0
  <2> QED
    BY <1>0, <2>1, SqdKept DEF sqdVars
<1> QED
  BY <1>15, <1>17, <1>18, <1>19, <1>20, <1>21, <1>22, <1>23 DEF RingInv

\* What the poll finds in the entry it reaps next.
LEMMA ReapFinds ==
    ASSUME ConstantsOK, Credit, RingInv, poll.pc = "reap", send_cq_db_local # poll.head
    PROVE  LET k == reaped + 1
               s == WrapLocal(send_cq_db_local)
           IN  /\ k \in reaped + 1 .. Len(executed) /\ k \in reaped + 1 .. Len(sent)
               /\ k \in 1 .. Len(executed) /\ k \in 1 .. Len(sent)
               /\ s \in Slots /\ s = reaped % sq_max_wr /\ s + 1 = RingPtr(k)
               /\ s = (k - 1) % sq_max_wr
               /\ EntryHolds(k, sent[k])
               /\ wr_id_array[s].wr_id = executed[k].wr_id
               /\ wr_id_array[s].signaled = sent[k].signaled
               /\ cqe[s].opcode = sent[k].opcode /\ cqe[s].err = executed[k].err
               /\ executed[k].wr_id = sent[k].wr_id
               /\ \E h \in k .. Len(executed) : poll.head = RingPtr(h)
<1>0. Len(executed) \in Nat /\ Len(sent) \in Nat /\ reaped \in Nat
  BY Counts
<1>1. send_cq_db_local = RingPtr(reaped) /\ Len(executed) <= Len(sent)
  BY DEF RingInv, CursorInv, CountInv
<1>2. PICK h \in reaped .. Len(executed) : poll.head = RingPtr(h)
  BY DEF RingInv, CursorInv
<1>3. h # reaped
  BY <1>1, <1>2
<1>4. PICK k : k = reaped + 1
  OBVIOUS
<1>5. /\ k \in reaped + 1 .. Len(executed) /\ k \in reaped + 1 .. Len(sent)
      /\ k \in 1 .. Len(executed) /\ k \in 1 .. Len(sent)
      /\ h \in k .. Len(executed) /\ k - 1 = reaped
  BY <1>0, <1>1, <1>2, <1>3, <1>4
<1>6. PICK s \in Slots : s = reaped % sq_max_wr /\ s = WrapLocal(send_cq_db_local)
                         /\ s + 1 = RingPtr(k)
  BY <1>0, <1>1, <1>4, RingFacts
<1>7. EntryHolds(k, sent[k])
  BY <1>5 DEF RingInv, EntryInv
<1>8. /\ wr_id_array[s].wr_id = sent[k].wr_id /\ wr_id_array[s].signaled = sent[k].signaled
  BY <1>5, <1>6, <1>7 DEF EntryHolds
<1>9. cqe[s].opcode = executed[k].opcode /\ cqe[s].err = executed[k].err
  BY <1>5, <1>6 DEF RingInv, CqeInv
<1>10. executed[k].wr_id = sent[k].wr_id /\ executed[k].opcode = sent[k].opcode
  BY <1>5 DEF RingInv, ExecutedInOrder
<1>11. s = (k - 1) % sq_max_wr
  BY <1>5, <1>6
<1> QED
  BY <1>2, <1>4, <1>5, <1>6, <1>7, <1>8, <1>9, <1>10, <1>11

\* The reports after the poll passed one completion.
LEMMA ReapReports ==
    ASSUME ConstantsOK, Credit, RingInv, Reap
    PROVE  /\ send_wcs' \in Seq([wr_id : Int, err : BOOLEAN])
           /\ ReportInv'
<1> DEFINE Wc == [wr_id : Int, err : BOOLEAN]
           Done == [wr_id : Int, opcode : Int, err : BOOLEAN]
<1>0. /\ send_wcs \in Seq(Wc) /\ executed \in Seq(Done) /\ sent \in Seq(Request)
      /\ reaped \in Nat /\ sent' = sent /\ executed' = executed /\ reaped' = reaped + 1
      /\ poll.pc = "reap" /\ send_cq_db_local # poll.head
  BY DEF Reap, RingInv, TypeOK, hwVars
<1>1. PICK k : k = reaped + 1
  OBVIOUS
<1>2. PICK s : s = WrapLocal(send_cq_db_local)
  OBVIOUS
<1>3. /\ k \in 1 .. Len(executed) /\ k \in 1 .. Len(sent)
      /\ wr_id_array[s].wr_id = executed[k].wr_id
      /\ wr_id_array[s].signaled = sent[k].signaled
      /\ cqe[s].err = executed[k].err /\ executed[k].wr_id = sent[k].wr_id
  BY <1>0, <1>1, <1>2, ReapFinds
<1>4. executed[k] \in Done /\ sent[k] \in Request
  <2>1. executed[k] \in Done
    BY <1>0, <1>3, ElementOfSeq
  <2>2. sent[k] \in Request
    BY <1>0, <1>3, ElementOfSeq
  <2> QED
    BY <2>1, <2>2
<1>5. PICK w \in Int, e \in BOOLEAN : w = executed[k].wr_id /\ e = executed[k].err
  BY <1>4
<1>6. \A m \in 1 .. k : m \in 1 .. reaped \/ m = k
  BY <1>0, <1>1
<1>7. PICK n \in Nat : n = Len(send_wcs)
  BY <1>0
<1>8. /\ \A i, j \in 1 .. n : i < j => send_wcs[i].wr_id < send_wcs[j].wr_id
      /\ \A j \in 1 .. n : \E m \in 1 .. reaped :
             /\ sent[m].signaled = TRUE
             /\ send_wcs[j].wr_id = executed[m].wr_id /\ send_wcs[j].err = executed[m].err
      /\ \A m \in 1 .. reaped : sent[m].signaled = TRUE => \E j \in 1 .. n :
             send_wcs[j].wr_id = executed[m].wr_id /\ send_wcs[j].err = executed[m].err
  BY <1>7 DEF RingInv, ReportInv
<1>9. \A m \in 1 .. reaped : m \in 1 .. k
  BY <1>0, <1>1
<1>10. CASE sent[k].signaled = TRUE
  <2>1. PICK x : x = [wr_id |-> w, err |-> e]
    OBVIOUS
  <2>2. x \in Wc /\ x.wr_id = w /\ x.err = e
    BY <2>1
  <2>3. send_wcs' = Append(send_wcs, x)
    <3>1. ReportsWc(wr_id_array[s])
      BY <1>3, <1>10 DEF ReportsWc
    <3>2. send_wcs' = Append(send_wcs, [wr_id |-> wr_id_array[s].wr_id, err |-> cqe[s].err])
      BY <1>2, <3>1 DEF Reap
    <3> QED
      BY <1>3, <1>5, <2>1, <3>2
  <2>4. /\ send_wcs' \in Seq(Wc) /\ Len(send_wcs') = n + 1
        /\ send_wcs'[n + 1] = x /\ \A j \in 1 .. n : send_wcs'[j] = send_wcs[j]
    BY <1>0, <1>7, <2>2, <2>3
  <2>5. \A j \in 1 .. n + 1 : j \in 1 .. n \/ j = n + 1
    BY <1>7
  <2>6. \A j \in 1 .. n : j \in 1 .. n + 1
    BY <1>7
  <2>7. ASSUME NEW j \in 1 .. n PROVE send_wcs[j].wr_id < w
    <3>1. PICK m \in 1 .. reaped : send_wcs[j].wr_id = executed[m].wr_id
      BY <1>8
    <3>2. m \in 1 .. Len(executed) /\ m \in 1 .. Len(sent) /\ m < k
      <4>1. Len(executed) \in Nat /\ Len(sent) \in Nat
        BY <1>0
      <4> QED
        BY <1>0, <1>1, <1>3, <4>1
    <3>3. executed[m].wr_id = sent[m].wr_id
      BY <3>2 DEF RingInv, ExecutedInOrder
    <3>4. sent[m].wr_id < sent[k].wr_id
      BY <1>3, <3>2 DEF RingInv, NameInv
    <3> QED
      BY <1>3, <1>5, <3>1, <3>3, <3>4
  <2>8. ASSUME NEW i \in 1 .. n + 1, NEW j \in 1 .. n + 1, i < j
        PROVE  send_wcs'[i].wr_id < send_wcs'[j].wr_id
    <3>1. i \in 1 .. n
      BY <1>7, <2>8
    <3>2. CASE j = n + 1
      BY <2>2, <2>4, <2>7, <3>1, <3>2
    <3>3. CASE j \in 1 .. n
      BY <1>8, <2>4, <2>8, <3>1, <3>3
    <3> QED
      BY <2>5, <3>2, <3>3
  <2>9. ASSUME NEW j \in 1 .. n + 1
        PROVE  \E m \in 1 .. k : /\ sent[m].signaled = TRUE
                                 /\ send_wcs'[j].wr_id = executed[m].wr_id
                                 /\ send_wcs'[j].err = executed[m].err
    <3>1. CASE j = n + 1
      <4>1. k \in 1 .. k
        BY <1>0, <1>1
      <4> QED
        BY <1>5, <1>10, <2>2, <2>4, <3>1, <4>1
    <3>2. CASE j \in 1 .. n
      <4>1. PICK m \in 1 .. reaped :
              /\ sent[m].signaled = TRUE
              /\ send_wcs[j].wr_id = executed[m].wr_id /\ send_wcs[j].err = executed[m].err
        BY <1>8, <3>2
      <4>2. m \in 1 .. k /\ send_wcs'[j] = send_wcs[j]
        BY <1>9, <2>4, <3>2
      <4> QED
        BY <4>1, <4>2
    <3> QED
      BY <2>5, <3>1, <3>2
  <2>10. ASSUME NEW m \in 1 .. k, sent[m].signaled = TRUE
         PROVE  \E j \in 1 .. n + 1 : /\ send_wcs'[j].wr_id = executed[m].wr_id
                                      /\ send_wcs'[j].err = executed[m].err
    <3>1. CASE m = k
      <4>1. n + 1 \in 1 .. n + 1
        BY <1>7
      <4> QED
        BY <1>5, <2>2, <2>4, <3>1, <4>1
    <3>2. CASE m \in 1 .. reaped
      <4>1. PICK j \in 1 .. n : /\ send_wcs[j].wr_id = executed[m].wr_id
                                /\ send_wcs[j].err = executed[m].err
        BY <1>8, <2>10, <3>2
      <4>2. j \in 1 .. n + 1 /\ send_wcs'[j] = send_wcs[j]
        BY <2>4, <2>6
      <4> QED
        BY <4>1, <4>2
    <3> QED
      BY <1>6, <3>1, <3>2
  <2>11. reaped' = k
    BY <1>0, <1>1
  <2>12. ReportInv'
    BY <1>0, <2>4, <2>8, <2>9, <2>10, <2>11 DEF ReportInv
  <2> QED
    BY <2>4, <2>12
<1>11. CASE ~(sent[k].signaled = TRUE)
  <2>1. send_wcs' = send_wcs
    <3>1. sent[k].signaled = FALSE
      BY <1>4, <1>11 DEF Request
    <3>2. ~ReportsWc(wr_id_array[s])
      BY <1>3, <3>1 DEF ReportsWc
    <3> QED
      BY <1>2, <3>2 DEF Reap
  <2>2. ASSUME NEW j \in 1 .. n
        PROVE  \E m \in 1 .. k : /\ sent[m].signaled = TRUE
                                 /\ send_wcs[j].wr_id = executed[m].wr_id
                                 /\ send_wcs[j].err = executed[m].err
    <3>1. PICK m \in 1 .. reaped :
            /\ sent[m].signaled = TRUE
            /\ send_wcs[j].wr_id = executed[m].wr_id /\ send_wcs[j].err = executed[m].err
      BY <1>8
    <3>2. m \in 1 .. k
      BY <1>9
    <3> QED
      BY <3>1, <3>2
  <2>3. ASSUME NEW m \in 1 .. k, sent[m].signaled = TRUE
        PROVE  \E j \in 1 .. n : /\ send_wcs[j].wr_id = executed[m].wr_id
                                 /\ send_wcs[j].err = executed[m].err
    <3>1. m \in 1 .. reaped
      BY <1>6, <1>11, <2>3
    <3> QED
      BY <1>8, <2>3, <3>1
  <2>4. reaped' = k /\ sent' = sent /\ executed' = executed
    BY <1>0, <1>1
  <2>5. ReportInv'
    BY <1>7, <1>8, <2>1, <2>2, <2>3, <2>4, ZenonT(30) DEF ReportInv
  <2> QED
    BY <1>0, <2>1, <2>5
<1> QED
  BY <1>10, <1>11

\* The poll passes one completion.
LEMMA ReapStep ==
    ASSUME ConstantsOK, Credit, RingInv, SqdInv, Reap
    PROVE  RingInv' /\ SqdInv'
<1>0. /\ UNCHANGED <<state, ringVars, hwVars, sqdVars, post_send_count, post, offered, sent>>
      /\ TypeOK /\ poll.pc = "reap" /\ send_cq_db_local # poll.head /\ reaped' = reaped + 1
      /\ send_cq_db_local' = WrapLocal(send_cq_db_local) + 1
  BY DEF Reap, RingInv
<1>1. /\ offered \in Nat /\ sq_polled_count \in Nat /\ poll \in PollType
      /\ sq_drained \in BOOLEAN /\ bad_free \in BOOLEAN /\ bufs \in SUBSET Int
  BY <1>0 DEF TypeOK, PollType
<1>2. Len(executed) \in Nat /\ Len(sent) \in Nat /\ reaped \in Nat
  BY Counts
<1>3. PICK k \in Nat : k = reaped + 1
  BY <1>2
<1>4. /\ k \in reaped + 1 .. Len(executed) /\ WrapLocal(send_cq_db_local) + 1 = RingPtr(k)
      /\ \E h \in k .. Len(executed) : poll.head = RingPtr(h)
  BY <1>0, <1>3, ReapFinds
<1>5. send_wcs' \in Seq([wr_id : Int, err : BOOLEAN]) /\ ReportInv'
  BY ReapReports
<1>6. /\ reaped' = k /\ send_cq_db_local' = RingPtr(k) /\ RingPtr(k) \in 0 .. sq_max_wr
      /\ k <= Len(executed)
  BY <1>0, <1>2, <1>3, <1>4, RingFacts
<1>7. poll' \in PollType /\ poll'.pc = "reap" /\ poll'.head = poll.head
  <2>1. poll' = poll \/ poll' = [poll EXCEPT !.i = poll.i + 1]
    BY DEF Reap
  <2> QED
    BY <1>0, <1>1, <2>1 DEF PollType
<1>8. TypeOK'
  <2>1. bufs' \in SUBSET Int
    <3>1. bufs' = bufs \/ \E b : bufs' = bufs \ {b}
      BY DEF Reap
    <3> QED
      BY <1>1, <3>1
  <2>2. bad_free' \in BOOLEAN /\ sq_drained' \in BOOLEAN
    BY <1>1, Zenon DEF Reap
  <2>3. sq_polled_count' \in Nat
    <3>1. sq_polled_count' = sq_polled_count + 1 \/ sq_polled_count' = sq_polled_count
      BY DEF Reap
    <3> QED
      BY <1>1, <3>1
  <2>4. reaped' \in Nat /\ send_cq_db_local' \in 0 .. sq_max_wr
    BY <1>3, <1>6
  <2> QED
    BY <1>0, <1>5, <1>7, <2>1, <2>2, <2>3, <2>4
       DEF TypeOK, PollType, ringVars, hwVars, sqdVars
<1>9. /\ sent' = sent /\ executed' = executed /\ post' = post /\ offered' = offered
      /\ wqe' = wqe /\ wr_id_array' = wr_id_array /\ cqe' = cqe
      /\ SQ_PROD_IDX' = SQ_PROD_IDX /\ CQ_HEAD_PTR' = CQ_HEAD_PTR
      /\ sq_cmpl_db_local' = sq_cmpl_db_local
  BY <1>0 DEF ringVars, hwVars
<1>10. CountInv'
  <2>1. /\ Len(executed) <= Len(sent) /\ Len(sent) <= reaped + SendCredit
        /\ post.pc \in {"wr", "bell"} => Len(sent) + post.left <= reaped + SendCredit
        /\ post.pc \in {"wr", "bell", "sqd"} => post.left > 0
    BY DEF RingInv, CountInv
  <2>2. SendCredit \in Nat /\ post.left \in Nat
    BY <1>0 DEF ConstantsOK, TypeOK
  <2>3. Len(sent) <= k + SendCredit
    BY <1>2, <1>3, <2>1, <2>2
  <2>4. post.pc \in {"wr", "bell"} => Len(sent) + post.left <= k + SendCredit
    <3>1. Len(sent) + post.left <= reaped + SendCredit => Len(sent) + post.left <= k + SendCredit
      BY <1>2, <1>3, <2>2
    <3> QED
      BY <2>1, <3>1
  <2> QED
    BY <1>6, <1>9, <2>1, <2>3, <2>4 DEF CountInv
<1>11. CursorInv'
  BY <1>4, <1>6, <1>7, <1>9 DEF RingInv, CursorInv, RingPtr
<1>12. NameInv'
  BY <1>9 DEF RingInv, NameInv
<1>13. ASSUME NEW n \in Nat, NEW j \in k + 1 .. n PROVE j \in reaped + 1 .. n
  BY <1>2, <1>3
<1>14. EntryInv'
  <2>1. ASSUME NEW j \in k + 1 .. Len(sent) PROVE EntryHolds(j, sent[j])'
    <3>1. EntryHolds(j, sent[j])
      BY <1>2, <1>13 DEF RingInv, EntryInv
    <3> QED
      BY <1>9, <3>1 DEF EntryHolds
  <2>2. post'.pc = "bell" => EntryHolds(Len(sent) + 1, post.req)'
    BY <1>9 DEF RingInv, EntryInv, EntryHolds
  <2> QED
    BY <1>6, <1>9, <2>1, <2>2 DEF EntryInv
<1>15. CqeInv'
  <2>1. ASSUME NEW j \in k + 1 .. Len(executed)
        PROVE  /\ cqe[(j - 1) % sq_max_wr].opcode = executed[j].opcode
               /\ cqe[(j - 1) % sq_max_wr].err = executed[j].err
    BY <1>2, <1>13 DEF RingInv, CqeInv
  <2> QED
    BY <1>6, <1>9, <2>1 DEF CqeInv
<1>16. ExecutedInOrder'
  BY <1>9 DEF RingInv, ExecutedInOrder
<1>17. SqdInv'
  <2>1. offered' \in Nat /\ offered <= offered'
    BY <1>1, <1>9
  <2> QED
    BY <1>0, <2>1, SqdKept DEF sqdVars
<1> QED
  BY <1>5, <1>8, <1>10, <1>11, <1>12, <1>14, <1>15, <1>16, <1>17 DEF RingInv

\* Every step keeps the ring and the list of state SQD in order.
LEMMA SendStep ==
    ASSUME ConstantsOK, Credit, RingInv, SqdInv, [Next]_vars
    PROVE  RingInv' /\ SqdInv'
<1>1. CASE UNCHANGED vars
  <2>0. TypeOK /\ CountInv
    BY DEF RingInv
  <2>1. TypeOK'
    BY <1>1, <2>0 DEF vars, ringVars, hwVars, sqdVars, reapVars, TypeOK
  <2>2. CountInv'
    BY <1>1, <2>0 DEF vars, hwVars, reapVars, CountInv
  <2>3. offered <= offered' /\ offered' \in Nat
    BY <1>1, <2>0 DEF vars, TypeOK
  <2>4. poll'.pc = "reap" => \E h \in reaped .. Len(executed) : poll'.head = RingPtr(h)
    BY <1>1 DEF vars, RingInv, CursorInv
  <2>5. /\ UNCHANGED <<ringVars, hwVars, reapVars, sent>>
        /\ UNCHANGED <<sqd_wr_list, sqd_length, flush_wcs>> /\ post' = post
    BY <1>1 DEF vars, sqdVars
  <2> QED
    BY <2>0, <2>1, <2>2, <2>3, <2>4, <2>5, RingKept, SqdKept
<1>2. CASE \E new \in QpStates : xrnic_qp_modify(new)
  BY <1>2, ModifyStep
<1>3. CASE \E n \in 1 .. MaxChain : PostBegin(n)
  BY <1>3, PostBeginStep
<1>4. CASE PostStep
  BY <1>4, PostWrStep, PostWrFailsStep, SendWrStep, PostSqdStep DEF PostStep
<1>5. CASE \E err \in BOOLEAN : HwComplete(err)
  BY <1>5, HwCompleteStep
<1>6. CASE \E n \in 1 .. MaxEntries : PollBegin(n)
  BY <1>6, PollBeginStep
<1>7. CASE PollStep
  BY <1>7, ReapStep, PollRestStep DEF PollStep
<1> QED
  BY <1>1, <1>2, <1>3, <1>4, <1>5, <1>6, <1>7 DEF Next
-----------------------------------------------------------------------------
(* The staging buffers. *)

\* A step that allocates, frees, posts and reaps nothing.
LEMMA BufferKept ==
    ASSUME BufferInv, UNCHANGED <<pl_buf_list, bufs, sent, reaped, bad_free>>,
           post'.pc = "bell" => post' = post
    PROVE  BufferInv'
<1>1. \A k \in reaped + 1 .. Len(sent) : BufferHolds(k, sent[k])'
  BY DEF BufferInv, BufferHolds
<1>2. post'.pc = "bell" => BufferHolds(Len(sent) + 1, post.req)'
  BY DEF BufferInv, BufferHolds
<1> QED
  BY <1>1, <1>2 DEF BufferInv, NoBadFree

\* A store in the free entry keeps the buffers of the requests in flight.
LEMMA BuffersStay ==
    ASSUME ConstantsOK, Credit, RingInv, BufferInv, post.pc = "wr", sent' = sent,
           reaped' = reaped, bufs \subseteq bufs',
           \A s \in Slots \ {sq_cmpl_db_local} : pl_buf_list'[s] = pl_buf_list[s]
    PROVE  \A k \in reaped' + 1 .. Len(sent') : BufferHolds(k, sent[k])'
<1> SUFFICES ASSUME NEW k \in reaped + 1 .. Len(sent) PROVE BufferHolds(k, sent[k])'
  OBVIOUS
<1>1. PICK s \in Slots : s = (k - 1) % sq_max_wr /\ s # sq_cmpl_db_local
  BY EntryFree
<1>2. pl_buf_list'[s] = pl_buf_list[s]
  BY <1>1
<1>3. BufferHolds(k, sent[k])
  BY DEF BufferInv
<1> QED
  BY <1>1, <1>2, <1>3 DEF BufferHolds

\* A send stages its data before its doorbell.
LEMMA BufferPostWr ==
    ASSUME ConstantsOK, Credit, RingInv, BufferInv, NEW op \in Opcodes,
           NEW signaled \in BOOLEAN, PostWr(op, signaled)
    PROVE  BufferInv'
<1>0. /\ post.pc = "wr" /\ sent' = sent /\ reaped' = reaped /\ bad_free' = bad_free
      /\ post \in PostType /\ sq_cmpl_db_local \in Slots /\ offered \in Nat
      /\ pl_buf_list \in [Slots -> Int] /\ sq_cmpl_db_local = Len(sent) % sq_max_wr
  BY DEF PostWr, RingInv, TypeOK, PostType, CursorInv, reapVars
<1>1. PICK req : req = [wr_id |-> offered, opcode |-> WqeOpcode(op), signaled |-> signaled]
  OBVIOUS
<1>2. req.wr_id = offered /\ req.opcode = WqeOpcode(op)
  BY <1>1
<1>3. post' = [post EXCEPT !.pc = "bell", !.req = req]
  BY <1>1 DEF PostWr
<1>4. post'.req = req
  BY <1>0, <1>3 DEF PostType
<1>5. \A k \in reaped' + 1 .. Len(sent') : BufferHolds(k, sent[k])'
  <2>1. bufs \subseteq bufs'
    BY DEF PostWr
  <2>2. \A s \in Slots \ {sq_cmpl_db_local} : pl_buf_list'[s] = pl_buf_list[s]
    BY <1>0 DEF PostWr
  <2> QED
    BY <1>0, <2>1, <2>2, BuffersStay
<1>6. BufferHolds(Len(sent) + 1, post.req)'
  <2>1. req.opcode = XRNIC_SEND_ONLY =>
            offered \in bufs' /\ pl_buf_list'[sq_cmpl_db_local] = offered
    <3> SUFFICES ASSUME req.opcode = XRNIC_SEND_ONLY
                 PROVE  offered \in bufs' /\ pl_buf_list'[sq_cmpl_db_local] = offered
      OBVIOUS
    <3>1. op = "IB_WR_SEND"
      BY <1>2, OpcodeValues DEF ConstantsOK
    <3>2. /\ bufs' = bufs \cup {offered}
          /\ pl_buf_list' = [pl_buf_list EXCEPT ![sq_cmpl_db_local] = offered]
      BY <3>1 DEF PostWr
    <3> QED
      BY <1>0, <3>2
  <2>2. ((Len(sent) + 1) - 1) % sq_max_wr = sq_cmpl_db_local
    <3>1. Len(sent) \in Nat
      BY Counts
    <3>2. (Len(sent) + 1) - 1 = Len(sent)
      BY <3>1
    <3> QED
      BY <1>0, <3>2
  <2>3. req.opcode \in {WqeOpcode(o) : o \in Opcodes}
    BY <1>2
  <2> QED
    BY <1>0, <1>2, <1>4, <2>1, <2>2, <2>3 DEF BufferHolds
<1> QED
  BY <1>0, <1>5, <1>6 DEF BufferInv, NoBadFree

\* A send that fails stores in the free entry only.
LEMMA BufferPostWrFails ==
    ASSUME ConstantsOK, Credit, RingInv, BufferInv, NEW signaled \in BOOLEAN,
           NEW why \in Failures, PostWrFails(signaled, why)
    PROVE  BufferInv'
<1>0. /\ post.pc = "wr" /\ sent' = sent /\ reaped' = reaped /\ bad_free' = bad_free
      /\ pl_buf_list \in [Slots -> Int]
  BY DEF PostWrFails, RingInv, TypeOK, reapVars
<1>1. post'.pc = "idle"
  BY PostTypes DEF PostWrFails, PostFailed
<1>2. bufs \subseteq bufs'
  BY DEF PostWrFails
<1>3. \A s \in Slots \ {sq_cmpl_db_local} : pl_buf_list'[s] = pl_buf_list[s]
  BY <1>0 DEF PostWrFails
<1>4. \A k \in reaped' + 1 .. Len(sent') : BufferHolds(k, sent[k])'
  BY <1>0, <1>2, <1>3, BuffersStay
<1> QED
  BY <1>0, <1>1, <1>4 DEF BufferInv, NoBadFree

\* The doorbell hands the entry over with its buffer.
LEMMA BufferSendWr ==
    ASSUME ConstantsOK, Credit, RingInv, BufferInv, xrnic_send_wr
    PROVE  BufferInv'
<1>0. /\ post.pc = "bell" /\ pl_buf_list' = pl_buf_list /\ bufs' = bufs /\ reaped' = reaped
      /\ bad_free' = bad_free /\ sent \in Seq(Request) /\ post \in PostType
  BY DEF xrnic_send_wr, RingInv, TypeOK, PostType, reapVars
<1>1. PICK req \in Request : req = post.req
  BY <1>0 DEF PostType
<1>2. PICK c \in Nat : c = Len(sent)
  BY Counts
<1>3. /\ Len(sent') = c + 1 /\ sent'[c + 1] = req /\ \A k \in 1 .. c : sent'[k] = sent[k]
  BY <1>0, <1>1, <1>2, SentOneMore DEF xrnic_send_wr
<1>4. reaped \in Nat
  BY Counts
<1>5. post'.pc # "bell"
  <2>1. CASE post.left = 1
    BY <2>1, PostTypes DEF xrnic_send_wr
  <2>2. CASE post.left # 1
    BY <2>2 DEF xrnic_send_wr
  <2> QED
    BY <2>1, <2>2
<1>6. ASSUME NEW k \in reaped + 1 .. c + 1 PROVE BufferHolds(k, sent[k])'
  <2>0. k \in reaped + 1 .. c \/ k = c + 1
    BY <1>4
  <2>1. CASE k \in reaped + 1 .. c
    <3>1. k \in 1 .. c
      BY <1>4, <2>1
    <3>2. BufferHolds(k, sent[k]) /\ sent'[k] = sent[k]
      BY <1>2, <1>3, <2>1, <3>1 DEF BufferInv
    <3> QED
      BY <1>0, <3>2 DEF BufferHolds
  <2>2. CASE k = c + 1
    <3>1. BufferHolds(c + 1, req)
      BY <1>0, <1>1, <1>2 DEF BufferInv
    <3> QED
      BY <1>0, <1>3, <2>2, <3>1 DEF BufferHolds
  <2> QED
    BY <2>0, <2>1, <2>2
<1> QED
  BY <1>0, <1>3, <1>5, <1>6 DEF BufferInv, NoBadFree

\* A completion returns the buffer of its own request and of no other.
LEMMA BufferReap ==
    ASSUME ConstantsOK, Credit, FreesOnlyStaged, RingInv, BufferInv, Reap
    PROVE  BufferInv'
<1>0. /\ poll.pc = "reap" /\ send_cq_db_local # poll.head /\ reaped' = reaped + 1
      /\ sent' = sent /\ pl_buf_list' = pl_buf_list /\ post' = post
      /\ post \in PostType
  BY DEF Reap, RingInv, TypeOK, PostType, ringVars
<1>1. PICK c \in Nat : c = Len(sent)
  BY Counts
<1>2. reaped \in Nat
  BY Counts
<1>3. PICK m \in Nat : m = reaped + 1
  BY <1>2
<1>4. PICK s : s = WrapLocal(send_cq_db_local)
  OBVIOUS
<1>5. /\ m \in reaped + 1 .. c /\ m \in 1 .. c /\ s = (m - 1) % sq_max_wr
      /\ cqe[s].opcode = sent[m].opcode
  BY <1>0, <1>1, <1>3, <1>4, ReapFinds
<1>6. BufferHolds(m, sent[m])
  BY <1>1, <1>5 DEF BufferInv
<1>7. FreesBuffer(sent[m].opcode) => sent[m].opcode = XRNIC_SEND_ONLY
  <2>1. PICK op \in Opcodes : sent[m].opcode = WqeOpcode(op)
    BY <1>6 DEF BufferHolds
  <2>2. ~SqMemIsPs => op # "IB_WR_RDMA_READ" /\ op # "IB_WR_RDMA_WRITE"
    BY <2>1 DEF FreesOnlyStaged
  <2>3. /\ WqeOpcode(op) = XRNIC_RDMA_READ <=> op = "IB_WR_RDMA_READ"
        /\ WqeOpcode(op) = XRNIC_RDMA_WRITE <=> op = "IB_WR_RDMA_WRITE"
    BY OpcodeValues DEF ConstantsOK
  <2> QED
    BY <2>1, <2>2, <2>3 DEF FreesBuffer
<1>8. /\ bufs' = bufs \/ (bufs' = bufs \ {sent[m].wr_id})
      /\ bad_free' = bad_free
  <2>0. bad_free = FALSE /\ bad_free \in BOOLEAN
    BY DEF BufferInv, NoBadFree, RingInv, TypeOK
  <2>1. CASE FreesBuffer(cqe[s].opcode)
    <3>1. pl_buf_list[s] = sent[m].wr_id /\ sent[m].wr_id \in bufs
      BY <1>5, <1>6, <1>7, <2>1 DEF BufferHolds
    <3>2. /\ bufs' = bufs \ {pl_buf_list[s]}
          /\ bad_free' = (bad_free \/ (TRUE /\ pl_buf_list[s] \notin bufs))
      BY <1>4, <2>1 DEF Reap
    <3> QED
      BY <2>0, <3>1, <3>2
  <2>2. CASE ~FreesBuffer(cqe[s].opcode)
    <3>1. bufs' = bufs /\ bad_free' = (bad_free \/ (FALSE /\ pl_buf_list[s] \notin bufs))
      BY <1>4, <2>2 DEF Reap
    <3> QED
      BY <2>0, <3>1
  <2> QED
    BY <2>1, <2>2
<1>9. ASSUME NEW x \in bufs, x # sent[m].wr_id PROVE x \in bufs'
  BY <1>8, <1>9
<1>10. \A k \in 1 .. c : sent[k] \in Request
  BY <1>1 DEF RingInv, TypeOK
<1>11. ASSUME NEW k \in m + 1 .. c PROVE BufferHolds(k, sent[k])'
  <2>1. k \in reaped + 1 .. c /\ k \in 1 .. c /\ m < k
    BY <1>2, <1>3
  <2>2. BufferHolds(k, sent[k])
    BY <1>1, <2>1 DEF BufferInv
  <2>3. sent[m].wr_id < sent[k].wr_id /\ sent[m].wr_id \in Int /\ sent[k].wr_id \in Int
    BY <1>1, <1>5, <1>10, <2>1 DEF RingInv, NameInv, Request
  <2>4. sent[k].wr_id # sent[m].wr_id
    BY <2>3
  <2> QED
    BY <1>0, <1>9, <2>2, <2>4 DEF BufferHolds
<1>12. ASSUME post.pc = "bell" PROVE BufferHolds(Len(sent) + 1, post.req)'
  <2>1. BufferHolds(Len(sent) + 1, post.req)
    BY <1>12 DEF BufferInv
  <2>2. sent[m].wr_id < post.req.wr_id /\ sent[m].wr_id \in Int /\ post.req.wr_id \in Int
    <3>1. post.req \in Request /\ sent[m] \in Request
      BY <1>0, <1>5, <1>10 DEF PostType
    <3>2. sent[m].wr_id < post.req.wr_id
      BY <1>1, <1>5, <1>12 DEF RingInv, NameInv
    <3> QED
      BY <3>1, <3>2 DEF Request
  <2>3. post.req.wr_id # sent[m].wr_id
    BY <2>2
  <2> QED
    BY <1>0, <1>9, <2>1, <2>3 DEF BufferHolds
<1> QED
  BY <1>0, <1>1, <1>3, <1>8, <1>11, <1>12 DEF BufferInv, NoBadFree

\* Every step keeps the staging buffers of the requests in flight.
LEMMA BufferStep ==
    ASSUME ConstantsOK, Credit, FreesOnlyStaged, RingInv, BufferInv, [Next]_vars
    PROVE  BufferInv'
<1>1. CASE UNCHANGED vars
  BY <1>1, BufferKept DEF vars, ringVars, reapVars
<1>2. CASE \E new \in QpStates : xrnic_qp_modify(new)
  BY <1>2, BufferKept DEF xrnic_qp_modify, ringVars, reapVars
<1>3. CASE \E n \in 1 .. MaxChain : PostBegin(n)
  <2>1. post'.pc # "bell"
    BY <1>3 DEF PostBegin
  <2> QED
    BY <1>3, <2>1, BufferKept DEF PostBegin, ringVars, reapVars
<1>4. CASE PostSqd \/ PostSqdFails
  <2>1. post'.pc # "bell"
    BY <1>4, PostTypes DEF PostSqd, PostSqdFails
  <2> QED
    BY <1>4, <2>1, BufferKept DEF PostSqd, PostSqdFails, ringVars, reapVars
<1>5. CASE PostStep /\ ~(PostSqd \/ PostSqdFails)
  BY <1>5, BufferPostWr, BufferPostWrFails, BufferSendWr DEF PostStep
<1>6. CASE \E err \in BOOLEAN : HwComplete(err)
  BY <1>6, BufferKept DEF HwComplete, ringVars, reapVars
<1>7. CASE \E n \in 1 .. MaxEntries : PollBegin(n)
  BY <1>7, BufferKept DEF PollBegin, ringVars, reapVars
<1>8. CASE Reap
  BY <1>8, BufferReap
<1>9. CASE ReapDone \/ Flush \/ FlushDone
  BY <1>9, BufferKept DEF ReapDone, Flush, FlushDone, ringVars, reapVars
<1> QED
  BY <1>1, <1>2, <1>3, <1>4, <1>5, <1>6, <1>7, <1>8, <1>9 DEF Next, PollStep
-----------------------------------------------------------------------------
(* What follows. *)

\* The invariant of the ring and of the list of state SQD holds in every
\* reachable state of a queue whose consumer keeps one entry free.
THEOREM SendInvariant ==
    ASSUME ConstantsOK, Credit
    PROVE  Spec => [](RingInv /\ SqdInv)
<1>1. Init => RingInv /\ SqdInv
  BY SendInit
<1>2. RingInv /\ SqdInv /\ [Next]_vars => (RingInv /\ SqdInv)'
  BY SendStep
<1> QED
  BY <1>1, <1>2, PTL DEF Spec

\* The local index, the doorbell and the positions of the poll never leave the
\* ring, and every stored value keeps its type.
THEOREM SendTypeCorrect ==
    ASSUME ConstantsOK, Credit
    PROVE  Spec => []TypeOK
<1>1. RingInv => TypeOK
  BY DEF RingInv
<1> QED
  BY <1>1, SendInvariant, PTL

\* The reports as the two sets that SendInOrder compares.
LEMMA ReportsAreReaped ==
    ASSUME RingInv
    PROVE  SendInOrder
<1> DEFINE Wcs == {send_wcs[j] : j \in 1 .. Len(send_wcs)}
           Reported == {<<w.wr_id, w.err>> : w \in Wcs}
           Signaled == {m \in 1 .. reaped : sent[m].signaled}
           Completed == {<<executed[k].wr_id, executed[k].err>> : k \in Signaled}
<1>0. \A k \in 1 .. reaped : sent[k].signaled \in BOOLEAN
  <2>1. sent \in Seq(Request) /\ reaped \in Nat /\ Len(sent) \in Nat
    BY Counts DEF RingInv, TypeOK
  <2>2. Len(executed) \in Nat /\ reaped <= Len(executed) /\ Len(executed) <= Len(sent)
    BY Counts DEF RingInv, CountInv
  <2>3. ASSUME NEW k \in 1 .. reaped PROVE k \in 1 .. Len(sent)
    BY <2>1, <2>2
  <2>4. ASSUME NEW k \in 1 .. reaped PROVE sent[k] \in Request
    BY <2>1, <2>3, ElementOfSeq
  <2> QED
    BY <2>4 DEF Request
<1>1. ASSUME NEW x \in Reported PROVE x \in Completed
  <2>1. PICK j \in 1 .. Len(send_wcs) : x = <<send_wcs[j].wr_id, send_wcs[j].err>>
    OBVIOUS
  <2>2. PICK k \in 1 .. reaped :
          /\ sent[k].signaled = TRUE
          /\ send_wcs[j].wr_id = executed[k].wr_id /\ send_wcs[j].err = executed[k].err
    BY DEF RingInv, ReportInv
  <2>3. k \in Signaled
    BY <2>2
  <2> QED
    BY <2>1, <2>2, <2>3
<1>2. ASSUME NEW x \in Completed PROVE x \in Reported
  <2>1. PICK k \in Signaled : x = <<executed[k].wr_id, executed[k].err>>
    OBVIOUS
  <2>2. k \in 1 .. reaped /\ sent[k].signaled = TRUE
    BY <1>0, <2>1
  <2>3. PICK j \in 1 .. Len(send_wcs) :
          send_wcs[j].wr_id = executed[k].wr_id /\ send_wcs[j].err = executed[k].err
    BY <2>2 DEF RingInv, ReportInv
  <2>4. send_wcs[j] \in Wcs
    OBVIOUS
  <2> QED
    BY <2>1, <2>3, <2>4
<1>3. Reported = Completed
  BY <1>1, <1>2
<1>4. \A j, k \in 1 .. Len(send_wcs) : j < k => send_wcs[j].wr_id < send_wcs[k].wr_id
  BY DEF RingInv, ReportInv
<1> QED
  BY <1>3, <1>4 DEF SendInOrder

\* The hardware executes the posted requests, each once and in order, whatever
\* chains are posted while it runs (xrnic_send_wr); the poll never reaps ahead
\* of it and reports exactly the signaled requests among the reaped ones, in
\* posting order and with their outcome (xib_poll_kernel_cq).
THEOREM SendOrderCorrect ==
    ASSUME ConstantsOK, Credit
    PROVE  Spec => [](ExecutedInOrder /\ SendInOrder /\ ReapBehindHardware)
<1>1. RingInv => ExecutedInOrder /\ SendInOrder /\ ReapBehindHardware
  BY ReportsAreReaped DEF RingInv, CountInv, ReapBehindHardware
<1> QED
  BY <1>1, SendInvariant, PTL

\* The list of state SQD and the requests flushed from it, as one list.
LEMMA ListInOrder ==
    ASSUME TypeOK, SqdInv
    PROVE  SqdFlushInOrder
<1>0. flush_wcs \in Seq(Int) /\ sqd_wr_list \in Seq(Int)
  BY DEF TypeOK
<1>1. PICK f \in Nat : f = Len(flush_wcs)
  BY <1>0
<1>2. PICK m \in Nat : m = Len(sqd_wr_list)
  BY <1>0
<1>3. PICK all : all = flush_wcs \o sqd_wr_list
  OBVIOUS
<1>4. /\ Len(all) = f + m
      /\ \A j \in 1 .. f + m : all[j] = IF j <= f THEN flush_wcs[j] ELSE sqd_wr_list[j - f]
  BY <1>0, <1>1, <1>2, <1>3, ConcatProperties
<1>5. ASSUME NEW j \in 1 .. f + m, NEW k \in 1 .. f + m, j < k PROVE all[j] < all[k]
  <2>1. CASE k <= f
    <3>1. j \in 1 .. f /\ k \in 1 .. f /\ j <= f
      BY <1>1, <1>5, <2>1
    <3> QED
      BY <1>1, <1>4, <1>5, <2>1, <3>1 DEF SqdInv
  <2>2. CASE j <= f /\ ~(k <= f)
    <3>1. j \in 1 .. f /\ k - f \in 1 .. m
      BY <1>1, <1>2, <2>2
    <3>2. flush_wcs[j] < sqd_wr_list[k - f]
      BY <1>1, <1>2, <3>1 DEF SqdInv
    <3> QED
      BY <1>4, <2>2, <3>2
  <2>3. CASE ~(j <= f)
    <3>1. j - f \in 1 .. m /\ k - f \in 1 .. m /\ j - f < k - f /\ ~(k <= f)
      BY <1>1, <1>2, <1>5, <2>3
    <3>2. sqd_wr_list[j - f] < sqd_wr_list[k - f]
      BY <1>2, <3>1 DEF SqdInv
    <3> QED
      BY <1>4, <2>3, <3>1, <3>2
  <2> QED
    BY <2>1, <2>2, <2>3
<1> QED
  BY <1>3, <1>4, <1>5 DEF SqdFlushInOrder, SqdInv

\* The requests linked in state SQD are flushed once and in order, and the
\* length that limits the list is exact, also after an allocation of a node
\* failed in the middle of a chain.
THEOREM SendSqdList ==
    ASSUME ConstantsOK, Credit
    PROVE  Spec => []SqdFlushInOrder
<1>1. RingInv /\ SqdInv => SqdFlushInOrder
  BY ListInOrder DEF RingInv
<1> QED
  BY <1>1, SendInvariant, PTL

\* The staging buffer of a send stays allocated until the send is reaped, and
\* each is freed once, also when requests fail in the middle of a post: if the
\* queue is in processor memory or the consumer uses neither reads nor writes.
THEOREM SendBuffersSafe ==
    ASSUME ConstantsOK, Credit, FreesOnlyStaged
    PROVE  Spec => [](InFlightBuffersLive /\ NoBadFree)
<1>1. Init => BufferInv
  BY SendInit
<1>2. RingInv /\ BufferInv /\ [Next]_vars => BufferInv'
  BY BufferStep
<1>3. BufferInv => InFlightBuffersLive /\ NoBadFree
  BY DEF BufferInv, BufferHolds, InFlightBuffersLive
<1> QED
  BY <1>1, <1>2, <1>3, SendInvariant, PTL DEF Spec
=============================================================================
