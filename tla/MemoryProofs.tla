---------------------------- MODULE MemoryProofs ----------------------------
(***************************************************************************)
(* What the two memory managers keep: the kernel's (XibKmm), for every     *)
(* region, page size and number of processes, and the user's (XibUmm, on   *)
(* the bit maps of UmmBitOps), for every chunk and block size and number   *)
(* of threads.                                                             *)
(***************************************************************************)
EXTENDS MCXibKmm, MCXibUmm, RingLemmas, SequenceTheorems, FiniteSetTheorems

-----------------------------------------------------------------------------
(* The kernel memory manager: lists and sums.                              *)

\* The list with an entry put after the k-th.
LEMMA InsertProperties ==
    ASSUME NEW S, NEW s \in Seq(S), NEW k \in 0 .. Len(s), NEW e \in S
    PROVE  /\ InsertAt(s, k + 1, e) \in Seq(S)
           /\ Len(InsertAt(s, k + 1, e)) = Len(s) + 1
           /\ \A j \in 1 .. Len(s) + 1 : InsertAt(s, k + 1, e)[j] =
                 IF j <= k THEN s[j] ELSE IF j = k + 1 THEN e ELSE s[j - 1]
<1>1. InsertAt(s, k + 1, e) = Inserted(s, k, e)
  <2>1. (k + 1) - 1 = k
    OBVIOUS
  <2> QED
    BY <2>1 DEF InsertAt, Inserted
<1> QED
  BY <1>1, ListInsert

\* The list without its k-th entry.
LEMMA RemoveProperties ==
    ASSUME NEW S, NEW s \in Seq(S), NEW k \in 1 .. Len(s)
    PROVE  /\ RemoveAt(s, k) \in Seq(S)
           /\ Len(RemoveAt(s, k)) = Len(s) - 1
           /\ \A j \in 1 .. Len(s) - 1 :
                 RemoveAt(s, k)[j] = IF j < k THEN s[j] ELSE s[j + 1]
<1>1. RemoveAt(s, k) = Removed(s, k)
  BY DEF RemoveAt, Removed
<1> QED
  BY <1>1, ListRemove

-----------------------------------------------------------------------------
\* f adds the sizes of a list up from its beginning.
IsSum(list, f) ==
    /\ f \in [0 .. Len(list) -> Int]
    /\ f[0] = 0
    /\ \A k \in 1 .. Len(list) : f[k] = f[k - 1] + list[k].size

Entry == [start : Nat, size : Nat, id : 0 .. IdMod - 1]

LEMMA EntryTyped ==
    ASSUME NEW list \in Seq(Entry)
    PROVE  /\ Len(list) \in Nat
           /\ \A k \in 1 .. Len(list) : /\ list[k] \in Entry
                                       /\ list[k].start \in Nat
                                       /\ list[k].size \in Nat
                                       /\ list[k].id \in 0 .. IdMod - 1
<1>1. ASSUME NEW k \in 1 .. Len(list) PROVE list[k] \in Entry
  OBVIOUS
<1>2. ASSUME NEW e \in Entry
      PROVE  e.start \in Nat /\ e.size \in Nat /\ e.id \in 0 .. IdMod - 1
  BY DEF Entry
<1> QED
  BY <1>1, <1>2

\* TotalSize is what any such function has at the end of the list.
LEMMA TotalSizeIs ==
    ASSUME NEW list \in Seq(Entry), NEW f, IsSum(list, f)
    PROVE  TotalSize(list) = f[Len(list)]
<1> DEFINE n == Len(list)
           Eqn(g) == g = [k \in 0 .. n |-> IF k = 0 THEN 0 ELSE g[k - 1] + list[k].size]
<1>0. n \in Nat /\ \A k \in 1 .. n : list[k].size \in Nat
  BY EntryTyped
<1>1. Eqn(f)
  <2>1. f = [k \in 0 .. n |-> f[k]]
    BY DEF IsSum
  <2>2. ASSUME NEW k \in 0 .. n PROVE f[k] = IF k = 0 THEN 0 ELSE f[k - 1] + list[k].size
    BY DEF IsSum
  <2> DEFINE F == [k \in 0 .. n |-> IF k = 0 THEN 0 ELSE f[k - 1] + list[k].size]
  <2>3. F = [k \in 0 .. n |-> f[k]]
    BY <2>2
  <2> QED
    BY <2>1, <2>3
<1> DEFINE h == CHOOSE g : Eqn(g)
<1>2. Eqn(h)
  BY <1>1
<1>3. TotalSize(list) = h[n]
  BY DEF TotalSize
<1> HIDE DEF h
<1>4. /\ h[0] = 0
      /\ \A k \in 1 .. n : h[k] = h[k - 1] + list[k].size
  <2>1. \A k \in 0 .. n : h[k] = IF k = 0 THEN 0 ELSE h[k - 1] + list[k].size
    BY <1>2
  <2> QED
    BY <2>1, <1>0
<1>5. f[0] = 0 /\ \A k \in 1 .. n : f[k] = f[k - 1] + list[k].size
  BY DEF IsSum
<1> DEFINE D == {k \in 0 .. n : f[k] # h[k]}
<1>6. D = {}
  <2>1. SUFFICES ASSUME D # {} PROVE FALSE
    OBVIOUS
  <2>2. PICK k \in D : \A m \in D : k <= m
    <3>1. D \in SUBSET Nat
      OBVIOUS
    <3> QED
      BY <2>1, <3>1, LeastElement
  <2>3. k # 0
    BY <1>4, <1>5
  <2>4. k \in 1 .. n /\ k - 1 \in 0 .. n
    BY <2>3, <1>0
  <2>5. k - 1 \notin D
    BY <2>2, <2>4
  <2>6. f[k - 1] = h[k - 1]
    BY <2>4, <2>5
  <2>7. f[k] = h[k]
    BY <2>4, <2>6, <1>4, <1>5
  <2> QED
    BY <2>7
<1> QED
  BY <1>0, <1>3, <1>6

\* l is the list s with e put after the k-th entry.
IsInserted(l, s, k, e) ==
    /\ Len(l) = Len(s) + 1
    /\ \A j \in 1 .. Len(s) + 1 :
          l[j] = IF j <= k THEN s[j] ELSE IF j = k + 1 THEN e ELSE s[j - 1]

LEMMA InsertAtInserts ==
    ASSUME NEW S, NEW s \in Seq(S), NEW k \in 0 .. Len(s), NEW e \in S
    PROVE  /\ InsertAt(s, k + 1, e) \in Seq(S)
           /\ IsInserted(InsertAt(s, k + 1, e), s, k, e)
BY InsertProperties DEF IsInserted

\* What an entry adds to the sum, wherever it is put in.
LEMMA InsertSum ==
    ASSUME NEW list \in Seq(Entry), NEW f, IsSum(list, f),
           NEW k \in 0 .. Len(list), NEW e \in Entry
    PROVE  \E g : /\ IsSum(InsertAt(list, k + 1, e), g)
                  /\ g[Len(list) + 1] = f[Len(list)] + e.size
<1> DEFINE n == Len(list)
           l == InsertAt(list, k + 1, e)
           g == [j \in 0 .. n + 1 |-> IF j <= k THEN f[j] ELSE f[j - 1] + e.size]
<1>0. n \in Nat /\ e.size \in Nat
  BY DEF Entry
<1>1. /\ l \in Seq(Entry) /\ Len(l) = n + 1
      /\ \A j \in 1 .. n + 1 :
            l[j] = IF j <= k THEN list[j] ELSE IF j = k + 1 THEN e ELSE list[j - 1]
  <2>1. l \in Seq(Entry) /\ IsInserted(l, list, k, e)
    BY InsertAtInserts
  <2> HIDE DEF g, l
  <2> QED
    BY <2>1 DEF IsInserted
<1> HIDE DEF l
<1>2. g \in [0 .. n + 1 -> Int]
  BY <1>0 DEF IsSum
<1>3. ASSUME NEW j \in 1 .. n + 1 PROVE g[j] = g[j - 1] + l[j].size
  <2>0. \A i \in 0 .. n : f[i] \in Int
    BY DEF IsSum
  <2>1. CASE j <= k
    <3>1. g[j] = f[j] /\ g[j - 1] = f[j - 1] /\ l[j] = list[j] /\ j \in 1 .. n
      BY <2>1, <1>0, <1>1
    <3> QED
      BY <3>1 DEF IsSum
  <2>2. CASE j = k + 1
    <3>1. g[j] = f[k] + e.size /\ g[j - 1] = f[k] /\ l[j] = e
      BY <2>2, <1>0, <1>1
    <3> QED
      BY <3>1
  <2>3. CASE j > k + 1
    <3>1. j - 1 \in 1 .. n /\ j - 2 \in 0 .. n
      BY <2>3, <1>0
    <3>2. g[j] = f[j - 1] + e.size /\ g[j - 1] = f[(j - 1) - 1] + e.size
      BY <2>3, <1>0
    <3>3. l[j] = list[j - 1]
      BY <2>3, <1>0, <1>1
    <3>4. f[j - 1] = f[(j - 1) - 1] + list[j - 1].size
      BY <3>1 DEF IsSum
    <3>5. f[(j - 1) - 1] \in Int /\ list[j - 1].size \in Nat
      <4>1. (j - 1) - 1 \in 0 .. n
        BY <3>1
      <4> QED
        BY <2>0, <3>1, <4>1, EntryTyped
    <3> QED
      BY <3>2, <3>3, <3>4, <3>5, <1>0, SMTT(20)
  <2> QED
    BY <2>1, <2>2, <2>3, <1>0
<1>4. g[0] = 0 /\ g[n + 1] = f[n] + e.size
  BY <1>0 DEF IsSum
<1> HIDE DEF g
<1>5. IsSum(l, g)
  BY <1>1, <1>2, <1>3, <1>4 DEF IsSum
<1> QED
  BY <1>4, <1>5 DEF l

\* What leaves the sum with an entry.
LEMMA RemoveSum ==
    ASSUME NEW list \in Seq(Entry), NEW f, IsSum(list, f), NEW k \in 1 .. Len(list)
    PROVE  \E g : /\ IsSum(RemoveAt(list, k), g)
                  /\ g[Len(list) - 1] = f[Len(list)] - list[k].size
<1> DEFINE n == Len(list)
           l == RemoveAt(list, k)
           e == list[k]
           g == [j \in 0 .. n - 1 |-> IF j < k THEN f[j] ELSE f[j + 1] - e.size]
<1>0. n \in Nat /\ e.size \in Nat /\ k \in 1 .. n
  BY EntryTyped
<1>1. /\ l \in Seq(Entry) /\ Len(l) = n - 1
      /\ \A j \in 1 .. n - 1 : l[j] = IF j < k THEN list[j] ELSE list[j + 1]
  BY RemoveProperties
<1> HIDE DEF l
<1>a. \A i \in 0 .. n : f[i] \in Int
  BY DEF IsSum
<1>b. f[k] = f[k - 1] + e.size
  BY <1>0 DEF IsSum
<1> HIDE DEF e
<1>2. g \in [0 .. n - 1 -> Int]
  BY <1>0, <1>a
<1>3. ASSUME NEW j \in 1 .. n - 1 PROVE g[j] = g[j - 1] + l[j].size
  <2>1. CASE j < k
    <3>0. j \in 0 .. n - 1 /\ j - 1 \in 0 .. n - 1 /\ j - 1 < k /\ j \in 1 .. n
      BY <2>1, <1>0
    <3>1. g[j] = f[j] /\ g[j - 1] = f[j - 1] /\ l[j] = list[j] /\ j \in 1 .. n
      BY <3>0, <2>1, <1>1
    <3> QED
      BY <3>1 DEF IsSum
  <2>2. CASE j >= k
    <3>1. g[j] = f[j + 1] - e.size /\ l[j] = list[j + 1] /\ j + 1 \in 1 .. n
      BY <2>2, <1>0, <1>1
    <3>2. f[j + 1] = f[j] + list[j + 1].size
      <4>1. f[j + 1] = f[(j + 1) - 1] + list[j + 1].size
        BY <3>1 DEF IsSum
      <4> QED
        BY <4>1
    <3>3. g[j - 1] = f[j] - e.size
      <4>1. CASE j = k
        <5>1. g[j - 1] = f[k - 1]
          BY <4>1, <1>0
        <5> QED
          BY <5>1, <4>1, <1>0, <1>a, <1>b
      <4>2. CASE j > k
        <5>1. g[j - 1] = f[(j - 1) + 1] - e.size
          BY <4>2, <1>0
        <5> QED
          BY <5>1
      <4> QED
        BY <4>1, <4>2, <2>2, <1>0
    <3>4. f[j] \in Int /\ list[j + 1].size \in Nat
      BY <3>1, <1>a, <1>0, EntryTyped
    <3> QED
      BY <3>1, <3>2, <3>3, <3>4, <1>0
  <2> QED
    BY <2>1, <2>2, <1>0
<1>4. g[0] = 0 /\ g[n - 1] = f[n] - e.size
  <2>1. g[0] = 0
    <3>1. f[0] = 0
      BY DEF IsSum
    <3> QED
      BY <3>1, <1>0
  <2>2. CASE n - 1 < k
    <3>1. n = k /\ g[n - 1] = f[k - 1]
      BY <2>2, <1>0
    <3> QED
      BY <2>1, <3>1, <1>0, <1>a, <1>b
  <2>3. CASE n - 1 >= k
    <3>1. g[n - 1] = f[(n - 1) + 1] - e.size
      BY <2>3, <1>0
    <3> QED
      BY <3>1, <2>1, <1>0
  <2> QED
    BY <2>2, <2>3, <1>0
<1> HIDE DEF g
<1>5. IsSum(l, g)
  BY <1>1, <1>2, <1>3, <1>4 DEF IsSum
<1> QED
  BY <1>4, <1>5 DEF l, e

-----------------------------------------------------------------------------
(* Its inductive invariant.                                                *)

KmmTypes ==
    /\ chunk_list \in Seq(Entry)
    /\ available_size \in Nat
    /\ max_chunk \in 1 .. MaxAllocs + 1
    /\ file_open_cnt \in 0 .. WordMod - 1
    /\ file \in [Procs -> {"closed", "opening", "open", "closing", "released"}]
    /\ loaded \in [Procs -> 0 .. WordMod - 1]
    /\ held \in [Holders -> SUBSET (0 .. IdMod - 1)]
    /\ refused \in Nat
    /\ hole \in BOOLEAN /\ clash \in BOOLEAN

\* What is available and what the list takes make up the region.
KmmSum ==
    \E f : IsSum(chunk_list, f) /\ available_size + f[Len(chunk_list)] = Size

\* The ids on the list and the ids held were all handed out; none twice.
KmmIds ==
    /\ \A k \in 1 .. Len(chunk_list) : chunk_list[k].id \in 1 .. max_chunk - 1
    /\ \A j, k \in 1 .. Len(chunk_list) : chunk_list[j].id = chunk_list[k].id => j = k
    /\ \A h \in Holders : held[h] \subseteq 1 .. max_chunk - 1
    /\ \A g, h \in Holders : g # h => held[g] \cap held[h] = {}

\* Chunks are whole pages, and until the first one is freed the list begins at
\* the base of the region.
KmmLayout ==
    /\ \A k \in 1 .. Len(chunk_list) :
          chunk_list[k].size > 0 /\ chunk_list[k].size % PageSize = 0
    /\ ~hole /\ chunk_list # <<>> => chunk_list[1].start = Base
    /\ ChunksDisjoint

Counted == {p \in Procs : file[p] \in {"open", "closing"}}

\* As long as one CPU at a time is in open or close, file_open_cnt counts the
\* open files, and what a CPU has read of it is its value.
KmmCount ==
    ~clash => /\ \A p, q \in InCount : p = q
              /\ file_open_cnt = Cardinality(Counted)
              /\ \A p \in Procs : file[p] \in {"opening", "closing"}
                                    => loaded[p] = file_open_cnt

KmmInv == /\ KmmTypes /\ KmmSum /\ KmmIds /\ KmmLayout /\ KmmCount
          /\ OpenFileKeepsChunks /\ RefusedOnlyWhenNoRoom

\* Fewer chunks are handed out than there are ids.
IdsSuffice == MaxAllocs < IdMod

\* The count of open files does not wrap.
ProcsCountable == IsFiniteSet(Procs) /\ Cardinality(Procs) < WordMod

-----------------------------------------------------------------------------
(* Arithmetic of pages and of unsigned differences.                        *)

LEMMA Rounded ==
    ASSUME NEW size \in Nat \ {0}
    PROVE  RoundToPage(size) \in Nat \ {0} /\ RoundToPage(size) % PageSize = 0
<1>0. PageSize \in Nat \ {0}
  BY KmmAssumption
<1> DEFINE q == size \div PageSize
           r == size % PageSize
<1>1. r \in 0 .. PageSize - 1 /\ q \in Nat /\ size = PageSize * q + r
  BY <1>0, DivMod
<1>2. CASE r = 0
  BY <1>2 DEF RoundToPage
<1>3. CASE r # 0
  <2>1. RoundToPage(size) = (size - r) + PageSize
    BY <1>3 DEF RoundToPage
  <2> HIDE DEF r, q
  <2>2. (size - r) + PageSize = PageSize * (q + 1) + 0 /\ q + 1 \in Nat
    BY <1>0, <1>1
  <2>3. (PageSize * (q + 1) + 0) % PageSize = 0
    <3>1. q + 1 \in Nat /\ 0 \in 0 .. PageSize - 1
      BY <1>0, <1>1
    <3> QED
      BY <1>0, <3>1, ModOfTurns
  <2>4. (size - r) + PageSize \in Nat \ {0}
    BY <1>0, <1>1
  <2> QED
    BY <2>1, <2>2, <2>3, <2>4
<1> QED
  BY <1>2, <1>3

\* A difference that is not negative and fits the word is not wrapped.
LEMMA SubExact ==
    ASSUME NEW a \in Nat, NEW b \in Nat, b <= a, a - b < WordMod
    PROVE  Sub(a, b) = a - b
<1>0. WordMod \in Nat \ {0}
  BY KmmAssumption
<1>1. a - b = WordMod * 0 + (a - b) /\ a - b \in 0 .. WordMod - 1
  BY <1>0
<1>2. (WordMod * 0 + (a - b)) % WordMod = a - b
  BY <1>0, <1>1, ModOfTurns
<1> QED
  BY <1>1, <1>2 DEF Sub

LEMMA SumPositive ==
    ASSUME NEW list \in Seq(Entry), NEW f, IsSum(list, f)
    PROVE  f[Len(list)] \in Nat
<1>0. /\ Len(list) \in Nat /\ f \in [0 .. Len(list) -> Int]
      /\ \A k \in 1 .. Len(list) : list[k].size \in Nat
  BY EntryTyped DEF IsSum
<1>1. ASSUME NEW j \in 1 .. Len(list) PROVE f[j - 1] <= f[j]
  <2>1. f[j] = f[j - 1] + list[j].size
    BY DEF IsSum
  <2>2. f[j - 1] \in Int /\ list[j].size \in Nat
    <3>1. j - 1 \in 0 .. Len(list)
      BY <1>0
    <3> QED
      BY <3>1, <1>0
  <2> QED
    BY <2>1, <2>2
<1>2. f[0] <= f[Len(list)]
  <2>1. 0 \in 0 .. Len(list) /\ Len(list) \in 0 .. Len(list) /\ 0 <= Len(list)
    BY <1>0
  <2> QED
    BY <1>0, <1>1, <2>1, Monotone
<1> QED
  BY <1>0, <1>2 DEF IsSum

\* The least element of a nonempty set of numbers, and of no other one.
LEMMA MinIs ==
    ASSUME NEW S \in SUBSET Nat, S # {}
    PROVE  Min(S) \in S /\ \A m \in S : Min(S) <= m
<1>1. \E n \in S : \A m \in S : n <= m
  BY LeastElement
<1> QED
  BY <1>1 DEF Min

LEMMA KmmConstants ==
    /\ Size \in Nat \ {0} /\ PageSize \in Nat \ {0} /\ WordMod \in Nat \ {0}
    /\ IdMod \in Nat \ {0} /\ Base \in Nat /\ MaxAllocs \in Nat
    /\ Base % PageSize = 0 /\ 2 * (Base + Size) < WordMod
    /\ Sizes \subseteq Nat \ {0} /\ Kern \notin Procs
BY KmmAssumption

-----------------------------------------------------------------------------
(* The initial state.                                                      *)

LEMMA KmmInitInv == ProcsCountable /\ Init => KmmInv
<1> SUFFICES ASSUME ProcsCountable, Init PROVE KmmInv
  OBVIOUS
<1> USE KmmConstants DEF Init
<1>1. KmmTypes
  <2>1. held \in [Holders -> SUBSET (0 .. IdMod - 1)]
    OBVIOUS
  <2>2. chunk_list \in Seq(Entry)
    OBVIOUS
  <2>3. max_chunk \in 1 .. MaxAllocs + 1 /\ file_open_cnt \in 0 .. WordMod - 1
    OBVIOUS
  <2>4. /\ file \in [Procs -> {"closed", "opening", "open", "closing", "released"}]
        /\ loaded \in [Procs -> 0 .. WordMod - 1]
    OBVIOUS
  <2> QED
    BY <2>1, <2>2, <2>3, <2>4 DEF KmmTypes
<1>2. KmmSum
  <2> DEFINE f == [k \in 0 .. 0 |-> 0]
  <2>1. IsSum(chunk_list, f) /\ f[Len(chunk_list)] = 0
    BY DEF IsSum
  <2> QED
    BY <2>1 DEF KmmSum
<1>3. KmmIds
  BY DEF KmmIds
<1>4. KmmLayout
  BY DEF KmmLayout, ChunksDisjoint, ListIndices
<1>5. KmmCount
  <2>1. Counted = {}
    BY DEF Counted
  <2>2. Cardinality(Counted) = 0
    BY <2>1, FS_EmptySet
  <2> QED
    BY <2>2 DEF KmmCount, InCount
<1>6. OpenFileKeepsChunks /\ RefusedOnlyWhenNoRoom
  BY DEF OpenFileKeepsChunks, RefusedOnlyWhenNoRoom, Holders
<1> QED
  BY <1>1, <1>2, <1>3, <1>4, <1>5, <1>6 DEF KmmInv

-----------------------------------------------------------------------------
(* Allocation.                                                             *)

\* A chunk is put where it lies between its neighbours.
LEMMA GrantStep ==
    ASSUME KmmInv, IdsSuffice,
           NEW h \in Holders, max_chunk <= MaxAllocs,
           NEW size \in Nat \ {0}, size % PageSize = 0, size <= available_size,
           NEW k \in 0 .. Len(chunk_list), NEW start \in Nat,
           Grant(h, size, k, start),
           UNCHANGED <<file_open_cnt, file, loaded, hole, clash>>,
           k = 0 => chunk_list = <<>> \/ hole,
           ~hole => /\ k = 0 => start = Base
                    /\ start % PageSize = 0
                    /\ Base <= start /\ start + size <= Base + Size
                    /\ k > 0 => End(chunk_list[k]) <= start
                    /\ k < Len(chunk_list) => start + size <= chunk_list[k + 1].start
    PROVE  KmmInv'
<1> DEFINE e == [start |-> start, size |-> size, id |-> ChunkId]
           n == Len(chunk_list)
<1>0. KmmTypes
  BY DEF KmmInv
<1>c. ChunkId = max_chunk /\ ChunkId \in 0 .. IdMod - 1 /\ ChunkId \in 1 .. MaxAllocs
  <2>1. max_chunk \in 1 .. MaxAllocs /\ MaxAllocs < IdMod /\ IdMod \in Nat \ {0}
        /\ MaxAllocs \in Nat
    BY <1>0, KmmConstants DEF KmmTypes, IdsSuffice
  <2>2. max_chunk = IdMod * 0 + max_chunk /\ max_chunk \in 0 .. IdMod - 1
    BY <2>1
  <2>3. (IdMod * 0 + max_chunk) % IdMod = max_chunk
    BY <2>1, <2>2, ModOfTurns
  <2> QED
    BY <2>1, <2>2, <2>3 DEF ChunkId
<1>e. e \in Entry
  BY <1>c DEF Entry
<1>f. e.start = start /\ e.size = size /\ e.id = max_chunk
  BY <1>c
<1>g. chunk_list' = InsertAt(chunk_list, k + 1, e)
  BY DEF Grant
<1> HIDE DEF e
<1>1. /\ chunk_list' \in Seq(Entry) /\ Len(chunk_list') = n + 1
      /\ \A j \in 1 .. n + 1 : chunk_list'[j] =
            IF j <= k THEN chunk_list[j] ELSE IF j = k + 1 THEN e ELSE chunk_list[j - 1]
  <2>1. chunk_list \in Seq(Entry)
    BY <1>0 DEF KmmTypes
  <2> DEFINE l == InsertAt(chunk_list, k + 1, e)
  <2>2. /\ l \in Seq(Entry) /\ Len(l) = n + 1
        /\ \A j \in 1 .. n + 1 : l[j] =
              IF j <= k THEN chunk_list[j] ELSE IF j = k + 1 THEN e ELSE chunk_list[j - 1]
    BY <1>e, <2>1, InsertProperties
  <2> HIDE DEF l
  <2>3. chunk_list' = l
    BY <1>g DEF l
  <2> QED
    BY <2>2, <2>3
<1>n. n \in Nat /\ k \in 0 .. n
  BY <1>0, EntryTyped DEF KmmTypes
<1>2. KmmTypes'
  <2>1. available_size' \in Nat
    BY <1>0 DEF KmmTypes, Grant
  <2>2. max_chunk' \in 1 .. MaxAllocs + 1
    BY <1>0, KmmConstants DEF KmmTypes, Grant
  <2>3. held' \in [Holders -> SUBSET (0 .. IdMod - 1)]
    BY <1>0, <1>c DEF KmmTypes, Grant
  <2>4. refused' \in Nat
    BY DEF Grant
  <2> QED
    BY <1>0, <1>1, <2>1, <2>2, <2>3, <2>4 DEF KmmTypes
<1>3. KmmSum'
  <2>1. PICK f : IsSum(chunk_list, f) /\ available_size + f[n] = Size
    BY DEF KmmInv, KmmSum
  <2>2. chunk_list \in Seq(Entry)
    BY <1>0 DEF KmmTypes
  <2>3. PICK g : IsSum(chunk_list', g) /\ g[n + 1] = f[n] + e.size
    BY <1>e, <1>g, <2>1, <2>2, InsertSum
  <2>4. f[n] \in Nat
    BY <2>1, <2>2, SumPositive
  <2>5. available_size' = available_size - size /\ available_size \in Nat
    BY <1>0 DEF KmmTypes, Grant
  <2>6. available_size' + g[n + 1] = Size
    BY <2>1, <2>3, <2>4, <2>5, <1>f, KmmConstants
  <2>7. g[Len(chunk_list')] = g[n + 1]
    BY <1>1
  <2> QED
    BY <2>3, <2>6, <2>7 DEF KmmSum
<1>i. KmmIds /\ KmmLayout /\ KmmCount
  BY DEF KmmInv
<1>m. max_chunk \in 1 .. MaxAllocs + 1 /\ max_chunk' = max_chunk + 1
      /\ held' = [held EXCEPT ![h] = @ \cup {max_chunk}]
      /\ held \in [Holders -> SUBSET (0 .. IdMod - 1)]
  BY <1>0, <1>c DEF KmmTypes, Grant
<1>o. \A j \in 1 .. n : chunk_list[j].id \in 1 .. max_chunk - 1
  BY <1>i DEF KmmIds
<1>4. KmmIds'
  <2>1. ASSUME NEW j \in 1 .. n + 1 PROVE chunk_list'[j].id \in 1 .. max_chunk' - 1
    <3>1. CASE j <= k
      BY <3>1, <1>1, <1>n, <1>m, <1>o
    <3>2. CASE j = k + 1
      BY <3>2, <1>1, <1>f, <1>m
    <3>3. CASE j > k + 1
      <4>1. j - 1 \in 1 .. n /\ chunk_list'[j] = chunk_list[j - 1]
        BY <3>3, <1>n, <1>1
      <4>2. chunk_list[j - 1].id \in 1 .. max_chunk - 1
        BY <4>1, <1>o
      <4>3. max_chunk \in Nat /\ max_chunk' = max_chunk + 1
        BY <1>m
      <4> QED
        BY <4>1, <4>2, <4>3
    <3> QED
      BY <3>1, <3>2, <3>3, <1>n
  <2>2. ASSUME NEW i \in 1 .. n + 1, NEW j \in 1 .. n + 1, i < j,
               chunk_list'[i].id = chunk_list'[j].id
        PROVE  FALSE
    <3> DEFINE old(x) == IF x <= k THEN x ELSE x - 1
    <3>1. \A x \in 1 .. n + 1 : x # k + 1 =>
             old(x) \in 1 .. n /\ chunk_list'[x] = chunk_list[old(x)]
      BY <1>n, <1>1
    <3>2. chunk_list'[k + 1].id = max_chunk
      BY <1>1, <1>n, <1>f
    <3>a. \A x \in 1 .. n + 1 : x # k + 1 => chunk_list'[x].id # max_chunk
      <4>1. ASSUME NEW x \in 1 .. n + 1, x # k + 1 PROVE chunk_list'[x].id # max_chunk
        <5>1. old(x) \in 1 .. n /\ chunk_list'[x] = chunk_list[old(x)]
          BY <3>1, <4>1
        <5>2. chunk_list[old(x)].id \in 1 .. max_chunk - 1
          BY <5>1, <1>o
        <5> QED
          BY <5>1, <5>2, <1>m
      <4> QED
        BY <4>1
    <3>3. i # k + 1 /\ j # k + 1
      <4>1. i = k + 1 => j # k + 1
        BY <2>2
      <4> QED
        BY <4>1, <3>a, <3>2, <2>2
    <3>4. old(i) # old(j)
      BY <3>3, <2>2, <1>n
    <3>5. /\ old(i) \in 1 .. n /\ chunk_list'[i] = chunk_list[old(i)]
          /\ old(j) \in 1 .. n /\ chunk_list'[j] = chunk_list[old(j)]
      BY <3>1, <3>3
    <3> HIDE DEF old
    <3> QED
      BY <3>5, <3>4, <2>2, <1>i DEF KmmIds
  <2>3. ASSUME NEW x \in Holders PROVE held'[x] \subseteq 1 .. max_chunk' - 1
    <3>1. held[x] \subseteq 1 .. max_chunk - 1
      BY <1>i DEF KmmIds
    <3>2. held'[x] \subseteq held[x] \cup {max_chunk}
      BY <1>m
    <3> QED
      BY <3>1, <3>2, <1>m
  <2>4. ASSUME NEW x \in Holders, NEW y \in Holders, x # y
        PROVE  held'[x] \cap held'[y] = {}
    <3>1. held[x] \cap held[y] = {} /\ max_chunk \notin held[x] /\ max_chunk \notin held[y]
      BY <2>4, <1>i, <1>m DEF KmmIds
    <3> QED
      BY <3>1, <2>4, <1>m
  <2>5. ASSUME NEW i \in 1 .. n + 1, NEW j \in 1 .. n + 1,
               chunk_list'[i].id = chunk_list'[j].id
        PROVE  i = j
    BY <2>2, <2>5, <1>n
  <2> QED
    BY <2>1, <2>3, <2>4, <2>5, <1>1 DEF KmmIds
<1>5. KmmLayout'
  <2>0. hole' = hole
    OBVIOUS
  <2>a. ASSUME NEW j \in 1 .. n
        PROVE  /\ chunk_list[j].start \in Nat /\ chunk_list[j].size \in Nat
               /\ chunk_list[j].size > 0 /\ chunk_list[j].size % PageSize = 0
    BY <1>0, <1>i, EntryTyped DEF KmmTypes, KmmLayout
  <2>1. ASSUME NEW j \in 1 .. n + 1
        PROVE  chunk_list'[j].size > 0 /\ chunk_list'[j].size % PageSize = 0
    <3>1. CASE j <= k
      BY <3>1, <2>a, <1>1, <1>n
    <3>2. CASE j = k + 1
      BY <3>2, <1>1, <1>f
    <3>3. CASE j > k + 1
      <4>1. j - 1 \in 1 .. n /\ chunk_list'[j] = chunk_list[j - 1]
        BY <3>3, <1>n, <1>1
      <4> QED
        BY <4>1, <2>a
    <3> QED
      BY <3>1, <3>2, <3>3, <1>n
  <2>2. ASSUME ~hole PROVE chunk_list'[1].start = Base
    <3>1. CASE k = 0
      BY <3>1, <2>2, <1>1, <1>n, <1>f
    <3>2. CASE k > 0
      <4>1. chunk_list'[1] = chunk_list[1] /\ chunk_list # <<>>
        BY <3>2, <1>1, <1>n
      <4> QED
        BY <4>1, <2>2, <1>i DEF KmmLayout
    <3> QED
      BY <3>1, <3>2, <1>n
  <2>3. ASSUME ~hole, NEW j \in 1 .. n + 1
        PROVE  /\ chunk_list'[j].start % PageSize = 0
               /\ Base <= chunk_list'[j].start
               /\ End(chunk_list'[j]) <= Base + Size
               /\ j > 1 => End(chunk_list'[j - 1]) <= chunk_list'[j].start
    <3>1. ASSUME NEW i \in 1 .. n
          PROVE  /\ chunk_list[i].start % PageSize = 0
                 /\ Base <= chunk_list[i].start
                 /\ End(chunk_list[i]) <= Base + Size
                 /\ i > 1 => End(chunk_list[i - 1]) <= chunk_list[i].start
      <4>1. i \in ListIndices
        BY <1>0 DEF KmmTypes, ListIndices
      <4> QED
        BY <4>1, <2>3, <1>i DEF KmmLayout, ChunksDisjoint
    <3>2. CASE j <= k
      <4>1. chunk_list'[j] = chunk_list[j] /\ j \in 1 .. n
        BY <3>2, <1>1, <1>n
      <4>2. j > 1 => chunk_list'[j - 1] = chunk_list[j - 1]
        BY <3>2, <1>1, <1>n
      <4> QED
        BY <4>1, <4>2, <3>1
    <3>3. CASE j = k + 1
      <4>1. chunk_list'[j] = e
        BY <3>3, <1>1, <1>n
      <4>2. j > 1 => chunk_list'[j - 1] = chunk_list[k] /\ k > 0
        BY <3>3, <1>1, <1>n
      <4> QED
        BY <4>1, <4>2, <2>3, <1>f DEF End
    <3>4. CASE j = k + 2
      <4>1. chunk_list'[j] = chunk_list[k + 1] /\ k + 1 \in 1 .. n /\ j - 1 = k + 1
        <5>1. j - 1 = k + 1
          BY <3>4, <1>n
        <5> QED
          BY <5>1, <3>4, <1>1, <1>n
      <4>2. chunk_list'[j - 1] = e
        BY <4>1, <3>4, <1>1, <1>n
      <4>3. start + size <= chunk_list[k + 1].start
        BY <4>1, <2>3, <1>n
      <4> QED
        BY <4>1, <4>2, <4>3, <3>1, <1>f DEF End
    <3>5. CASE j > k + 2
      <4>1. chunk_list'[j] = chunk_list[j - 1] /\ j - 1 \in 2 .. n
        BY <3>5, <1>1, <1>n
      <4>2. chunk_list'[j - 1] = chunk_list[(j - 1) - 1]
        BY <3>5, <1>1, <1>n
      <4> QED
        BY <4>1, <4>2, <3>1
    <3> QED
      BY <3>2, <3>3, <3>4, <3>5, <1>n
  <2>4. DOMAIN chunk_list' = 1 .. n + 1
    BY <1>1
  <2>5. ChunksDisjoint'
    BY <2>0, <2>3, <2>4 DEF ChunksDisjoint, ListIndices, End
  <2> QED
    BY <2>0, <2>1, <2>2, <2>5, <1>1 DEF KmmLayout
<1>6. KmmCount'
  BY <1>i DEF KmmCount, InCount, Counted
<1>7. OpenFileKeepsChunks'
  <2>1. SUFFICES ASSUME ~clash, NEW p \in Procs, file[p] = "open", NEW id \in held'[p]
                 PROVE  \E j \in 1 .. n + 1 : chunk_list'[j].id = id
    BY <1>1 DEF OpenFileKeepsChunks, Positions
  <2>2. CASE id = max_chunk
    <3>1. k + 1 \in 1 .. n + 1 /\ chunk_list'[k + 1].id = max_chunk
      BY <1>1, <1>n, <1>f
    <3> QED
      BY <3>1, <2>2
  <2>3. CASE id # max_chunk
    <3>1. id \in held[p]
      <4>1. p \in Holders
        BY DEF Holders
      <4> QED
        BY <4>1, <2>3, <2>1, <1>m
    <3>2. PICK j \in 1 .. n : chunk_list[j].id = id
      <4>1. Positions(id) # {}
        BY <2>1, <3>1 DEF KmmInv, OpenFileKeepsChunks
      <4> QED
        BY <4>1 DEF Positions
    <3>3. CASE j <= k
      <4>1. j \in 1 .. n + 1 /\ chunk_list'[j] = chunk_list[j]
        BY <3>3, <1>1, <1>n
      <4> QED
        BY <4>1, <3>2
    <3>4. CASE j > k
      <4>1. j + 1 \in 1 .. n + 1 /\ chunk_list'[j + 1] = chunk_list[(j + 1) - 1]
        BY <3>4, <1>1, <1>n
      <4>2. (j + 1) - 1 = j
        OBVIOUS
      <4> QED
        BY <4>1, <4>2, <3>2
    <3> QED
      BY <3>3, <3>4, <1>n
  <2> QED
    BY <2>2, <2>3
<1>8. RefusedOnlyWhenNoRoom'
  BY DEF RefusedOnlyWhenNoRoom, Grant
<1> QED
  BY <1>2, <1>3, <1>4, <1>5, <1>6, <1>7, <1>8 DEF KmmInv

\* What the list looks like as long as its first chunk was not freed before the
\* others, element by element.
LEMMA ListLayout ==
    ASSUME KmmInv, ~hole
    PROVE  /\ Len(chunk_list) \in Nat
           /\ \A k \in 1 .. Len(chunk_list) :
                 /\ chunk_list[k].start \in Nat /\ chunk_list[k].size \in Nat
                 /\ chunk_list[k].size > 0 /\ chunk_list[k].size % PageSize = 0
                 /\ chunk_list[k].start % PageSize = 0
                 /\ End(chunk_list[k]) = chunk_list[k].start + chunk_list[k].size
                 /\ End(chunk_list[k]) \in Nat
                 /\ Base <= chunk_list[k].start
                 /\ End(chunk_list[k]) <= Base + Size
                 /\ k > 1 => End(chunk_list[k - 1]) <= chunk_list[k].start
                 /\ k = 1 => chunk_list[k].start = Base
<1>0. chunk_list \in Seq(Entry) /\ KmmLayout
  BY DEF KmmInv, KmmTypes
<1>1. Len(chunk_list) \in Nat /\ DOMAIN chunk_list = 1 .. Len(chunk_list)
  BY <1>0
<1>2. ASSUME NEW k \in 1 .. Len(chunk_list)
      PROVE  /\ chunk_list[k].start \in Nat /\ chunk_list[k].size \in Nat
             /\ chunk_list[k].size > 0 /\ chunk_list[k].size % PageSize = 0
             /\ chunk_list[k].start % PageSize = 0
             /\ End(chunk_list[k]) = chunk_list[k].start + chunk_list[k].size
             /\ End(chunk_list[k]) \in Nat
             /\ Base <= chunk_list[k].start
             /\ End(chunk_list[k]) <= Base + Size
             /\ k > 1 => End(chunk_list[k - 1]) <= chunk_list[k].start
             /\ k = 1 => chunk_list[k].start = Base
  <2>1. /\ chunk_list[k].start \in Nat /\ chunk_list[k].size \in Nat
    BY <1>0, EntryTyped
  <2>2. chunk_list[k].size > 0 /\ chunk_list[k].size % PageSize = 0
    BY <1>0 DEF KmmLayout
  <2>3. /\ chunk_list[k].start % PageSize = 0
        /\ Base <= chunk_list[k].start
        /\ End(chunk_list[k]) <= Base + Size
        /\ k > 1 => End(chunk_list[k - 1]) <= chunk_list[k].start
    BY <1>0, <1>1 DEF KmmLayout, ChunksDisjoint, ListIndices
  <2>4. k = 1 => chunk_list[k].start = Base
    <3>1. chunk_list # <<>>
      BY <1>0
    <3> QED
      BY <3>1, <1>0 DEF KmmLayout
  <2>5. /\ End(chunk_list[k]) = chunk_list[k].start + chunk_list[k].size
        /\ End(chunk_list[k]) \in Nat
    BY <2>1 DEF End
  <2> QED
    BY <2>1, <2>2, <2>3, <2>4, <2>5
<1> QED
  BY <1>1, <1>2

\* The room alloc_mem computes is the distance between the chunks.
LEMMA RoomExact ==
    ASSUME KmmInv, ~hole, NEW k \in 1 .. Len(chunk_list)
    PROVE  Room(k) = IF k = Len(chunk_list) THEN (Base + Size) - End(chunk_list[k])
                     ELSE chunk_list[k + 1].start - End(chunk_list[k])
<1>0. Len(chunk_list) \in Nat
  BY ListLayout
<1>1. End(chunk_list[k]) \in Nat /\ End(chunk_list[k]) <= Base + Size
  BY ListLayout
<1>2. CASE k = Len(chunk_list)
  <2>1. Room(k) = Sub(Base + Size, End(chunk_list[k]))
    BY <1>0, <1>2 DEF Room
  <2>2. Base + Size \in Nat /\ (Base + Size) - End(chunk_list[k]) < WordMod
    BY <1>1, KmmConstants
  <2>3. Sub(Base + Size, End(chunk_list[k])) = (Base + Size) - End(chunk_list[k])
    BY <1>1, <2>2, SubExact
  <2> QED
    BY <1>2, <2>1, <2>3
<1>3. CASE k # Len(chunk_list)
  <2>0. k \in 1 .. Len(chunk_list) - 1 /\ k + 1 \in 1 .. Len(chunk_list) /\ k # 0
    BY <1>0, <1>3
  <2>1. Room(k) = Sub(chunk_list[k + 1].start, End(chunk_list[k]))
    BY <2>0, <1>3 DEF Room
  <2>2. /\ chunk_list[k + 1].start \in Nat
        /\ End(chunk_list[(k + 1) - 1]) <= chunk_list[k + 1].start
        /\ End(chunk_list[k + 1]) <= Base + Size
        /\ chunk_list[k + 1].start < End(chunk_list[k + 1])
    <3> DEFINE j == k + 1
    <3>1. j \in 1 .. Len(chunk_list) /\ j > 1
      BY <2>0
    <3> HIDE DEF j
    <3>2. /\ chunk_list[j].start \in Nat /\ chunk_list[j].size \in Nat
          /\ chunk_list[j].size > 0
          /\ End(chunk_list[j]) = chunk_list[j].start + chunk_list[j].size
          /\ End(chunk_list[j]) <= Base + Size
          /\ End(chunk_list[j - 1]) <= chunk_list[j].start
      BY <3>1, ListLayout
    <3>3. chunk_list[j].start < End(chunk_list[j])
      BY <3>2
    <3> QED
      BY <3>2, <3>3 DEF j
  <2>3. End(chunk_list[k]) <= chunk_list[k + 1].start
    <3>1. (k + 1) - 1 = k
      OBVIOUS
    <3> QED
      BY <2>2, <3>1
  <2>4. chunk_list[k + 1].start - End(chunk_list[k]) < WordMod
    <3>1. End(chunk_list[k + 1]) \in Nat
      BY <2>0, ListLayout
    <3> QED
      BY <1>1, <2>2, <3>1, KmmConstants, SMTT(20)
  <2>5. Sub(chunk_list[k + 1].start, End(chunk_list[k]))
          = chunk_list[k + 1].start - End(chunk_list[k])
    BY <1>1, <2>2, <2>3, <2>4, SubExact
  <2> QED
    BY <1>3, <2>1, <2>5
<1> QED
  BY <1>2, <1>3

\* Up to the k-th chunk the list takes no more than lies between the base and
\* the end of that chunk; the rest is never given up again further on.
LEMMA SlackGrows ==
    ASSUME KmmInv, ~hole, NEW f, IsSum(chunk_list, f),
           NEW i \in 1 .. Len(chunk_list), NEW j \in 1 .. Len(chunk_list), i <= j
    PROVE  /\ Base <= End(chunk_list[i]) - f[i]
           /\ End(chunk_list[i]) - f[i] <= End(chunk_list[j]) - f[j]
<1> DEFINE n == Len(chunk_list)
           d == [k \in 0 .. n |-> IF k = 0 THEN Base ELSE End(chunk_list[k]) - f[k]]
<1>0. n \in Nat /\ f \in [0 .. n -> Int] /\ f[0] = 0
      /\ \A k \in 1 .. n : f[k] = f[k - 1] + chunk_list[k].size
  BY ListLayout DEF IsSum
<1>1. \A k \in 1 .. n : End(chunk_list[k]) \in Nat
  BY ListLayout
<1>2. d \in [0 .. n -> Int]
  BY <1>0, <1>1, KmmConstants
<1>3. ASSUME NEW k \in 1 .. n PROVE d[k - 1] <= d[k]
  <2>1. /\ End(chunk_list[k]) = chunk_list[k].start + chunk_list[k].size
        /\ chunk_list[k].start \in Nat /\ chunk_list[k].size \in Nat
        /\ k > 1 => End(chunk_list[k - 1]) <= chunk_list[k].start
        /\ k = 1 => chunk_list[k].start = Base
    BY ListLayout
  <2>2. f[k - 1] \in Int /\ f[k] = f[k - 1] + chunk_list[k].size
    <3>1. k - 1 \in 0 .. n
      BY <1>0
    <3> HIDE DEF n
    <3> QED
      BY <3>1, <1>0
  <2>3. d[k] = chunk_list[k].start - f[k - 1]
    <3>1. k \in 0 .. n /\ k # 0
      BY <1>0
    <3>2. d[k] = End(chunk_list[k]) - f[k]
      BY <3>1
    <3> HIDE DEF d, n
    <3> QED
      BY <3>2, <2>1, <2>2
  <2>4. CASE k = 1
    BY <2>4, <2>1, <2>3, <1>0, KmmConstants
  <2>5. CASE k > 1
    <3>0. k - 1 \in 1 .. n /\ k - 1 \in 0 .. n /\ k - 1 # 0
      BY <2>5, <1>0
    <3>1. d[k - 1] = End(chunk_list[k - 1]) - f[k - 1] /\ End(chunk_list[k - 1]) \in Nat
      BY <3>0, <1>1
    <3> HIDE DEF d
    <3> QED
      BY <3>1, <2>5, <2>1, <2>2, <2>3
  <2> QED
    BY <2>4, <2>5, <1>0
<1>4. d[0] = Base /\ d[i] = End(chunk_list[i]) - f[i] /\ d[j] = End(chunk_list[j]) - f[j]
  BY <1>0
<1> HIDE DEF d
<1>5. d[0] <= d[i]
  <2>1. 0 \in 0 .. n /\ i \in 0 .. n /\ 0 <= i
    BY <1>0
  <2> QED
    BY <1>0, <1>2, <1>3, <2>1, Monotone
<1>6. d[i] <= d[j]
  <2>1. i \in 0 .. n /\ j \in 0 .. n
    BY <1>0
  <2> QED
    BY <1>0, <1>2, <1>3, <2>1, Monotone
<1> QED
  BY <1>4, <1>5, <1>6

\* A request is refused only when no stretch of the region is free that could
\* hold it.
LEMMA NoRoom ==
    ASSUME KmmInv, ~hole, NEW size \in Nat \ {0},
           TooLarge(size) \/ (chunk_list # <<>> /\ Fits(size) = {}),
           NEW a \in Base .. (Base + Size) - size
    PROVE  \E b \in a .. (a + size) - 1 : ~FreeAddr(b)
<1> DEFINE n == Len(chunk_list)
<1>0. n \in Nat /\ a \in Nat /\ Base <= a /\ a + size <= Base + Size
  BY ListLayout, KmmConstants
<1>1. SUFFICES ASSUME \A b \in a .. (a + size) - 1 : FreeAddr(b) PROVE FALSE
  OBVIOUS
<1>d. DOMAIN chunk_list = 1 .. n
  BY DEF KmmInv, KmmTypes
<1>2. ASSUME NEW j \in 1 .. n
      PROVE  End(chunk_list[j]) <= a \/ chunk_list[j].start >= a + size
  <2>1. /\ chunk_list[j].start \in Nat /\ End(chunk_list[j]) \in Nat
        /\ chunk_list[j].start < End(chunk_list[j])
    BY ListLayout
  <2>2. SUFFICES ASSUME End(chunk_list[j]) > a, chunk_list[j].start < a + size
                 PROVE  FALSE
    BY <2>1, <1>0
  <2> DEFINE b == IF chunk_list[j].start <= a THEN a ELSE chunk_list[j].start
  <2>3. /\ b \in a .. (a + size) - 1
        /\ ~(b < chunk_list[j].start) /\ ~(b >= End(chunk_list[j]))
    BY <2>1, <2>2, <1>0
  <2> HIDE DEF b
  <2> QED
    BY <2>3, <1>1, <1>d DEF FreeAddr, ListIndices
<1>3. PICK f : IsSum(chunk_list, f) /\ available_size + f[n] = Size
  BY DEF KmmInv, KmmSum
<1>f. /\ f \in [0 .. n -> Int] /\ f[0] = 0 /\ available_size \in Nat
      /\ \A k \in 1 .. n : f[k] = f[k - 1] + chunk_list[k].size
  BY <1>3 DEF IsSum, KmmInv, KmmTypes
<1> DEFINE S == {j \in 1 .. n : chunk_list[j].start >= a + size}
<1>4. CASE S = {}
  <2>1. CASE n = 0
    <3>1. chunk_list = <<>>
      BY <2>1 DEF KmmInv, KmmTypes
    <3> QED
      BY <2>1, <3>1, <1>0, <1>3, <1>f, KmmConstants DEF TooLarge
  <2>2. CASE n > 0
    <3>0. n \in 1 .. n /\ End(chunk_list[n]) <= a /\ End(chunk_list[n]) \in Nat
      BY <2>2, <1>0, <1>2, <1>4, ListLayout
    <3>1. ~TooLarge(size)
      <4>1. Base <= End(chunk_list[n]) - f[n]
        BY <3>0, <1>3, SlackGrows
      <4>2. f[n] \in Int
        BY <1>f, <1>0
      <4> QED
        BY <4>1, <4>2, <3>0, <1>0, <1>3, <1>f, KmmConstants DEF TooLarge
    <3>2. n \in Fits(size)
      <4>1. Room(n) = (Base + Size) - End(chunk_list[n])
        BY <3>0, RoomExact
      <4> QED
        BY <4>1, <3>0, <1>0, KmmConstants DEF Fits
    <3> QED
      BY <3>1, <3>2
  <2> QED
    BY <2>1, <2>2, <1>0
<1>5. CASE S # {}
  <2>1. PICK j \in S : \A i \in S : j <= i
    <3>1. S \in SUBSET Nat
      OBVIOUS
    <3> QED
      BY <1>5, <3>1, LeastElement
  <2> DEFINE m == j - 1
  <2>2. j \in 1 .. n /\ chunk_list[j].start >= a + size
    OBVIOUS
  <2>3. j # 1
    BY <2>2, <1>0, KmmConstants, ListLayout
  <2>4. m \in 1 .. n /\ m \notin S /\ m # n /\ m + 1 = j
    BY <2>1, <2>2, <2>3, <1>0
  <2>5. End(chunk_list[m]) <= a /\ End(chunk_list[m]) \in Nat
    BY <2>4, <1>2, ListLayout
  <2>6. /\ chunk_list[j].start \in Nat /\ chunk_list[j].size \in Nat
        /\ End(chunk_list[j]) = chunk_list[j].start + chunk_list[j].size
    BY <2>2, ListLayout
  <2>7. ~TooLarge(size)
    <3>1. n \in 1 .. n /\ j <= n
      BY <2>2, <1>0
    <3>2. End(chunk_list[j]) - f[j] <= End(chunk_list[n]) - f[n]
      BY <3>1, <2>2, <1>3, SlackGrows
    <3>3. Base <= End(chunk_list[m]) - f[m]
      BY <2>4, <1>3, <1>0, SlackGrows
    <3>4. f[j] = f[m] + chunk_list[j].size
      BY <2>2, <1>f
    <3>5. End(chunk_list[n]) <= Base + Size /\ End(chunk_list[n]) \in Nat
      BY <3>1, ListLayout
    <3>6. f[n] \in Int /\ f[m] \in Int
      <4>1. n \in 0 .. n /\ m \in 0 .. n
        BY <1>0, <2>4
      <4> HIDE DEF n, m
      <4> QED
        BY <4>1, <1>f
    <3>7. available_size \in Nat
      BY <1>f
    <3> HIDE DEF m, n, S
    <3>8. (End(chunk_list[m]) - f[m]) + size <= (Base + Size) - f[n]
      <4>1. Base \in Nat /\ Size \in Nat
        BY KmmConstants
      <4>2. a \in Int /\ size \in Nat
        BY <1>0
      <4>3. (End(chunk_list[m]) - f[m]) + size <= chunk_list[j].start - f[m]
        BY <4>2, <3>6, <2>2, <2>5, <2>6
      <4>4. chunk_list[j].start - f[m] = End(chunk_list[j]) - f[j]
        BY <3>4, <3>6, <2>6
      <4>5. End(chunk_list[j]) - f[j] <= (Base + Size) - f[n]
        BY <4>1, <3>2, <3>4, <3>5, <3>6, <2>6
      <4> QED
        BY <4>1, <4>2, <4>3, <4>4, <4>5, <3>4, <3>6, <2>5, <2>6, SMTT(20)
    <3>9. size <= available_size
      <4>1. Base \in Nat /\ Size \in Nat
        BY KmmConstants
      <4>2. End(chunk_list[m]) - f[m] \in Int /\ f[n] \in Int
        BY <3>6, <2>5
      <4>3. Size - f[n] = available_size
        BY <4>1, <3>6, <3>7, <1>3
      <4> QED
        BY <4>1, <4>2, <4>3, <3>3, <3>8
    <3> QED
      BY <3>7, <3>9 DEF TooLarge
  <2>8. m \in Fits(size)
    <3>1. Room(m) = chunk_list[m + 1].start - End(chunk_list[m])
      BY <2>4, RoomExact
    <3>2. Room(m) >= size
      BY <3>1, <2>2, <2>4, <2>5, <2>6, <1>0
    <3> QED
      BY <3>2, <2>4, <1>0 DEF Fits
  <2> QED
    BY <2>7, <2>8
<1> QED
  BY <1>4, <1>5

LEMMA AllocStep ==
    ASSUME KmmInv, IdsSuffice, NEW h \in Holders, NEW sz \in Sizes, Alloc(h, sz)
    PROVE  KmmInv'
<1> DEFINE size == RoundToPage(sz)
           n == Len(chunk_list)
<1>0. size \in Nat \ {0} /\ size % PageSize = 0
  <2>1. sz \in Nat \ {0}
    BY KmmConstants
  <2> QED
    BY <2>1, Rounded
<1>1. alloc_mem(h, size) /\ max_chunk <= MaxAllocs
  BY DEF Alloc
<1> HIDE DEF size
<1>t. KmmTypes /\ chunk_list \in Seq(Entry) /\ n \in Nat /\ available_size \in Nat
  BY EntryTyped DEF KmmInv, KmmTypes
<1>u. UNCHANGED <<file_open_cnt, file, loaded, hole, clash>>
  BY <1>1 DEF alloc_mem
<1>2. CASE TooLarge(size) \/ (chunk_list # <<>> /\ Fits(size) = {})
  <2>1. refused' = size /\ UNCHANGED <<chunk_list, held, max_chunk, available_size>>
    BY <1>1, <1>2 DEF alloc_mem
  <2>2. KmmTypes'
    BY <1>0, <1>t, <1>u, <2>1 DEF KmmTypes
  <2>3. KmmSum' /\ KmmIds' /\ KmmLayout'
    BY <1>u, <2>1 DEF KmmInv, KmmSum, KmmIds, KmmLayout, ChunksDisjoint, ListIndices
  <2>4. KmmCount'
    BY <1>u, <2>1 DEF KmmInv, KmmCount, InCount, Counted
  <2>5. OpenFileKeepsChunks'
    BY <1>u, <2>1 DEF KmmInv, OpenFileKeepsChunks, Positions
  <2>6. RefusedOnlyWhenNoRoom'
    <3>1. SUFFICES ASSUME ~hole, NEW a \in Base .. Base + Size - size
                   PROVE  \E b \in a .. a + size - 1 : ~FreeAddr(b)
      BY <1>u, <2>1 DEF RefusedOnlyWhenNoRoom, FreeAddr, ListIndices
    <3>c. Base \in Nat /\ Size \in Nat
      BY KmmConstants
    <3>2. size \in Nat \ {0} /\ ~hole /\ a \in Base .. (Base + Size) - size
      BY <1>0, <3>1, <3>c
    <3>3. \E b \in a .. (a + size) - 1 : ~FreeAddr(b)
      BY <1>2, <3>2, NoRoom
    <3>4. (a + size) - 1 = a + size - 1
      BY <3>2, <3>c
    <3> QED
      BY <3>3, <3>4
  <2> QED
    BY <2>2, <2>3, <2>4, <2>5, <2>6 DEF KmmInv
<1>3. CASE ~TooLarge(size) /\ chunk_list = <<>>
  <2>1. Grant(h, size, 0, Base)
    BY <1>1, <1>3 DEF alloc_mem
  <2>2. size <= available_size
    BY <1>0, <1>3, <1>t DEF TooLarge
  <2>3. 0 \in 0 .. n /\ n = 0
    BY <1>3, <1>t
  <2>4. Base \in Nat /\ Base % PageSize = 0
    BY KmmConstants
  <2>5. Base + size <= Base + Size
    <3>1. Base \in Nat /\ Size \in Nat
      BY KmmConstants
    <3>2. PICK f : IsSum(chunk_list, f) /\ available_size + f[n] = Size
      BY DEF KmmInv, KmmSum
    <3>3. f[n] \in Nat
      BY <1>t, <3>2, SumPositive
    <3> QED
      BY <1>0, <1>t, <2>2, <3>1, <3>2, <3>3
  <2> HIDE DEF n
  <2>6. ~(0 < Len(chunk_list)) /\ 0 \in 0 .. Len(chunk_list)
    BY <2>3 DEF n
  <2> QED
    BY <1>0, <1>1, <1>3, <1>u, <2>1, <2>2, <2>4, <2>5, <2>6, GrantStep
<1>4. CASE ~TooLarge(size) /\ chunk_list # <<>> /\ Fits(size) # {}
  <2> DEFINE k == Min(Fits(size))
             start == StartAt(k)
  <2>1. Grant(h, size, k, start)
    BY <1>1, <1>4 DEF alloc_mem
  <2>2. size <= available_size
    BY <1>0, <1>4, <1>t DEF TooLarge
  <2>3. k \in 0 .. n /\ Room(k) >= size
    <3>1. Fits(size) \in SUBSET Nat
      BY <1>t DEF Fits
    <3>2. k \in Fits(size)
      BY <1>4, <3>1, MinIs
    <3> HIDE DEF k
    <3> QED
      BY <3>2 DEF Fits
  <2> HIDE DEF k
  <2>n. n # 0
    BY <1>4, <1>t
  <2>4. start \in Nat
    <3>1. CASE k = 0
      <4>1. 1 \in 1 .. n /\ start = chunk_list[1].start
        BY <3>1, <2>n, <1>t DEF StartAt
      <4> QED
        BY <4>1, <1>t, EntryTyped
    <3>2. CASE k # 0
      <4>1. k \in 1 .. n /\ start = End(chunk_list[k])
        BY <3>2, <2>3, <1>t DEF StartAt
      <4> QED
        BY <4>1, <1>t, EntryTyped DEF End
    <3> QED
      BY <3>1, <3>2
  <2>5. ASSUME ~hole PROVE k # 0
    <3>1. SUFFICES ASSUME k = 0 PROVE FALSE
      OBVIOUS
    <3>2. chunk_list[1].start = Base
      BY <1>4, <2>5 DEF KmmInv, KmmLayout
    <3>3. Base \in Nat /\ 0 < WordMod /\ Base <= Base /\ Base - Base = 0
      BY KmmConstants
    <3>4. Sub(Base, Base) = 0
      BY <3>3, SubExact
    <3>5. Room(k) = Sub(Base, Base)
      <4>1. ~(0 \in 1 .. n - 1) /\ 0 # n
        BY <2>n, <1>t
      <4> QED
        BY <4>1, <3>1, <3>2 DEF Room
    <3> QED
      BY <3>4, <3>5, <2>3, <1>0
  <2>6. ASSUME ~hole
        PROVE  /\ start % PageSize = 0
               /\ Base <= start /\ start + size <= Base + Size
               /\ End(chunk_list[k]) <= start
               /\ k < n => start + size <= chunk_list[k + 1].start
    <3>1. k \in 1 .. n /\ start = End(chunk_list[k])
      BY <2>3, <2>5, <2>6, <1>t DEF StartAt
    <3>c. Base \in Nat /\ Size \in Nat /\ PageSize \in Nat \ {0}
      BY KmmConstants
    <3>2. /\ chunk_list[k].start \in Nat /\ chunk_list[k].size \in Nat
          /\ chunk_list[k].start % PageSize = 0 /\ chunk_list[k].size % PageSize = 0
          /\ End(chunk_list[k]) = chunk_list[k].start + chunk_list[k].size
          /\ Base <= chunk_list[k].start /\ End(chunk_list[k]) <= Base + Size
      BY <3>1, <2>6, ListLayout
    <3>3. start % PageSize = 0
      <4>1. (chunk_list[k].start + chunk_list[k].size) % PageSize = 0
        BY <3>2, <3>c, Aligned
      <4> QED
        BY <4>1, <3>1, <3>2
    <3>4. Base <= start /\ End(chunk_list[k]) <= start
      <4>1. start = chunk_list[k].start + chunk_list[k].size
        BY <3>1, <3>2
      <4>2. /\ chunk_list[k].start \in Nat /\ chunk_list[k].size \in Nat
            /\ Base <= chunk_list[k].start
        BY <3>2
      <4> HIDE DEF start
      <4> QED
        BY <4>1, <4>2, <3>c, <3>1, <2>4
    <3>5. Room(k) = IF k = n THEN (Base + Size) - start
                    ELSE chunk_list[k + 1].start - start
      BY <3>1, <2>6, RoomExact
    <3> HIDE DEF start, n
    <3>7. ASSUME k # n
          PROVE  start + size <= Base + Size /\ start + size <= chunk_list[k + 1].start
      <4> DEFINE j == k + 1
      <4>1. j \in 1 .. n
        BY <3>7, <3>1, <1>t
      <4>2. /\ chunk_list[j].start \in Nat /\ chunk_list[j].size \in Nat
            /\ End(chunk_list[j]) = chunk_list[j].start + chunk_list[j].size
            /\ End(chunk_list[j]) <= Base + Size
        BY <4>1, <2>6, ListLayout DEF n
      <4>3. Room(k) = chunk_list[j].start - start
        BY <3>7, <3>5
      <4>4. start + size <= chunk_list[j].start
        BY <4>2, <4>3, <2>3, <2>4, <1>0
      <4>5. start + size <= Base + Size
        BY <4>2, <4>4, <3>c, <2>4, <1>0
      <4> QED
        BY <4>4, <4>5
    <3>8. ASSUME k = n PROVE start + size <= Base + Size /\ ~(k < n)
      <4>1. Room(k) = (Base + Size) - start
        BY <3>8, <3>5
      <4>2. size \in Nat /\ (Base + Size) - start >= size
        BY <4>1, <2>3, <1>0
      <4>3. start + size <= Base + Size
        BY <4>2, <3>c, <2>4
      <4>4. ~(n < n)
        BY <1>t
      <4> QED
        BY <4>3, <4>4, <3>8
    <3> QED
      BY <3>3, <3>4, <3>7, <3>8
  <2>7. k \in 0 .. Len(chunk_list) /\ (k < n <=> k < Len(chunk_list))
    BY <2>3
  <2>8. k = 0 => chunk_list = <<>> \/ hole
    BY <2>5
  <2> HIDE DEF start, n
  <2> QED
    BY <1>0, <1>1, <1>u, <2>1, <2>2, <2>4, <2>5, <2>6, <2>7, <2>8, GrantStep
<1> QED
  BY <1>2, <1>3, <1>4

-----------------------------------------------------------------------------
(* A chunk goes back.                                                      *)

LEMMA FreeStep ==
    ASSUME KmmInv, NEW h \in Holders, NEW id \in held[h], Free(h, id)
    PROVE  KmmInv'
<1> DEFINE n == Len(chunk_list)
<1>0. KmmTypes /\ chunk_list \in Seq(Entry) /\ n \in Nat /\ available_size \in Nat
  BY EntryTyped DEF KmmInv, KmmTypes
<1>i. KmmIds /\ KmmLayout /\ KmmCount
  BY DEF KmmInv
<1>1. /\ held' = [held EXCEPT ![h] = @ \ {id}]
      /\ refused' = 0
      /\ UNCHANGED <<max_chunk, file_open_cnt, file, loaded, clash>>
  BY DEF Free, free_mem
<1>h. /\ held' \in [Holders -> SUBSET (0 .. IdMod - 1)]
      /\ \A x \in Holders : held'[x] \subseteq held[x]
      /\ \A x \in Holders : id \notin held'[x]
  <2>1. held \in [Holders -> SUBSET (0 .. IdMod - 1)]
    BY <1>0 DEF KmmTypes
  <2>2. \A x \in Holders : x # h => id \notin held[x]
    BY <1>i DEF KmmIds
  <2> QED
    BY <1>1, <2>1, <2>2
<1>k. KmmCount'
  BY <1>i, <1>1 DEF KmmCount, InCount, Counted
<1>r. RefusedOnlyWhenNoRoom'
  BY <1>1 DEF RefusedOnlyWhenNoRoom
<1>2. CASE Positions(id) = {}
  <2>1. UNCHANGED <<chunk_list, available_size, hole>>
    BY <1>2 DEF Free, free_mem
  <2>2. KmmTypes'
    BY <1>0, <1>1, <1>h, <2>1 DEF KmmTypes
  <2>3. KmmSum' /\ KmmLayout'
    BY <2>1 DEF KmmInv, KmmSum, KmmLayout, ChunksDisjoint, ListIndices
  <2>4. KmmIds'
    BY <2>1, <1>1, <1>h, <1>i DEF KmmIds
  <2>5. OpenFileKeepsChunks'
    BY <2>1, <1>1, <1>h DEF KmmInv, OpenFileKeepsChunks, Positions, Holders
  <2> QED
    BY <2>2, <2>3, <2>4, <2>5, <1>k, <1>r DEF KmmInv
<1>3. CASE Positions(id) # {}
  <2> DEFINE k == Min(Positions(id))
  <2>1. /\ chunk_list' = RemoveAt(chunk_list, k)
        /\ hole' = (chunk_list' # <<>> /\ (hole \/ k = 1))
        /\ available_size' = available_size + chunk_list[k].size
    BY <1>3 DEF Free, free_mem
  <2>2. k \in 1 .. n /\ chunk_list[k].id = id
    <3>1. Positions(id) \in SUBSET Nat
      BY DEF Positions
    <3>2. k \in Positions(id)
      BY <1>3, <3>1, MinIs
    <3> HIDE DEF k
    <3> QED
      BY <3>2 DEF Positions
  <2> HIDE DEF k
  <2>3. /\ chunk_list' \in Seq(Entry) /\ Len(chunk_list') = n - 1
        /\ \A j \in 1 .. n - 1 :
              chunk_list'[j] = IF j < k THEN chunk_list[j] ELSE chunk_list[j + 1]
    <3> DEFINE l == RemoveAt(chunk_list, k)
    <3>1. /\ l \in Seq(Entry) /\ Len(l) = n - 1
          /\ \A j \in 1 .. n - 1 : l[j] = IF j < k THEN chunk_list[j] ELSE chunk_list[j + 1]
      BY <1>0, <2>2, RemoveProperties
    <3> HIDE DEF l
    <3>2. chunk_list' = l
      BY <2>1 DEF l
    <3> QED
      BY <3>1, <3>2
  <2>4. KmmTypes'
    <3>1. available_size' \in Nat
      <4>1. chunk_list[k].size \in Nat
        BY <2>2, <1>0, EntryTyped
      <4> QED
        BY <4>1, <2>1, <1>0
    <3>2. hole' \in BOOLEAN
      BY <2>1
    <3> QED
      BY <3>1, <3>2, <2>3, <1>0, <1>1, <1>h DEF KmmTypes
  <2>5. KmmSum'
    <3>1. PICK f : IsSum(chunk_list, f) /\ available_size + f[n] = Size
      BY DEF KmmInv, KmmSum
    <3>2. PICK g : IsSum(chunk_list', g) /\ g[n - 1] = f[n] - chunk_list[k].size
      BY <1>0, <2>1, <2>2, <3>1, RemoveSum
    <3>3. f[n] \in Nat
      BY <1>0, <3>1, SumPositive
    <3>4. chunk_list[k].size \in Nat
      BY <2>2, <1>0, EntryTyped
    <3>5. available_size' + g[n - 1] = Size
      BY <2>1, <3>1, <3>2, <3>3, <3>4, <1>0
    <3> QED
      BY <3>2, <3>5, <2>3 DEF KmmSum
  <2> DEFINE old(j) == IF j < k THEN j ELSE j + 1
  <2>6. /\ \A j \in 1 .. n - 1 : old(j) \in 1 .. n /\ chunk_list'[j] = chunk_list[old(j)]
        /\ \A i, j \in 1 .. n - 1 : old(i) = old(j) => i = j
        /\ \A i \in 1 .. n : i # k => \E j \in 1 .. n - 1 : old(j) = i
    <3>1. \A j \in 1 .. n - 1 : old(j) \in 1 .. n /\ chunk_list'[j] = chunk_list[old(j)]
      BY <2>2, <2>3, <1>0
    <3>2. \A i, j \in 1 .. n - 1 : old(i) = old(j) => i = j
      BY <2>2, <1>0
    <3>3. ASSUME NEW i \in 1 .. n, i # k PROVE \E j \in 1 .. n - 1 : old(j) = i
      <4>1. CASE i < k
        <5>1. i \in 1 .. n - 1 /\ old(i) = i
          BY <4>1, <2>2, <1>0
        <5> QED
          BY <5>1
      <4>2. CASE i > k
        <5>1. i - 1 \in 1 .. n - 1 /\ old(i - 1) = i
          BY <4>2, <2>2, <1>0
        <5> QED
          BY <5>1
      <4> QED
        BY <4>1, <4>2, <3>3, <2>2
    <3> QED
      BY <3>1, <3>2, <3>3
  <2>7. KmmIds'
    <3>1. ASSUME NEW j \in 1 .. n - 1 PROVE chunk_list'[j].id \in 1 .. max_chunk' - 1
      BY <2>6, <1>1, <1>i DEF KmmIds
    <3>2. ASSUME NEW i \in 1 .. n - 1, NEW j \in 1 .. n - 1,
                 chunk_list'[i].id = chunk_list'[j].id
          PROVE  i = j
      <4> HIDE DEF old
      <4>1. old(i) = old(j)
        <5>1. /\ old(i) \in 1 .. n /\ old(j) \in 1 .. n
              /\ chunk_list[old(i)].id = chunk_list[old(j)].id
          BY <3>2, <2>6
        <5> QED
          BY <5>1, <1>i DEF KmmIds
      <4> QED
        BY <4>1, <2>6
    <3>3. \A x \in Holders : held'[x] \subseteq 1 .. max_chunk' - 1
      BY <1>1, <1>h, <1>i DEF KmmIds
    <3>4. \A x, y \in Holders : x # y => held'[x] \cap held'[y] = {}
      BY <1>h, <1>i DEF KmmIds
    <3> QED
      BY <3>1, <3>2, <3>3, <3>4, <2>3 DEF KmmIds
  <2>8. KmmLayout'
    <3>1. ASSUME NEW j \in 1 .. n - 1
          PROVE  chunk_list'[j].size > 0 /\ chunk_list'[j].size % PageSize = 0
      <4> HIDE DEF old
      <4> QED
        BY <2>6, <1>i DEF KmmLayout
    <3>2. ASSUME ~hole', NEW j \in 1 .. n - 1 PROVE ~hole /\ k > 1
      <4>1. chunk_list' # <<>>
        BY <2>3
      <4>2. hole \in BOOLEAN
        BY <1>0 DEF KmmTypes
      <4>3. ~hole /\ k # 1
        BY <4>1, <4>2, <3>2, <2>1, Zenon
      <4> QED
        BY <4>3, <2>2
    <3>3. ASSUME ~hole', chunk_list' # <<>> PROVE chunk_list'[1].start = Base
      <4>1. 1 \in 1 .. n - 1
        BY <3>3, <2>3, <1>0
      <4>2. ~hole /\ k > 1
        BY <4>1, <3>3, <3>2
      <4>3. chunk_list'[1] = chunk_list[1] /\ 1 \in 1 .. n
        BY <4>1, <4>2, <2>3, <1>0
      <4> QED
        BY <4>2, <4>3, ListLayout
    <3>4. ASSUME ~hole', NEW j \in 1 .. n - 1
          PROVE  /\ chunk_list'[j].start % PageSize = 0
                 /\ Base <= chunk_list'[j].start
                 /\ End(chunk_list'[j]) <= Base + Size
                 /\ j > 1 => End(chunk_list'[j - 1]) <= chunk_list'[j].start
      <4>1. ~hole /\ k > 1
        BY <3>4, <3>2
      <4>2. ASSUME NEW i \in 1 .. n
            PROVE  /\ chunk_list[i].start % PageSize = 0
                   /\ Base <= chunk_list[i].start
                   /\ End(chunk_list[i]) <= Base + Size
                   /\ i > 1 => End(chunk_list[i - 1]) <= chunk_list[i].start
                   /\ chunk_list[i].start \in Nat /\ End(chunk_list[i]) \in Nat
                   /\ chunk_list[i].start <= End(chunk_list[i])
        BY <4>1, ListLayout
      <4>3. CASE j < k
        <5>1. chunk_list'[j] = chunk_list[j] /\ j \in 1 .. n
          BY <4>3, <2>3, <1>0
        <5>2. j > 1 => chunk_list'[j - 1] = chunk_list[j - 1]
          BY <4>3, <2>3, <2>2, <1>0
        <5> QED
          BY <5>1, <5>2, <4>2
      <4>4. CASE j = k
        <5>1. /\ chunk_list'[j] = chunk_list[k + 1] /\ k + 1 \in 2 .. n
              /\ chunk_list'[j - 1] = chunk_list[k - 1] /\ k - 1 \in 1 .. n
          BY <4>4, <4>1, <2>3, <2>2, <1>0
        <5> DEFINE i == k + 1
        <5>2. i \in 1 .. n /\ i > 1 /\ i - 1 = k
          BY <5>1, <2>2
        <5>3. /\ chunk_list[i].start % PageSize = 0
              /\ Base <= chunk_list[i].start
              /\ End(chunk_list[i]) <= Base + Size
              /\ End(chunk_list[k]) <= chunk_list[i].start
              /\ chunk_list[i].start \in Nat
          <6> HIDE DEF i
          <6> QED
            BY <5>2, <4>2
        <5>4. /\ End(chunk_list[k - 1]) <= chunk_list[k].start
              /\ chunk_list[k].start <= End(chunk_list[k])
              /\ chunk_list[k].start \in Nat /\ End(chunk_list[k]) \in Nat
              /\ End(chunk_list[k - 1]) \in Nat
          BY <5>1, <4>1, <4>2, <2>2
        <5>5. End(chunk_list[k - 1]) <= chunk_list[i].start
          BY <5>3, <5>4
        <5> QED
          BY <5>1, <5>3, <5>5
      <4>5. CASE j > k
        <5>1. /\ chunk_list'[j] = chunk_list[j + 1] /\ j + 1 \in 2 .. n
              /\ chunk_list'[j - 1] = chunk_list[(j - 1) + 1]
          BY <4>5, <2>3, <2>2, <1>0
        <5> DEFINE i == j + 1
        <5>2. i \in 1 .. n /\ i > 1 /\ i - 1 = (j - 1) + 1
          BY <5>1
        <5>3. /\ chunk_list[i].start % PageSize = 0
              /\ Base <= chunk_list[i].start
              /\ End(chunk_list[i]) <= Base + Size
              /\ End(chunk_list[i - 1]) <= chunk_list[i].start
          <6> HIDE DEF i
          <6> QED
            BY <5>2, <4>2
        <5> QED
          BY <5>1, <5>2, <5>3
      <4> QED
        BY <4>3, <4>4, <4>5, <2>2
    <3>5. DOMAIN chunk_list' = 1 .. n - 1
      BY <2>3
    <3>6. ChunksDisjoint'
      BY <3>4, <3>5 DEF ChunksDisjoint, ListIndices, End
    <3> QED
      BY <3>1, <3>3, <3>6, <2>3 DEF KmmLayout
  <2>9. OpenFileKeepsChunks'
    <3>1. SUFFICES ASSUME ~clash, NEW p \in Procs, file[p] = "open", NEW x \in held'[p]
                   PROVE  \E j \in 1 .. n - 1 : chunk_list'[j].id = x
      BY <2>3, <1>1 DEF OpenFileKeepsChunks, Positions
    <3>2. x \in held[p] /\ x # id
      BY <3>1, <1>h DEF Holders
    <3>3. PICK i \in 1 .. n : chunk_list[i].id = x
      <4>1. Positions(x) # {}
        BY <3>1, <3>2 DEF KmmInv, OpenFileKeepsChunks
      <4> QED
        BY <4>1 DEF Positions
    <3>4. i # k
      BY <3>2, <3>3, <2>2
    <3> HIDE DEF old
    <3>5. PICK j \in 1 .. n - 1 : old(j) = i
      BY <3>4, <2>6
    <3> QED
      BY <3>3, <3>5, <2>6
  <2> QED
    BY <2>4, <2>5, <2>7, <2>8, <2>9, <1>k, <1>r DEF KmmInv
<1> QED
  BY <1>2, <1>3

-----------------------------------------------------------------------------
(* Open and close.                                                         *)

\* A process that has not opened the file holds nothing.
KmmClosed == \A p \in Procs : file[p] \in {"closed", "opening"} => held[p] = {}

LEMMA CountedFinite ==
    ASSUME ProcsCountable
    PROVE  /\ IsFiniteSet(Counted) /\ Cardinality(Counted) \in Nat
           /\ Cardinality(Counted) <= Cardinality(Procs)
           /\ Cardinality(Procs) \in Nat
<1>1. Counted \in SUBSET Procs
  BY DEF Counted
<1> QED
  BY <1>1, FS_Subset, FS_CardinalityType DEF ProcsCountable

\* The parts of the invariant that speak of the list stay when the list, the ids
\* and what was refused stay.
LEMMA ListStays ==
    ASSUME KmmInv,
           UNCHANGED <<chunk_list, available_size, max_chunk, held, refused, hole>>
    PROVE  KmmSum' /\ KmmIds' /\ KmmLayout' /\ RefusedOnlyWhenNoRoom'
<1>1. KmmSum'
  BY DEF KmmInv, KmmSum
<1>2. KmmIds'
  BY DEF KmmInv, KmmIds
<1>3. KmmLayout'
  BY DEF KmmInv, KmmLayout, ChunksDisjoint, ListIndices
<1>4. RefusedOnlyWhenNoRoom'
  BY DEF KmmInv, RefusedOnlyWhenNoRoom, FreeAddr, ListIndices
<1> QED
  BY <1>1, <1>2, <1>3, <1>4

LEMMA EnterStep ==
    ASSUME KmmInv, NEW p \in Procs, NEW from, NEW to,
           \/ from = "closed" /\ to = "opening"
           \/ from = "open" /\ to = "closing",
           EnterCount(p, from, to)
    PROVE  KmmInv'
<1>0. KmmTypes
  BY DEF KmmInv
<1>1. /\ file[p] = from /\ file' = [file EXCEPT ![p] = to]
      /\ loaded' = [loaded EXCEPT ![p] = file_open_cnt]
      /\ clash' = (clash \/ InCount # {})
      /\ UNCHANGED <<chunk_list, available_size, max_chunk, file_open_cnt, held,
                     refused, hole>>
  BY DEF EnterCount
<1>t. /\ file \in [Procs -> {"closed", "opening", "open", "closing", "released"}]
      /\ loaded \in [Procs -> 0 .. WordMod - 1] /\ file_open_cnt \in 0 .. WordMod - 1
      /\ clash \in BOOLEAN
  BY <1>0 DEF KmmTypes
<1>f. /\ file'[p] = to
      /\ \A q \in Procs : q # p => file'[q] = file[q] /\ loaded'[q] = loaded[q]
      /\ loaded'[p] = file_open_cnt
  BY <1>1, <1>t
<1>2. KmmTypes'
  <2>1. file' \in [Procs -> {"closed", "opening", "open", "closing", "released"}]
    BY <1>1, <1>t
  <2>2. loaded' \in [Procs -> 0 .. WordMod - 1]
    BY <1>1, <1>t
  <2>3. clash' \in BOOLEAN
    BY <1>1, <1>t
  <2> QED
    BY <1>0, <1>1, <2>1, <2>2, <2>3 DEF KmmTypes
<1>3. KmmSum' /\ KmmIds' /\ KmmLayout' /\ RefusedOnlyWhenNoRoom'
  BY <1>1, ListStays
<1>4. KmmCount'
  <2>1. SUFFICES ASSUME ~clash'
                 PROVE  /\ \A x, y \in InCount' : x = y
                        /\ file_open_cnt' = Cardinality(Counted')
                        /\ \A q \in Procs : file'[q] \in {"opening", "closing"}
                                              => loaded'[q] = file_open_cnt'
    BY DEF KmmCount
  <2>2. ~clash /\ InCount = {}
    BY <2>1, <1>1, <1>t, Zenon
  <2>3. Counted' = Counted
    BY <1>1, <1>f DEF Counted
  <2>4. \A q \in Procs : q # p => file[q] \notin {"opening", "closing", "released"}
    BY <2>2 DEF InCount
  <2>5. file_open_cnt = Cardinality(Counted)
    BY <2>2 DEF KmmInv, KmmCount
  <2>6. \A x, y \in InCount' : x = y
    BY <2>4, <1>f DEF InCount
  <2>7. ASSUME NEW q \in Procs, file'[q] \in {"opening", "closing"}
        PROVE  loaded'[q] = file_open_cnt'
    BY <2>7, <2>4, <1>f, <1>1
  <2> QED
    BY <2>3, <2>5, <2>6, <2>7, <1>1
<1>5. OpenFileKeepsChunks'
  <2>1. \A q \in Procs : file'[q] = "open" => file[q] = "open"
    BY <1>f
  <2>2. ~clash' => ~clash
    BY <1>1, <1>t, Zenon
  <2> QED
    BY <2>1, <2>2, <1>1 DEF KmmInv, OpenFileKeepsChunks, Positions
<1> QED
  BY <1>2, <1>3, <1>4, <1>5 DEF KmmInv

LEMMA StoreStep ==
    ASSUME KmmInv, KmmClosed, ProcsCountable, NEW p \in Procs,
           xib_open(p) \/ CloseStore(p)
    PROVE  KmmInv'
<1>0. KmmTypes
  BY DEF KmmInv
<1> DEFINE up == xib_open(p)
           to == IF up THEN "open" ELSE "released"
           stored == IF up THEN (loaded[p] + 1) % WordMod ELSE Sub(loaded[p], 1)
<1>1. /\ file[p] = (IF up THEN "opening" ELSE "closing")
      /\ file' = [file EXCEPT ![p] = to]
      /\ file_open_cnt' = stored
      /\ loaded' = [loaded EXCEPT ![p] = 0]
      /\ UNCHANGED <<chunk_list, available_size, max_chunk, held, refused, hole, clash>>
  BY DEF xib_open, CloseStore, StoreCount
<1> HIDE DEF up
<1>t. /\ file \in [Procs -> {"closed", "opening", "open", "closing", "released"}]
      /\ loaded \in [Procs -> 0 .. WordMod - 1] /\ file_open_cnt \in 0 .. WordMod - 1
  BY <1>0 DEF KmmTypes
<1>w. WordMod \in Nat \ {0}
  BY KmmConstants
<1>l. loaded[p] \in 0 .. WordMod - 1
  BY <1>t
<1>c. stored \in 0 .. WordMod - 1
  <2>1. (loaded[p] + 1) % WordMod \in 0 .. WordMod - 1
    BY <1>l, <1>w
  <2>2. Sub(loaded[p], 1) \in 0 .. WordMod - 1
    BY <1>l, <1>w DEF Sub
  <2> QED
    BY <2>1, <2>2
<1>f. /\ file'[p] = to
      /\ \A q \in Procs : q # p => file'[q] = file[q] /\ loaded'[q] = loaded[q]
  BY <1>1, <1>t
<1>2. KmmTypes'
  <2>1. file' \in [Procs -> {"closed", "opening", "open", "closing", "released"}]
    BY <1>1, <1>t
  <2>2. loaded' \in [Procs -> 0 .. WordMod - 1]
    BY <1>1, <1>t, <1>w
  <2> HIDE DEF stored
  <2> QED
    BY <1>0, <1>1, <1>c, <2>1, <2>2 DEF KmmTypes
<1>3. KmmSum' /\ KmmIds' /\ KmmLayout' /\ RefusedOnlyWhenNoRoom'
  BY <1>1, ListStays
<1>4. KmmCount'
  <2>1. SUFFICES ASSUME ~clash
                 PROVE  /\ \A x, y \in InCount' : x = y
                        /\ file_open_cnt' = Cardinality(Counted')
                        /\ \A q \in Procs : file'[q] \in {"opening", "closing"}
                                              => loaded'[q] = file_open_cnt'
    BY <1>1 DEF KmmCount
  <2>2. /\ \A x, y \in InCount : x = y
        /\ file_open_cnt = Cardinality(Counted) /\ loaded[p] = Cardinality(Counted)
    BY <2>1, <1>1 DEF KmmInv, KmmCount
  <2>3. p \in InCount
    BY <1>1 DEF InCount
  <2>4. \A q \in Procs : q # p => file[q] \notin {"opening", "closing", "released"}
    BY <2>2, <2>3 DEF InCount
  <2>5. \A x, y \in InCount' : x = y
    BY <2>4, <1>f DEF InCount
  <2>6. \A q \in Procs : file'[q] \notin {"opening", "closing"}
    BY <2>4, <1>f
  <2>7. /\ IsFiniteSet(Counted) /\ Cardinality(Counted) \in Nat
        /\ Cardinality(Counted) <= Cardinality(Procs)
        /\ Cardinality(Procs) \in Nat /\ IsFiniteSet(Procs)
        /\ Cardinality(Procs) < WordMod
    BY CountedFinite DEF ProcsCountable
  <2>8. CASE up
    <3>1. Counted' = Counted \cup {p} /\ p \notin Counted
      BY <2>8, <1>1, <1>f DEF Counted
    <3>2. Cardinality(Counted') = Cardinality(Counted) + 1
      BY <3>1, <2>7, FS_AddElement
    <3>3. Cardinality(Counted') <= Cardinality(Procs)
      <4>1. Counted' \in SUBSET Procs
        BY DEF Counted
      <4> QED
        BY <4>1, <2>7, FS_Subset
    <3>4. loaded[p] + 1 \in 0 .. WordMod - 1
      BY <3>2, <3>3, <2>2, <2>7, <1>w
    <3> DEFINE x == loaded[p] + 1
    <3>5. x % WordMod = x
      <4> HIDE DEF x
      <4>1. x = WordMod * 0 + x /\ x \in 0 .. WordMod - 1
        BY <3>4, <1>w DEF x
      <4>2. (WordMod * 0 + x) % WordMod = x
        BY <4>1, <1>w, ModOfTurns
      <4> QED
        BY <4>1, <4>2
    <3>6. file_open_cnt' = loaded[p] + 1
      BY <3>5, <2>8, <1>1
    <3> QED
      BY <3>2, <3>6, <2>2, <2>5, <2>6
  <2>9. CASE ~up
    <3>1. Counted' = Counted \ {p} /\ p \in Counted
      BY <2>9, <1>1, <1>f DEF Counted
    <3>2. Cardinality(Counted') = Cardinality(Counted) - 1
      BY <3>1, <2>7, FS_RemoveElement
    <3>3. Cardinality(Counted) # 0
      BY <3>1, <2>7, FS_EmptySet
    <3>4. Sub(loaded[p], 1) = loaded[p] - 1
      <4>1. loaded[p] \in Nat /\ 1 <= loaded[p] /\ loaded[p] - 1 < WordMod
        BY <3>3, <2>2, <2>7, <1>w
      <4> QED
        BY <4>1, SubExact
    <3>5. file_open_cnt' = loaded[p] - 1
      BY <3>4, <2>9, <1>1
    <3> QED
      BY <3>2, <3>5, <2>2, <2>5, <2>6
  <2> QED
    BY <2>8, <2>9
<1>5. OpenFileKeepsChunks'
  <2>1. ASSUME NEW q \in Procs, file'[q] = "open" PROVE file[q] = "open" \/ held[q] = {}
    <3>1. CASE q = p
      BY <3>1, <2>1, <1>1, <1>f DEF KmmClosed
    <3>2. CASE q # p
      BY <3>2, <2>1, <1>f
    <3> QED
      BY <3>1, <3>2
  <2> QED
    BY <2>1, <1>1 DEF KmmInv, OpenFileKeepsChunks, Positions
<1> QED
  BY <1>2, <1>3, <1>4, <1>5 DEF KmmInv

LEMMA CloseStep ==
    ASSUME KmmInv, ProcsCountable, NEW p \in Procs, xib_close(p)
    PROVE  KmmInv'
<1>0. KmmTypes /\ chunk_list \in Seq(Entry) /\ available_size \in Nat
  BY DEF KmmInv, KmmTypes
<1>1. /\ file[p] = "released"
      /\ file' = [file EXCEPT ![p] = "closed"]
      /\ held' = [held EXCEPT ![p] = {}]
      /\ refused' = 0
      /\ UNCHANGED <<max_chunk, file_open_cnt, loaded, clash>>
  BY DEF xib_close
<1>t. /\ file \in [Procs -> {"closed", "opening", "open", "closing", "released"}]
      /\ held \in [Holders -> SUBSET (0 .. IdMod - 1)]
  BY <1>0 DEF KmmTypes
<1>f. file'[p] = "closed" /\ \A q \in Procs : q # p => file'[q] = file[q]
  BY <1>1, <1>t
<1>h. /\ held' \in [Holders -> SUBSET (0 .. IdMod - 1)]
      /\ \A x \in Holders : held'[x] \subseteq held[x]
  BY <1>1, <1>t
<1>2. KmmCount'
  <2>1. Counted' = Counted
    BY <1>1, <1>f DEF Counted
  <2>2. InCount' \subseteq InCount
    BY <1>f DEF InCount
  <2>3. \A q \in Procs : file'[q] \in {"opening", "closing"} => file'[q] = file[q]
    BY <1>f
  <2> QED
    BY <2>1, <2>2, <2>3, <1>1 DEF KmmInv, KmmCount
<1>3. RefusedOnlyWhenNoRoom'
  BY <1>1 DEF RefusedOnlyWhenNoRoom
<1>4. file' \in [Procs -> {"closed", "opening", "open", "closing", "released"}]
  BY <1>1, <1>t
<1>i. KmmIds /\ KmmLayout
  BY DEF KmmInv
<1>j. /\ \A x \in Holders : held'[x] \subseteq 1 .. max_chunk' - 1
      /\ \A x, y \in Holders : x # y => held'[x] \cap held'[y] = {}
  BY <1>1, <1>h, <1>i DEF KmmIds
<1>5. CASE file_open_cnt # 0
  <2>1. UNCHANGED <<chunk_list, available_size, hole>>
    BY <1>5 DEF xib_close
  <2>2. KmmTypes'
    BY <1>0, <1>1, <1>4, <1>h, <2>1 DEF KmmTypes
  <2>3. KmmSum' /\ KmmLayout'
    BY <2>1 DEF KmmInv, KmmSum, KmmLayout, ChunksDisjoint, ListIndices
  <2>4. KmmIds'
    BY <2>1, <1>1, <1>i, <1>j DEF KmmIds
  <2>5. OpenFileKeepsChunks'
    <3>1. \A q \in Procs : file'[q] = "open" => file[q] = "open"
      BY <1>f
    <3> QED
      BY <3>1, <2>1, <1>1, <1>h DEF KmmInv, OpenFileKeepsChunks, Positions, Holders
  <2> QED
    BY <2>2, <2>3, <2>4, <2>5, <1>2, <1>3 DEF KmmInv
<1>6. CASE file_open_cnt = 0
  <2>1. /\ chunk_list' = <<>> /\ hole' = FALSE
        /\ available_size' = available_size + TotalSize(chunk_list)
    BY <1>6 DEF xib_close, FreeEveryChunk
  <2>2. PICK f : IsSum(chunk_list, f) /\ available_size + f[Len(chunk_list)] = Size
    BY DEF KmmInv, KmmSum
  <2>3. available_size' = Size
    <3>1. TotalSize(chunk_list) = f[Len(chunk_list)]
      BY <1>0, <2>2, TotalSizeIs
    <3> QED
      BY <3>1, <2>1, <2>2
  <2>4. chunk_list' \in Seq(Entry) /\ Len(chunk_list') = 0 /\ DOMAIN chunk_list' = {}
    BY <2>1
  <2>c. Size \in Nat
    BY KmmConstants
  <2>5. KmmTypes'
    BY <1>0, <1>1, <1>4, <1>h, <2>1, <2>3, <2>4, <2>c DEF KmmTypes
  <2>6. KmmSum'
    <3> DEFINE g == [i \in 0 .. 0 |-> 0]
    <3>1. IsSum(chunk_list', g) /\ g[Len(chunk_list')] = 0
      BY <2>4 DEF IsSum
    <3> HIDE DEF g
    <3>2. available_size' + g[Len(chunk_list')] = Size
      BY <3>1, <2>3, <2>c
    <3> QED
      BY <3>1, <3>2 DEF KmmSum
  <2>7. KmmIds'
    BY <1>j, <2>4 DEF KmmIds
  <2>8. KmmLayout'
    BY <2>1, <2>4 DEF KmmLayout, ChunksDisjoint, ListIndices
  <2>9. OpenFileKeepsChunks'
    <3>1. SUFFICES ASSUME ~clash, NEW q \in Procs, file'[q] = "open" PROVE FALSE
      BY <1>1 DEF OpenFileKeepsChunks
    <3>2. q \in Counted
      BY <3>1, <1>f DEF Counted
    <3>3. Cardinality(Counted) = 0
      BY <3>1, <1>6 DEF KmmInv, KmmCount
    <3>4. IsFiniteSet(Counted)
      BY CountedFinite
    <3> QED
      BY <3>2, <3>3, <3>4, FS_EmptySet
  <2> QED
    BY <2>5, <2>6, <2>7, <2>8, <2>9, <1>2, <1>3 DEF KmmInv
<1> QED
  BY <1>5, <1>6

LEMMA ClosedStep ==
    ASSUME KmmInv, KmmClosed, [Next]_vars
    PROVE  KmmClosed'
<1>t. /\ file \in [Procs -> {"closed", "opening", "open", "closing", "released"}]
      /\ held \in [Holders -> SUBSET (0 .. IdMod - 1)]
  BY DEF KmmInv, KmmTypes
<1>s. Procs \subseteq Holders /\ Kern \notin Procs
  BY KmmConstants DEF Holders
<1>1. ASSUME NEW h \in Holders, NEW sz \in Sizes, Alloc(h, sz) PROVE KmmClosed'
  <2>1. file' = file /\ h \in Callers
        /\ (held' = held \/ held' = [held EXCEPT ![h] = @ \cup {ChunkId}])
    BY <1>1 DEF Alloc, alloc_mem, Grant
  <2> QED
    BY <2>1, <1>t, <1>s DEF KmmClosed, Callers
<1>2. ASSUME NEW h \in Holders, NEW id \in held[h], Free(h, id) PROVE KmmClosed'
  <2>1. file' = file /\ held' = [held EXCEPT ![h] = @ \ {id}]
    BY <1>2 DEF Free, free_mem
  <2> QED
    BY <2>1, <1>t, <1>s DEF KmmClosed
<1>3. ASSUME NEW p \in Procs, OpenEnter(p) PROVE KmmClosed'
  BY <1>3, <1>t DEF KmmClosed, OpenEnter, EnterCount
<1>4. ASSUME NEW p \in Procs, xib_open(p) PROVE KmmClosed'
  BY <1>4, <1>t DEF KmmClosed, xib_open, StoreCount
<1>5. ASSUME NEW p \in Procs, CloseEnter(p) PROVE KmmClosed'
  BY <1>5, <1>t DEF KmmClosed, CloseEnter, EnterCount
<1>6. ASSUME NEW p \in Procs, CloseStore(p) PROVE KmmClosed'
  BY <1>6, <1>t DEF KmmClosed, CloseStore, StoreCount
<1>7. ASSUME NEW p \in Procs, xib_close(p) PROVE KmmClosed'
  <2>1. file' = [file EXCEPT ![p] = "closed"] /\ held' = [held EXCEPT ![p] = {}]
    BY <1>7 DEF xib_close
  <2> QED
    BY <2>1, <1>t, <1>s DEF KmmClosed
<1>8. CASE UNCHANGED vars
  BY <1>8 DEF vars, KmmClosed
<1> QED
  BY <1>1, <1>2, <1>3, <1>4, <1>5, <1>6, <1>7, <1>8 DEF Next

LEMMA KmmStep ==
    ASSUME KmmInv, KmmClosed, IdsSuffice, ProcsCountable, [Next]_vars
    PROVE  KmmInv'
<1>1. ASSUME NEW p \in Procs, OpenEnter(p) PROVE KmmInv'
  BY <1>1, EnterStep DEF OpenEnter
<1>2. ASSUME NEW p \in Procs, CloseEnter(p) PROVE KmmInv'
  BY <1>2, EnterStep DEF CloseEnter
<1>3. CASE UNCHANGED vars
  <2>1. KmmTypes'
    BY <1>3 DEF vars, KmmInv, KmmTypes
  <2>2. KmmSum' /\ KmmIds' /\ KmmLayout' /\ RefusedOnlyWhenNoRoom'
    BY <1>3, ListStays DEF vars
  <2>3. KmmCount'
    BY <1>3 DEF vars, KmmInv, KmmCount, InCount, Counted
  <2>4. OpenFileKeepsChunks'
    BY <1>3 DEF vars, KmmInv, OpenFileKeepsChunks, Positions
  <2> QED
    BY <2>1, <2>2, <2>3, <2>4 DEF KmmInv
<1> QED
  BY <1>1, <1>2, <1>3, AllocStep, FreeStep, StoreStep, CloseStep DEF Next

-----------------------------------------------------------------------------
(* Its theorems.  They hold as long as fewer chunks are handed out than    *)
(* there are ids and fewer processes use the file than it can count.       *)

\* The list, its sums, its ids and its addresses, the count of open files, and
\* the two promises alloc_mem and xib_close make, hold together in every state.
THEOREM KmmInvariant ==
    ASSUME IdsSuffice, ProcsCountable
    PROVE  Spec => [](KmmInv /\ KmmClosed)
<1>1. Init => KmmInv /\ KmmClosed
  <2>1. ASSUME Init PROVE KmmClosed
    BY <2>1 DEF Init, KmmClosed, Holders
  <2> QED
    BY <2>1, KmmInitInv
<1>2. KmmInv /\ KmmClosed /\ [Next]_vars => KmmInv' /\ KmmClosed'
  BY KmmStep, ClosedStep
<1> QED
  BY <1>1, <1>2, PTL DEF Spec

\* Every field keeps the values of its type: available_size never wraps below 0
\* and never exceeds the region, however often chunks are freed twice or swept
\* away by the last close.
THEOREM KmmTypeCorrect ==
    ASSUME IdsSuffice, ProcsCountable
    PROVE  Spec => []TypeOK
<1>1. KmmInv => TypeOK
  <2> SUFFICES ASSUME KmmInv PROVE TypeOK
    OBVIOUS
  <2>0. KmmTypes
    BY DEF KmmInv
  <2>2. available_size \in 0 .. Size
    <3>1. PICK f : IsSum(chunk_list, f) /\ available_size + f[Len(chunk_list)] = Size
      BY DEF KmmInv, KmmSum
    <3>2. f[Len(chunk_list)] \in Nat
      BY <2>0, <3>1, SumPositive DEF KmmTypes
    <3>3. Size \in Nat /\ available_size \in Nat
      BY <2>0, KmmConstants DEF KmmTypes
    <3> QED
      BY <3>1, <3>2, <3>3
  <2> QED
    BY <2>0, <2>2 DEF KmmTypes, TypeOK, Entry
<1> QED
  BY <1>1, KmmInvariant, PTL

\* What alloc_mem believes is available and what the chunks on the list take
\* always make up the region.
THEOREM KmmAvailableExact ==
    ASSUME IdsSuffice, ProcsCountable
    PROVE  Spec => []AvailableExact
<1>1. KmmInv => AvailableExact
  <2> SUFFICES ASSUME KmmInv PROVE AvailableExact
    OBVIOUS
  <2>2. PICK f : IsSum(chunk_list, f) /\ available_size + f[Len(chunk_list)] = Size
    BY DEF KmmInv, KmmSum
  <2>3. TotalSize(chunk_list) = f[Len(chunk_list)]
    BY <2>2, TotalSizeIs DEF KmmInv, KmmTypes
  <2> QED
    BY <2>2, <2>3 DEF AvailableExact
<1> QED
  BY <1>1, KmmInvariant, PTL

\* A chunk id names one chunk and belongs to one holder.
THEOREM KmmIdNamesOneChunk ==
    ASSUME IdsSuffice, ProcsCountable
    PROVE  Spec => []IdNamesOneChunk
<1>1. KmmInv => IdNamesOneChunk
  <2> SUFFICES ASSUME KmmInv PROVE IdNamesOneChunk
    OBVIOUS
  <2>2. DOMAIN chunk_list = 1 .. Len(chunk_list)
    BY DEF KmmInv, KmmTypes
  <2> QED
    BY <2>2 DEF KmmInv, KmmIds, IdNamesOneChunk, ListIndices
<1> QED
  BY <1>1, KmmInvariant, PTL

\* Until the first chunk is freed before the others, the chunks lie in the
\* region, on page borders, in list order and apart from each other.
THEOREM KmmChunksDisjoint ==
    ASSUME IdsSuffice, ProcsCountable
    PROVE  Spec => []ChunksDisjoint
<1>1. KmmInv => ChunksDisjoint
  BY DEF KmmInv, KmmLayout
<1> QED
  BY <1>1, KmmInvariant, PTL

\* No process's close takes away a chunk of a process that has the file open, as
\* long as no two processes are in open or close at the same time.
THEOREM KmmOpenFileKeepsChunks ==
    ASSUME IdsSuffice, ProcsCountable
    PROVE  Spec => []OpenFileKeepsChunks
<1>1. KmmInv => OpenFileKeepsChunks
  BY DEF KmmInv
<1> QED
  BY <1>1, KmmInvariant, PTL

\* alloc_mem refuses only when no free stretch of the region could hold the
\* request, until the first chunk is freed before the others.
THEOREM KmmRefusedOnlyWhenNoRoom ==
    ASSUME IdsSuffice, ProcsCountable
    PROVE  Spec => []RefusedOnlyWhenNoRoom
<1>1. KmmInv => RefusedOnlyWhenNoRoom
  BY DEF KmmInv
<1> QED
  BY <1>1, KmmInvariant, PTL

-----------------------------------------------------------------------------
(* The run checks the memory manager side by side with the bit operations. *)

LEMMA PartsRunTheManager == PartsSpec => Spec
<1>1. PartsInit => Init
  BY DEF PartsInit
<1>2. [PartsNext]_<<part, vars, bitVars>> => [Next]_vars
  BY DEF PartsNext
<1> QED
  BY <1>1, <1>2, PTL DEF PartsSpec, Spec

\* The list of chunks is sound: an id names one chunk of one holder, chunks never
\* share an address, and available_size is what they leave of the region.
THEOREM KmmListSound ==
    ASSUME IdsSuffice, ProcsCountable
    PROVE  PartsSpec => []ListSound
<1>1. TypeOK /\ AvailableExact /\ IdNamesOneChunk /\ ChunksDisjoint => ListSound
  BY DEF ListSound
<1> QED
  BY <1>1, PartsRunTheManager, KmmTypeCorrect, KmmAvailableExact, KmmIdNamesOneChunk,
     KmmChunksDisjoint, PTL

-----------------------------------------------------------------------------
(* The bit maps of the user memory manager.  A search over a set D that    *)
(* goes from x to nxt[x] until it meets a member of stop, where it answers *)
(* val[x], is a recursive function; it exists when a measure goes down     *)
(* with every pass.                                                        *)

SearchOn(D, stop, nxt, val, f) ==
    f = [x \in D |-> IF x \in stop THEN val[x] ELSE f[nxt[x]]]

Descends(D, stop, nxt, top, mu) ==
    /\ top \in Nat /\ mu \in [D -> 0 .. top - 1]
    /\ \A x \in D \ stop : nxt[x] \in D /\ mu[nxt[x]] < mu[x]

\* The search stays inside a part of D, and what it answers there is in Answers.
StaysInside(D, stop, nxt, val, Inside, Answers) ==
    /\ Inside \subseteq D
    /\ \A x \in Inside \ stop : nxt[x] \in Inside
    /\ \A x \in Inside \cap stop : val[x] \in Answers

LEMMA SearchExists ==
    ASSUME NEW D, NEW stop, NEW nxt, NEW val, NEW top, NEW mu, Descends(D, stop, nxt, top, mu)
    PROVE  \E f : SearchOn(D, stop, nxt, val, f)
<1> DEFINE Below(n) == {x \in D : mu[x] < n}
           Is(n, f) == f = [x \in Below(n) |-> IF x \in stop THEN val[x] ELSE f[nxt[x]]]
           S == {n \in Nat : ~ \E f : Is(n, f)}
<1> USE DEF Descends
<1>1. ASSUME NEW n \in Nat, NEW f, Is(n, f)
      PROVE  \E g : Is(n + 1, g)
  <2> DEFINE g == [x \in Below(n + 1) |->
                     IF x \in stop THEN val[x] ELSE f[nxt[x]]]
  <2>1. ASSUME NEW x \in Below(n + 1), x \notin stop
        PROVE  nxt[x] \in Below(n) /\ nxt[x] \in Below(n + 1)
    BY <2>1
  <2>2. ASSUME NEW x \in Below(n) PROVE g[x] = f[x]
    <3>1. x \in Below(n + 1)
      OBVIOUS
    <3>2. g[x] = IF x \in stop THEN val[x] ELSE f[nxt[x]]
      BY <3>1
    <3>3. f[x] = IF x \in stop THEN val[x] ELSE f[nxt[x]]
      BY <1>1
    <3> QED
      BY <3>2, <3>3
  <2>3. ASSUME NEW x \in Below(n + 1)
        PROVE  (IF x \in stop THEN val[x] ELSE f[nxt[x]])
                 = (IF x \in stop THEN val[x] ELSE g[nxt[x]])
    BY <2>1, <2>2
  <2>4. g = [x \in Below(n + 1) |-> IF x \in stop THEN val[x] ELSE g[nxt[x]]]
    <3> HIDE DEF Below
    <3> QED
      BY <2>3
  <2> QED
    BY <2>4
<1>2. S = {}
  <2> SUFFICES ASSUME S # {} PROVE FALSE
    OBVIOUS
  <2>1. PICK n \in S : \A m \in S : n <= m
    <3> HIDE DEF Is
    <3> QED
      BY LeastElement
  <2>2. n # 0
    <3>1. Below(0) = {}
      OBVIOUS
    <3> DEFINE e == [x \in {} |-> 0]
    <3>2. e = [x \in Below(0) |-> IF x \in stop THEN val[x] ELSE e[nxt[x]]]
      BY <3>1
    <3>3. Is(0, e)
      BY <3>2
    <3> HIDE DEF Is
    <3> QED
      BY <3>3
  <2> HIDE DEF Is
  <2>3. n - 1 \in Nat /\ n - 1 \notin S
    BY <2>1, <2>2
  <2>4. PICK f : Is(n - 1, f)
    BY <2>3
  <2>5. \E g : Is((n - 1) + 1, g)
    BY <2>3, <2>4, <1>1
  <2>6. (n - 1) + 1 = n
    OBVIOUS
  <2> QED
    BY <2>1, <2>5, <2>6

<1>3. \E f : Is(top, f)
  <2> HIDE DEF Is
  <2> QED
    BY <1>2
<1>4. Below(top) = D
  OBVIOUS
<1> QED
  BY <1>3, <1>4 DEF SearchOn

LEMMA SearchAnswers ==
    ASSUME NEW D, NEW stop, NEW nxt, NEW val, NEW top, NEW mu, NEW f, NEW Inside, NEW Answers,
           Descends(D, stop, nxt, top, mu), SearchOn(D, stop, nxt, val, f),
           StaysInside(D, stop, nxt, val, Inside, Answers)
    PROVE  \A x \in Inside : f[x] \in Answers
<1> USE DEF Descends, StaysInside
<1> DEFINE S == {n \in Nat : \E x \in Inside : mu[x] = n /\ f[x] \notin Answers}
<1> SUFFICES ASSUME NEW x \in Inside, f[x] \notin Answers PROVE FALSE
  OBVIOUS
<1>1. mu[x] \in S
  OBVIOUS
<1>2. PICK n \in S : \A m \in S : n <= m
  BY <1>1, LeastElement, ZenonT(30)
<1>3. PICK y \in Inside : mu[y] = n /\ f[y] \notin Answers
  OBVIOUS
<1>4. f[y] = IF y \in stop THEN val[y] ELSE f[nxt[y]]
  BY DEF SearchOn
<1>5. y \notin stop /\ nxt[y] \in Inside /\ f[nxt[y]] \notin Answers
  BY <1>3, <1>4
<1>6. mu[nxt[y]] \in S /\ mu[nxt[y]] < n
  BY <1>3, <1>5
<1> QED
  BY <1>2, <1>6

-----------------------------------------------------------------------------
(* The bits of one int.                                                    *)

\* An int counts further than its bits.
WidthOfInt == 2 ^ BITS_IN_INT \in Nat /\ BITS_IN_INT < 2 ^ BITS_IN_INT

LEMMA USubExact ==
    ASSUME WidthOfInt, NEW a \in 0 .. BITS_IN_INT, NEW b \in 0 .. a
    PROVE  USub(a, b) = a - b
<1> DEFINE M == 2 ^ BITS_IN_INT
<1>1. M \in Nat \ {0} /\ BITS_IN_INT < M /\ BITS_IN_INT \in Nat
  BY WidthAssumption DEF WidthOfInt
<1>2. USub(a, b) = (a - b) % M
  BY DEF USub
<1> HIDE DEF M
<1>3. a - b \in 0 .. M - 1 /\ a - b = M * 0 + (a - b)
  BY <1>1
<1>4. (M * 0 + (a - b)) % M = a - b
  BY <1>1, <1>3, ModOfTurns
<1> QED
  BY <1>2, <1>3, <1>4

LEMMA USubTyped ==
    ASSUME WidthOfInt, NEW a \in 0 .. BITS_IN_INT, NEW b \in 0 .. BITS_IN_INT
    PROVE  USub(a, b) \in Nat /\ USub(USub(a, b), 0) = USub(a, b)
<1> DEFINE M == 2 ^ BITS_IN_INT
           d == (a - b) % M
<1>1. M \in Nat \ {0} /\ BITS_IN_INT \in Nat
  BY WidthAssumption DEF WidthOfInt
<1>2. USub(a, b) = d /\ USub(d, 0) = (d - 0) % M
  BY DEF USub
<1> HIDE DEF M
<1>3. d \in 0 .. M - 1
  BY <1>1
<1> HIDE DEF d
<1>4. d - 0 = M * 0 + d
  BY <1>1, <1>3
<1>5. (M * 0 + d) % M = d
  BY <1>1, <1>3, ModOfTurns
<1> QED
  BY <1>2, <1>3, <1>4, <1>5

\* The zeroes that follow a bit, up to one that is none or to the last.
LEMMA CtzCounts ==
    ASSUME NEW val, NEW from, NEW nbits, USub(nbits, from) \in Nat
    PROVE  LET n == ctz(val, from, nbits)
           IN  /\ n \in 0 .. USub(nbits, from)
               /\ \A i \in 0 .. n - 1 : i \notin ShiftRight(val, from)
               /\ n < USub(nbits, from) => n \in ShiftRight(val, from)
<1> DEFINE d == USub(nbits, from)
           Z(k) == \A i \in 0 .. k - 1 : i \notin ShiftRight(val, from)
           K == {k \in 0 .. d : Z(k)}
           n == ctz(val, from, nbits)
<1>1. d \in Nat
  OBVIOUS
<1>2. n = Max(K)
  BY DEF ctz
<1> HIDE DEF d
<1>3. 0 \in K
  BY <1>1
<1>4. \E x \in K : \A y \in K : x >= y
  <2> DEFINE S == {m \in 0 .. d : d - m \in K}
  <2>1. d \in S
    BY <1>1, <1>3
  <2>2. PICK m \in S : \A q \in S : m <= q
    <3> HIDE DEF K, d
    <3>1. S \in SUBSET Nat /\ S # {}
      BY <1>1, <2>1
    <3> HIDE DEF S
    <3> QED
      BY <3>1, LeastElement
  <2>3. ASSUME NEW y \in K PROVE d - m >= y
    <3>1. y \in 0 .. d
      OBVIOUS
    <3>2. d - y \in 0 .. d /\ d - (d - y) = y
      BY <3>1, <1>1
    <3>3. d - y \in S
      BY <3>2
    <3> QED
      BY <2>2, <3>1, <3>3, <1>1
  <2> QED
    BY <2>2, <2>3
<1>5. n \in K /\ \A y \in K : n >= y
  BY <1>2, <1>4 DEF Max
<1>6. n \in 0 .. d /\ Z(n)
  BY <1>5
<1>7. ASSUME n < d PROVE n \in ShiftRight(val, from)
  <2> SUFFICES ASSUME n \notin ShiftRight(val, from) PROVE FALSE
    OBVIOUS
  <2>1. n + 1 \in 0 .. d
    BY <1>6, <1>7, <1>1
  <2>2. Z(n + 1)
    <3> SUFFICES ASSUME NEW i \in 0 .. (n + 1) - 1 PROVE i \notin ShiftRight(val, from)
      OBVIOUS
    <3>1. i \in 0 .. n - 1 \/ i = n
      BY <1>6, <1>1
    <3> QED
      BY <3>1, <1>6
  <2> QED
    BY <2>1, <2>2, <1>5, <1>6
<1> HIDE DEF n
<1> QED
  BY <1>6, <1>7 DEF n, d

\* ffz: the next zero from a bit on, or the width; the int may have fewer bits.
LEMMA FfzFinds ==
    ASSUME WidthOfInt, NEW w \in 1 .. BITS_IN_INT, NEW val \in SUBSET (0 .. w - 1),
           NEW from \in 0 .. BITS_IN_INT
    PROVE  LET hit == ffz(val, from, w)
           IN  /\ hit \in 0 .. BITS_IN_INT
               /\ hit < BITS_IN_INT => hit \notin val /\ from < BITS_IN_INT
               /\ val = {} => from = BITS_IN_INT \/ hit = 0
               /\ val # {} => hit >= from
               /\ \A i \in from .. hit - 1 : i \in val
<1>0. BITS_IN_INT \in Nat \ {0}
  BY WidthAssumption
<1>1. CASE from >= BITS_IN_INT
  <2>1. ffz(val, from, w) = BITS_IN_INT /\ from = BITS_IN_INT
    BY <1>0, <1>1 DEF ffz
  <2> QED
    BY <2>1, <1>0
<1>2. CASE from < BITS_IN_INT /\ val = {}
  <2>1. ffz(val, from, w) = 0
    BY <1>0, <1>2 DEF ffz
  <2> QED
    BY <2>1, <1>0, <1>2
<1>3. CASE from < BITS_IN_INT /\ val = Bits
  <2>1. val # {}
    BY <1>0, <1>3 DEF Bits
  <2>2. ffz(val, from, w) = BITS_IN_INT
    BY <1>0, <1>3, <2>1 DEF ffz
  <2>3. \A i \in from .. BITS_IN_INT - 1 : i \in val
    BY <1>0, <1>3 DEF Bits
  <2> QED
    BY <2>1, <2>2, <2>3, <1>0, <1>3
<1>4. CASE from < BITS_IN_INT /\ val # {} /\ val # Bits
  <2> DEFINE d == USub(w, from)
             ones == Bits \ ShiftRight(val, from)
             n == ctz(ones, 0, d)
  <2>1. d \in Nat /\ USub(d, 0) = d
    BY <1>0, USubTyped
  <2> DEFINE hit == ffz(val, from, w)
  <2>2. hit = n + from
    <3>1. ffz(val, from, w) = count_trailing_ones(ShiftRight(val, from), USub(w, from)) + from
      <4>1. ~(from >= BITS_IN_INT \/ w > BITS_IN_INT)
        BY <1>0, <1>4
      <4> QED
        BY <4>1, <1>4, Zenon DEF ffz
    <3>2. count_trailing_ones(ShiftRight(val, from), USub(w, from)) = n
      BY DEF count_trailing_ones
    <3> QED
      BY <3>1, <3>2
  <2>3. /\ n \in 0 .. d
        /\ \A i \in 0 .. n - 1 : i \notin ShiftRight(ones, 0)
        /\ n < d => n \in ShiftRight(ones, 0)
    <3> HIDE DEF ones, d
    <3> QED
      BY <2>1, CtzCounts
  <2>4. ASSUME NEW i \in Bits PROVE i \in ShiftRight(ones, 0) <=> i + from \notin val
    BY <1>0, <2>4 DEF ShiftRight, Bits
  <2>5. ASSUME NEW i \in 0 .. n - 1, i \in Bits PROVE i + from \in val
    BY <2>3, <2>4, <2>5
  <2>6. CASE from <= w
    <3>1. d = w - from
      BY <2>6, <1>0, USubExact
    <3>2. n \in 0 .. w - from
      BY <2>3, <3>1
    <3>3. n + from \notin val
      <4>1. CASE n < d
        <5>1. n \in Bits
          BY <3>2, <1>0, <1>4, <4>1, <3>1 DEF Bits
        <5> HIDE DEF n, d
        <5> QED
          BY <5>1, <4>1, <2>3, <2>4
      <4>2. CASE ~(n < d)
        <5>1. n = w - from
          BY <3>1, <3>2, <4>2
        <5> HIDE DEF n, d
        <5> QED
          BY <5>1, <2>6
      <4> QED
        BY <4>1, <4>2
    <3> HIDE DEF n, d, ones, hit
    <3>4. ASSUME NEW i \in from .. hit - 1 PROVE i \in val
      <4>1. i - from \in 0 .. n - 1 /\ i - from \in Bits /\ (i - from) + from = i
        BY <2>2, <3>2, <1>0 DEF Bits
      <4> QED
        BY <4>1, <2>5
    <3>5. hit \in 0 .. BITS_IN_INT /\ hit >= from /\ hit \notin val
      BY <1>0, <1>4, <2>2, <3>2, <3>3
    <3> QED
      BY <1>4, <3>4, <3>5 DEF hit
  <2>7. CASE ~(from <= w)
    <3>1. 0 + from \notin val /\ 0 \in Bits
      BY <2>7, <1>0 DEF Bits
    <3>2. 0 \in ShiftRight(ones, 0)
      <4> HIDE DEF ones
      <4> QED
        BY <3>1, <2>4
    <3> HIDE DEF n, d, ones, hit
    <3>3. n = 0
      BY <3>2, <2>1, <2>3
    <3>4. hit = from /\ hit \notin val /\ hit \in 0 .. BITS_IN_INT
      BY <1>0, <1>4, <2>2, <3>1, <3>3
    <3>5. hit >= from /\ \A i \in from .. hit - 1 : i \in val
      BY <3>4
    <3> QED
      BY <1>4, <3>4, <3>5 DEF hit
  <2> QED
    BY <2>6, <2>7
<1> QED
  BY <1>0, <1>1, <1>2, <1>3, <1>4

-----------------------------------------------------------------------------
(* The search for a run of free blocks.                                    *)

\* The last int begins inside the map and reaches to its end.
LEMMA LastIntHolds ==
    ASSUME NEW nbits \in Nat \ {0}
    PROVE  /\ LastInt(nbits) \in Nat
           /\ LastInt(nbits) * BITS_IN_INT < nbits
           /\ nbits <= LastInt(nbits) * BITS_IN_INT + BITS_IN_INT
<1> DEFINE b == BITS_IN_INT
           m == nbits - 1
           e == m \div b
           r == m % b
<1>0. b \in Nat \ {0} /\ m \in Nat
  BY WidthAssumption
<1>1. e \in Nat /\ r \in 0 .. b - 1 /\ m = b * e + r
  <2> HIDE DEF m
  <2> QED
    BY <1>0, DivMod
<1>2. LastInt(nbits) = e
  BY DEF LastInt
<1>3. nbits = m + 1
  BY <1>0
<1> HIDE DEF e, r, m, b
<1>4. e * b = b * e /\ b * e \in Nat
  BY <1>0, <1>1
<1>5. e * b < nbits /\ nbits <= e * b + b
  BY <1>0, <1>1, <1>3, <1>4
<1> QED
  BY <1>1, <1>2, <1>5 DEF b

\* Does the search end at a cursor, what does it answer, where does it go on?
SearchEnds(bm, len, nbits, at) ==
    \/ at.map > LastInt(nbits)
    \/ LET hit == NextZero(bm, nbits, at)
       IN  /\ hit < BITS_IN_INT /\ (at.contig = 0 \/ hit = 0)
           /\ ~(hit + len - at.contig > BITS_IN_INT)
           /\ Zeroes(bm, at, hit, len - at.contig)

SearchAnswer(bm, nbits, at) ==
    IF at.map > LastInt(nbits) THEN nbits
    ELSE at.map * BITS_IN_INT + NextZero(bm, nbits, at) - at.contig

SearchNext(bm, len, nbits, at) ==
    LET hit == NextZero(bm, nbits, at)
    IN  IF hit >= BITS_IN_INT THEN NextInt(at, 0)
        ELSE IF /\ at.contig = 0 \/ hit = 0
                /\ hit + len - at.contig > BITS_IN_INT
                /\ Zeroes(bm, at, hit, BITS_IN_INT - hit)
             THEN NextInt(at, at.contig + BITS_IN_INT - hit)
             ELSE NextBit(at, hit)

\* What is left to look at.
SearchMeasure(nbits, at) ==
    (LastInt(nbits) + 1 - at.map) * (BITS_IN_INT + 1) + (BITS_IN_INT - at.from)

LEMMA CursorTyped ==
    ASSUME NEW nbits \in Nat \ {0}, NEW at \in Cursors(nbits)
    PROVE  /\ BITS_IN_INT \in Nat \ {0} /\ nbits \in Nat \ {0} /\ LastInt(nbits) \in Nat
           /\ at.map \in 0 .. LastInt(nbits) + 1 /\ at.from \in 0 .. BITS_IN_INT
           /\ at.contig \in 0 .. nbits
           /\ at.map * BITS_IN_INT \in Nat
<1>1. BITS_IN_INT \in Nat \ {0} /\ nbits \in Nat \ {0} /\ LastInt(nbits) \in Nat
  BY WidthAssumption, LastIntHolds
<1>2. /\ at.map \in 0 .. LastInt(nbits) + 1 /\ at.from \in 0 .. BITS_IN_INT
      /\ at.contig \in 0 .. nbits
  BY DEF Cursors
<1> QED
  BY <1>1, <1>2

\* An int of the map, and the zero the search finds in it.
LEMMA IntSearched ==
    ASSUME WidthOfInt, NEW nbits \in Nat \ {0}, NEW bm \in SUBSET (0 .. nbits - 1),
           NEW at \in Cursors(nbits), at.map <= LastInt(nbits)
    PROVE  LET hit == NextZero(bm, nbits, at)
               val == Word(bm, at.map)
           IN  /\ hit \in 0 .. BITS_IN_INT
               /\ at.map * BITS_IN_INT + BITS_IN_INT <= (LastInt(nbits) + 1) * BITS_IN_INT
               /\ hit < BITS_IN_INT => hit \notin val /\ at.from < BITS_IN_INT
               /\ val = {} => at.from = BITS_IN_INT \/ hit = 0
               /\ val # {} => hit >= at.from
               /\ \A i \in at.from .. hit - 1 : i \in val
<1> DEFINE b == BITS_IN_INT
           L == LastInt(nbits)
           m == at.map
           p == m * b
           rest == nbits - p
           w == Min({b, rest})
           val == Word(bm, at.map)
<1>0. b \in Nat \ {0} /\ L \in Nat /\ m \in 0 .. L /\ nbits \in Nat /\ p \in Nat
  BY CursorTyped
<1>1. p + b <= (L + 1) * b /\ p <= L * b /\ L * b \in Nat
  <2> DEFINE x == L - m
  <2>1. x \in Nat /\ L = m + x
    BY <1>0
  <2> HIDE DEF x, L, m, b
  <2>2. /\ (m + x + 1) * b = m * b + x * b + b /\ (m + x) * b = m * b + x * b
        /\ x * b \in Nat /\ m * b \in Nat
    BY <1>0, <2>1
  <2> QED
    BY <2>1, <2>2, <1>0
<1>2. rest \in Nat \ {0}
  <2>1. L * b < nbits
    BY LastIntHolds
  <2> HIDE DEF p, b, L
  <2> QED
    BY <2>1, <1>0, <1>1
<1>3. w \in {b, rest} /\ w <= b /\ w <= rest
  <2> HIDE DEF rest, b
  <2>1. \E x \in {b, rest} : \A y \in {b, rest} : x <= y
    BY <1>0, <1>2
  <2>2. w \in {b, rest} /\ \A y \in {b, rest} : w <= y
    BY <2>1 DEF Min
  <2> QED
    BY <2>2
<1>4. w \in 1 .. b
  <2> HIDE DEF rest, b, w
  <2> QED
    BY <1>0, <1>2, <1>3
<1>5. NextZero(bm, nbits, at) = ffz(val, at.from, w)
  BY DEF NextZero
<1>6. val \in SUBSET (0 .. w - 1)
  <2> SUFFICES ASSUME NEW i \in val PROVE i \in 0 .. w - 1
    OBVIOUS
  <2>1. i \in 0 .. b - 1 /\ p + i \in bm
    BY DEF Word, Bits
  <2> HIDE DEF p, b, w, val
  <2>2. p + i < nbits
    <3>1. p + i \in 0 .. nbits - 1
      BY <2>1
    <3> QED
      BY <3>1, <1>0
  <2>3. i < rest
    BY <2>1, <2>2, <1>0
  <2> HIDE DEF rest
  <2> QED
    BY <2>1, <2>3, <1>0, <1>2, <1>3
<1>7. at.from \in 0 .. BITS_IN_INT
  BY CursorTyped
<1> HIDE DEF w, val
<1> DEFINE hit == ffz(val, at.from, w)
<1>8. /\ hit \in 0 .. BITS_IN_INT
      /\ hit < BITS_IN_INT => hit \notin val /\ at.from < BITS_IN_INT
      /\ val = {} => at.from = BITS_IN_INT \/ hit = 0
      /\ val # {} => hit >= at.from
      /\ \A i \in at.from .. hit - 1 : i \in val
  BY <1>4, <1>6, <1>7, FfzFinds
<1>9. NextZero(bm, nbits, at) = hit
  BY <1>5
<1> HIDE DEF hit
<1> QED
  BY <1>1, <1>8, <1>9 DEF val

\* Every pass that does not end the search brings it further.
LEMMA SearchProgress ==
    ASSUME WidthOfInt, NEW nbits \in Nat \ {0}, NEW bm \in SUBSET (0 .. nbits - 1),
           NEW len \in 1 .. nbits,
           NEW at \in Cursors(nbits), ~SearchEnds(bm, len, nbits, at)
    PROVE  LET to == SearchNext(bm, len, nbits, at)
           IN  /\ to \in Cursors(nbits)
               /\ SearchMeasure(nbits, to) < SearchMeasure(nbits, at)
<1> DEFINE b == BITS_IN_INT
           L == LastInt(nbits)
           hit == NextZero(bm, nbits, at)
           val == Word(bm, at.map)
           to == SearchNext(bm, len, nbits, at)
<1>0. /\ b \in Nat \ {0} /\ L \in Nat /\ nbits \in Nat \ {0} /\ len \in 1 .. nbits
      /\ at.map \in 0 .. L /\ at.from \in 0 .. b /\ at.contig \in 0 .. nbits
  BY CursorTyped DEF SearchEnds
<1>1. /\ hit \in 0 .. b
      /\ hit < b => hit \notin val /\ at.from < b
      /\ val = {} => at.from = b \/ hit = 0
      /\ val # {} => hit >= at.from
  <2>1. at.map <= LastInt(nbits)
    BY <1>0
  <2> HIDE DEF L
  <2> QED
    BY <2>1, IntSearched
<1>2. ASSUME val = {}, NEW n PROVE Zeroes(bm, at, hit, n)
  BY <1>2 DEF Zeroes, ShiftRight
<1> DEFINE crosses == /\ at.contig = 0 \/ hit = 0
                      /\ hit + len - at.contig > b
                      /\ Zeroes(bm, at, hit, b - hit)
<1>3. \/ hit = b /\ to = NextInt(at, 0)
      \/ hit < b /\ crosses /\ to = NextInt(at, at.contig + b - hit)
      \/ hit < b /\ ~crosses /\ to = NextBit(at, hit)
  BY <1>0, <1>1 DEF SearchNext
<1> DEFINE Goal == /\ to \in Cursors(nbits)
                   /\ SearchMeasure(nbits, to) < SearchMeasure(nbits, at)
<1> SUFFICES Goal
  OBVIOUS
<1> HIDE DEF to
<1>4. ASSUME NEW n \in 0 .. nbits, to = NextInt(at, n)
      PROVE  Goal
  <2>1. to.map = at.map + 1 /\ to.from = 0
    BY <1>4 DEF NextInt
  <2>2. to \in Cursors(nbits)
    BY <1>4, <1>0 DEF NextInt, Cursors
  <2> DEFINE x == L - at.map
             w == b + 1
  <2>3. x \in Nat /\ w \in Nat
    BY <1>0
  <2>4. SearchMeasure(nbits, to) = x * w + b
    <3>1. L + 1 - (at.map + 1) = x
      BY <1>0
    <3> QED
      BY <2>1, <3>1, <1>0 DEF SearchMeasure
  <2>5. SearchMeasure(nbits, at) = (x + 1) * w + (b - at.from)
    <3>1. L + 1 - at.map = x + 1
      BY <1>0
    <3> QED
      BY <3>1 DEF SearchMeasure
  <2>w. w = b + 1
    OBVIOUS
  <2> HIDE DEF x, w
  <2>6. (x + 1) * w = x * w + w /\ x * w \in Nat
    BY <2>3
  <2> QED
    BY <2>2, <2>4, <2>5, <2>6, <2>w, <1>0
<1>5. CASE hit = b
  BY <1>5, <1>3, <1>4, <1>0
<1>6. CASE hit < b /\ crosses
  <2>1. at.contig + b - hit \in 0 .. nbits
    BY <1>6, <1>0, <1>1
  <2>2. to = NextInt(at, at.contig + b - hit)
    <3> HIDE DEF crosses
    <3> QED
      BY <1>6, <1>3, <1>1, <1>0
  <2> HIDE DEF Goal, hit, crosses
  <2> QED
    BY <2>1, <2>2, <1>4
<1>7. CASE hit < b /\ ~crosses
  <2>1. to = NextBit(at, hit)
    BY <1>7, <1>3, <1>1, <1>0
  <2>2. to.map = at.map /\ to.from = hit + 1 /\ to.contig = 0
    BY <2>1 DEF NextBit
  <2>3. to \in Cursors(nbits)
    BY <2>1, <1>0, <1>1, <1>7 DEF NextBit, Cursors
  <2>4. hit >= at.from
    <3>1. SUFFICES ASSUME val = {} PROVE FALSE
      BY <1>1
    <3>2. hit = 0
      BY <3>1, <1>1, <1>7, <1>0
    <3>3. Zeroes(bm, at, hit, len - at.contig) /\ Zeroes(bm, at, hit, b - hit)
      BY <3>1, <1>2
    <3>4. ~(hit + len - at.contig > b)
      BY <3>2, <3>3, <1>7
    <3> QED
      BY <3>2, <3>3, <3>4, <1>7 DEF SearchEnds
  <2>5. (L + 1 - at.map) * (b + 1) \in Int
    BY <1>0
  <2>6. SearchMeasure(nbits, to) = (L + 1 - at.map) * (b + 1) + (b - (hit + 1))
    BY <2>2 DEF SearchMeasure
  <2>7. SearchMeasure(nbits, at) = (L + 1 - at.map) * (b + 1) + (b - at.from)
    BY DEF SearchMeasure
  <2> DEFINE y == (L + 1 - at.map) * (b + 1)
  <2> HIDE DEF y
  <2>8. y + (b - (hit + 1)) < y + (b - at.from)
    BY <2>4, <2>5, <1>0, <1>1 DEF y
  <2> QED
    BY <2>3, <2>6, <2>7, <2>8 DEF y
<1> QED
  BY <1>5, <1>6, <1>7, <1>0, <1>1

\* The zeroes a cursor carries end right before its int.
CarryFree(bm, len, at) ==
    /\ at.contig < len /\ at.contig <= at.map * BITS_IN_INT
    /\ \A i \in 1 .. at.contig : at.map * BITS_IN_INT - i \notin bm

\* A bit found zero in an int is one of the map.
LEMMA ZeroesFree ==
    ASSUME NEW bm, NEW at, NEW hit \in 0 .. BITS_IN_INT, NEW n \in Int,
           at.map * BITS_IN_INT \in Nat, hit + n <= BITS_IN_INT,
           Zeroes(bm, at, hit, n)
    PROVE  \A j \in 0 .. n - 1 : at.map * BITS_IN_INT + hit + j \notin bm
<1> SUFFICES ASSUME NEW j \in 0 .. n - 1,
                    at.map * BITS_IN_INT + hit + j \in bm
             PROVE  FALSE
  OBVIOUS
<1> DEFINE p == at.map * BITS_IN_INT
<1>0. BITS_IN_INT \in Nat \ {0} /\ p \in Nat /\ p + hit + j \in bm
  BY WidthAssumption
<1>1. j \in Bits /\ j + hit \in Bits
  BY <1>0 DEF Bits
<1>2. p + (j + hit) \in bm
  <2>1. p + (j + hit) = p + hit + j
    BY <1>0
  <2> QED
    BY <2>1, <1>0
<1>3. j + hit \in Word(bm, at.map)
  BY <1>1, <1>2 DEF Word
<1>4. j \in ShiftRight(Word(bm, at.map), hit)
  BY <1>1, <1>3 DEF ShiftRight
<1>5. j \in BIT_MASK(n)
  BY DEF BIT_MASK
<1> QED
  BY <1>4, <1>5 DEF Zeroes

\* A cursor carries zeroes only, wherever the search goes.
LEMMA CarryKept ==
    ASSUME WidthOfInt, NEW nbits \in Nat \ {0}, NEW bm \in SUBSET (0 .. nbits - 1),
           NEW len \in 1 .. nbits,
           NEW at \in Cursors(nbits), ~SearchEnds(bm, len, nbits, at),
           CarryFree(bm, len, at)
    PROVE  CarryFree(bm, len, SearchNext(bm, len, nbits, at))
<1> DEFINE b == BITS_IN_INT
           hit == NextZero(bm, nbits, at)
           to == SearchNext(bm, len, nbits, at)
           p == at.map * b
           n == at.contig + b - hit
<1>0. /\ b \in Nat \ {0} /\ nbits \in Nat \ {0} /\ len \in 1 .. nbits
      /\ at.map \in Nat /\ at.contig \in Nat /\ p \in Nat
  BY CursorTyped
<1>1. hit \in 0 .. b
  <2>1. at.map <= LastInt(nbits)
    BY CursorTyped DEF SearchEnds
  <2> QED
    BY <2>1, IntSearched
<1>2. at.contig < len /\ at.contig <= p /\ \A i \in 1 .. at.contig : p - i \notin bm
  BY DEF CarryFree
<1>3. ASSUME NEW c, c.contig = 0, c.map \in Nat PROVE CarryFree(bm, len, c)
  <2>1. c.map * b \in Nat
    BY <1>0, <1>3
  <2> QED
    BY <1>0, <1>3, <2>1 DEF CarryFree
<1>4. CASE /\ at.contig = 0 \/ hit = 0
           /\ hit + len - at.contig > b
           /\ Zeroes(bm, at, hit, b - hit)
           /\ hit < b
  <2>1. to = NextInt(at, n)
    BY <1>4, <1>0, <1>1 DEF SearchNext
  <2>2. to.contig = n /\ to.map = at.map + 1
    BY <2>1 DEF NextInt
  <2>3. (at.map + 1) * b = p + b
    BY <1>0
  <2>4. \A j \in 0 .. (b - hit) - 1 : p + hit + j \notin bm
    <3>1. b - hit \in Int /\ hit + (b - hit) <= b
      BY <1>0, <1>1
    <3> QED
      BY <1>0, <1>1, <1>4, <3>1, ZeroesFree
  <2> HIDE DEF p, to, hit
  <2>5. ASSUME NEW i \in 1 .. n PROVE p + b - i \notin bm
    <3>1. CASE i <= b - hit
      <4> DEFINE j == b - hit - i
      <4>1. j \in 0 .. (b - hit) - 1 /\ p + hit + j = p + b - i
        BY <3>1, <1>0, <1>1
      <4> QED
        BY <4>1, <2>4
    <3>2. CASE i > b - hit
      <4>1. hit = 0
        BY <3>2, <1>4, <1>0, <1>1
      <4> DEFINE j == i - b
      <4>2. j \in 1 .. at.contig /\ p - j = p + b - i
        BY <4>1, <3>2, <1>0
      <4> QED
        BY <4>2, <1>2
    <3> QED
      BY <3>1, <3>2, <1>0, <1>1
  <2>6. n < len /\ n <= p + b /\ n \in Nat
    BY <1>4, <1>0, <1>1, <1>2
  <2> HIDE DEF n
  <2>7. to.contig < len /\ to.contig <= to.map * b
    BY <2>2, <2>3, <2>6
  <2>8. \A i \in 1 .. to.contig : to.map * b - i \notin bm
    <3>1. to.map * b = p + b
      BY <2>2, <2>3
    <3>2. \A i \in 1 .. to.contig : p + b - i \notin bm
      BY <2>2, <2>5
    <3> DEFINE q == to.map * b
    <3> HIDE DEF q
    <3>3. q = p + b
      BY <3>1 DEF q
    <3>4. ASSUME NEW i \in 1 .. to.contig PROVE q - i \notin bm
      <4>1. p + b - i \notin bm
        BY <3>2
      <4>2. q - i = p + b - i
        BY <3>3, <1>0
      <4> QED
        BY <4>1, <4>2
    <3> QED
      BY <3>4 DEF q
  <2>9. CarryFree(bm, len, to)
    BY <2>7, <2>8 DEF CarryFree
  <2> QED
    BY <2>9 DEF to
<1>5. CASE ~ /\ at.contig = 0 \/ hit = 0
             /\ hit + len - at.contig > b
             /\ Zeroes(bm, at, hit, b - hit)
             /\ hit < b
  <2>1. to = NextInt(at, 0) \/ to = NextBit(at, hit)
    BY <1>5, <1>0, <1>1 DEF SearchNext
  <2>2. to.contig = 0 /\ to.map \in Nat
    BY <2>1, <1>0 DEF NextInt, NextBit
  <2> HIDE DEF to
  <2>3. CarryFree(bm, len, to)
    BY <2>2, <1>3
  <2> QED
    BY <2>3 DEF to
<1> QED
  BY <1>4, <1>5

\* Where the search ends, it answers with a free run inside the ints of the map,
\* or with the length of the map.
LEMMA AnswerFree ==
    ASSUME WidthOfInt, NEW nbits \in Nat \ {0}, NEW bm \in SUBSET (0 .. nbits - 1),
           NEW len \in 1 .. nbits,
           NEW at \in Cursors(nbits), SearchEnds(bm, len, nbits, at),
           CarryFree(bm, len, at)
    PROVE  SearchAnswer(bm, nbits, at)
             \in {nbits} \cup FreeRuns(bm, len, (LastInt(nbits) + 1) * BITS_IN_INT)
<1> DEFINE b == BITS_IN_INT
           hit == NextZero(bm, nbits, at)
           p == at.map * b
           c == at.contig
           r == p + hit - c
           full == (LastInt(nbits) + 1) * b
<1>1. CASE at.map > LastInt(nbits)
  BY <1>1 DEF SearchAnswer
<1>2. CASE ~(at.map > LastInt(nbits))
  <2>0. /\ b \in Nat \ {0} /\ nbits \in Nat \ {0} /\ len \in 1 .. nbits
        /\ at.map \in Nat /\ c \in Nat /\ p \in Nat
    BY CursorTyped
  <2>1. hit \in 0 .. b /\ p + b <= full /\ full \in Nat
    <3>1. at.map <= LastInt(nbits) /\ full \in Nat
      BY <1>2, CursorTyped
    <3> QED
      BY <3>1, IntSearched
  <2>2. /\ c = 0 \/ hit = 0
        /\ ~(hit + len - c > b)
        /\ Zeroes(bm, at, hit, len - c)
    BY <1>2 DEF SearchEnds
  <2>3. c < len /\ c <= p /\ \A i \in 1 .. c : p - i \notin bm
    BY DEF CarryFree
  <2>4. \A j \in 0 .. (len - c) - 1 : p + hit + j \notin bm
    <3>1. len - c \in Int /\ hit + (len - c) <= b
      BY <2>0, <2>1, <2>2
    <3> QED
      BY <2>0, <2>1, <2>2, <3>1, ZeroesFree
  <2> HIDE DEF p, hit, c, full
  <2>5. r \in 0 .. full - len
    BY <2>0, <2>1, <2>2, <2>3
  <2>6. ASSUME NEW x \in Run(r, len) PROVE x \notin bm
    <3>0. x \in Int /\ r <= x /\ x <= r + len - 1
      BY <2>0, <2>5 DEF Run
    <3>1. CASE x < p + hit
      <4>1. hit = 0
        BY <3>0, <3>1, <2>0, <2>1, <2>2
      <4> DEFINE i == p - x
      <4>2. i \in 1 .. c /\ p - i = x
        BY <3>0, <3>1, <4>1, <2>0
      <4> QED
        BY <4>2, <2>3
    <3>2. CASE x >= p + hit
      <4> DEFINE j == x - p - hit
      <4>1. j \in 0 .. (len - c) - 1 /\ p + hit + j = x
        BY <3>0, <3>2, <2>0, <2>1
      <4> QED
        BY <4>1, <2>4
    <3> QED
      BY <3>0, <3>1, <3>2, <2>0, <2>1
  <2>7. r \in FreeRuns(bm, len, full)
    BY <2>5, <2>6 DEF FreeRuns
  <2>8. SearchAnswer(bm, nbits, at) = r
    BY <1>2 DEF SearchAnswer, p, hit, c
  <2> QED
    BY <2>7, <2>8 DEF full
<1> QED
  BY <1>1, <1>2

\* What is kept from pass to pass holds where the search answers.
LEMMA FindKeeps ==
    ASSUME WidthOfInt, NEW nbits \in Nat \ {0}, NEW bm \in SUBSET (0 .. nbits - 1),
           NEW len \in 1 .. nbits, NEW Inside \in SUBSET Cursors(nbits), NEW Answers,
           Start \in Inside,
           \A at \in Inside : IF SearchEnds(bm, len, nbits, at)
                              THEN SearchAnswer(bm, nbits, at) \in Answers
                              ELSE SearchNext(bm, len, nbits, at) \in Inside
    PROVE  find_zero_bits(bm, len, nbits) \in Answers
<1> DEFINE D == Cursors(nbits)
           L == LastInt(nbits)
           b == BITS_IN_INT
           top == (L + 1) * (b + 1) + b + 1
           stop == {at \in D : SearchEnds(bm, len, nbits, at)}
           nxt == [at \in D |-> SearchNext(bm, len, nbits, at)]
           val == [at \in D |-> SearchAnswer(bm, nbits, at)]
           mu == [at \in D |-> SearchMeasure(nbits, at)]
           Body(f, at) ==
            IF at.map > LastInt(nbits) THEN nbits
            ELSE LET hit == NextZero(bm, nbits, at)
                     AllZero(n) == Zeroes(bm, at, hit, n)
                 IN  CASE hit >= BITS_IN_INT -> f[NextInt(at, 0)]
                       [] hit < BITS_IN_INT /\ at.contig > 0 /\ hit > 0 -> f[NextBit(at, hit)]
                       [] hit < BITS_IN_INT /\ (at.contig = 0 \/ hit = 0) ->
                            IF hit + len - at.contig > BITS_IN_INT
                            THEN IF AllZero(BITS_IN_INT - hit)
                                 THEN f[NextInt(at, at.contig + BITS_IN_INT - hit)]
                                 ELSE f[NextBit(at, hit)]
                            ELSE IF AllZero(len - at.contig)
                                 THEN at.map * BITS_IN_INT + hit - at.contig
                                 ELSE f[NextBit(at, hit)]
           Scan(f) == f = [at \in D |-> Body(f, at)]
<1>0. b \in Nat \ {0} /\ nbits \in Nat \ {0} /\ L \in Nat
  BY WidthAssumption, LastIntHolds
<1>1. ASSUME NEW at \in D, NEW f
      PROVE  Body(f, at) = IF at \in stop THEN val[at] ELSE f[nxt[at]]
  <2>1. val[at] = SearchAnswer(bm, nbits, at) /\ nxt[at] = SearchNext(bm, len, nbits, at)
    OBVIOUS
  <2>2. CASE at.map > L
    BY <2>1, <2>2 DEF SearchEnds, SearchAnswer
  <2>3. CASE ~(at.map > L)
    <3> DEFINE hit == NextZero(bm, nbits, at)
    <3>1. /\ hit \in 0 .. b /\ at.contig \in Nat
      <4>1. at.map <= LastInt(nbits) /\ at.contig \in Nat
        BY <2>3, CursorTyped
      <4> QED
        BY <4>1, IntSearched
    <3>2. CASE at \in stop
      <4>1. /\ hit < b /\ (at.contig = 0 \/ hit = 0)
            /\ ~(hit + len - at.contig > b)
            /\ Zeroes(bm, at, hit, len - at.contig)
        BY <2>3, <3>2 DEF SearchEnds
      <4>2. SearchAnswer(bm, nbits, at) = at.map * b + hit - at.contig
        BY <2>3 DEF SearchAnswer
      <4>3. Body(f, at) = at.map * b + hit - at.contig
        <5> HIDE DEF hit
        <5> QED
          BY <2>3, <4>1, <3>1, <1>0 DEF hit
      <4> QED
        BY <3>2, <2>1, <4>2, <4>3
    <3>3. CASE at \notin stop
      <4>1. ~ /\ hit < b /\ (at.contig = 0 \/ hit = 0)
              /\ ~(hit + len - at.contig > b)
              /\ Zeroes(bm, at, hit, len - at.contig)
        BY <2>3, <3>3 DEF SearchEnds
      <4>2. SearchNext(bm, len, nbits, at)
              = IF hit >= b THEN NextInt(at, 0)
                ELSE IF /\ at.contig = 0 \/ hit = 0
                        /\ hit + len - at.contig > b
                        /\ Zeroes(bm, at, hit, b - hit)
                     THEN NextInt(at, at.contig + b - hit)
                     ELSE NextBit(at, hit)
        BY DEF SearchNext
      <4>3. Body(f, at) = f[SearchNext(bm, len, nbits, at)]
        <5> HIDE DEF hit
        <5> QED
          BY <2>3, <4>1, <4>2, <3>1, <1>0 DEF hit
      <4> QED
        BY <3>3, <2>1, <4>3
    <3> QED
      BY <3>2, <3>3
  <2> QED
    BY <2>2, <2>3
<1>2. ASSUME NEW f PROVE Scan(f) <=> SearchOn(D, stop, nxt, val, f)
  <2> HIDE DEF D, stop, nxt, val, Body
  <2> QED
    BY <1>1 DEF SearchOn

<1>a. Descends(D, stop, nxt, top, mu)
  <2>1. top \in Nat
    BY <1>0
  <2>2. ASSUME NEW at \in D PROVE mu[at] \in 0 .. top - 1
    <3> DEFINE w == b + 1
               x == L + 1 - at.map
               y == at.map
    <3>1. x \in Nat /\ y \in Nat /\ w \in Nat /\ at.from \in 0 .. b /\ L + 1 = x + y
      BY CursorTyped
    <3>2. mu[at] = x * w + (b - at.from)
      BY DEF SearchMeasure
    <3>3. top = (x + y) * w + b + 1
      BY <3>1
    <3> HIDE DEF x, y, w, top, mu
    <3>4. (x + y) * w = x * w + y * w /\ x * w \in Nat /\ y * w \in Nat
      BY <3>1
    <3> QED
      BY <3>1, <3>2, <3>3, <3>4, <1>0
  <2>3. mu \in [D -> 0 .. top - 1]
    <3> HIDE DEF top
    <3> QED
      BY <2>2
  <2>4. ASSUME NEW at \in D \ stop PROVE nxt[at] \in D /\ mu[nxt[at]] < mu[at]
    <3>1. ~SearchEnds(bm, len, nbits, at) /\ nxt[at] = SearchNext(bm, len, nbits, at)
      OBVIOUS
    <3>2. /\ SearchNext(bm, len, nbits, at) \in D
          /\ SearchMeasure(nbits, SearchNext(bm, len, nbits, at))
               < SearchMeasure(nbits, at)
      BY <3>1, SearchProgress
    <3> QED
      BY <3>1, <3>2
  <2> HIDE DEF top, mu, D, stop, nxt, val
  <2> QED
    BY <2>1, <2>3, <2>4 DEF Descends
<1>3. \E f : SearchOn(D, stop, nxt, val, f)
  <2> HIDE DEF top, mu, D, stop, nxt, val
  <2> QED
    BY <1>a, SearchExists
<1> DEFINE f == CHOOSE g : Scan(g)
<1>4. find_zero_bits(bm, len, nbits) = f[Start]
  BY DEF find_zero_bits
<1>5. Scan(f)
  <2> HIDE DEF Scan
  <2>1. \E g : Scan(g)
    <3> HIDE DEF D, stop, nxt, val
    <3> QED
      BY <1>2, <1>3
  <2> QED
    BY <2>1
<1> HIDE DEF f
<1>6. SearchOn(D, stop, nxt, val, f)
  <2> HIDE DEF D, stop, nxt, val, Scan
  <2> QED
    BY <1>2, <1>5
<1>7. \A at \in Inside \ stop : nxt[at] \in Inside
  OBVIOUS
<1>8. \A at \in Inside \cap stop : val[at] \in Answers
  OBVIOUS
<1>9. \A at \in Inside : f[at] \in Answers
  <2>1. Inside \subseteq D
    OBVIOUS
  <2> HIDE DEF top, mu, D, stop, nxt, val
  <2>2. StaysInside(D, stop, nxt, val, Inside, Answers)
    BY <2>1, <1>7, <1>8 DEF StaysInside
  <2> QED
    BY <2>2, <1>a, <1>6, SearchAnswers
<1> QED
  BY <1>4, <1>9

\* The beginning of the search is a cursor.
LEMMA StartTyped ==
    ASSUME NEW nbits \in Nat \ {0}
    PROVE  Start \in Cursors(nbits)
<1>1. LastInt(nbits) \in Nat /\ BITS_IN_INT \in Nat
  BY WidthAssumption, LastIntHolds
<1> QED
  BY <1>1 DEF Start, Cursors

\* find_zero_bits: the run it returns is free and inside the ints of the map.
LEMMA FindFreeRun ==
    ASSUME WidthOfInt, NEW nbits \in Nat \ {0}, NEW bm \in SUBSET (0 .. nbits - 1),
           NEW len \in 1 .. nbits
    PROVE  find_zero_bits(bm, len, nbits)
             \in {nbits} \cup FreeRuns(bm, len, (LastInt(nbits) + 1) * BITS_IN_INT)
<1> DEFINE Inside == {at \in Cursors(nbits) : CarryFree(bm, len, at)}
           Answers == {nbits} \cup FreeRuns(bm, len, (LastInt(nbits) + 1) * BITS_IN_INT)
<1>1. ASSUME NEW at \in Inside, ~SearchEnds(bm, len, nbits, at)
      PROVE  SearchNext(bm, len, nbits, at) \in Inside
  <2>1. SearchNext(bm, len, nbits, at) \in Cursors(nbits)
    BY <1>1, SearchProgress
  <2>2. CarryFree(bm, len, SearchNext(bm, len, nbits, at))
    BY <1>1, CarryKept
  <2> QED
    BY <2>1, <2>2
<1>2. ASSUME NEW at \in Inside, SearchEnds(bm, len, nbits, at)
      PROVE  SearchAnswer(bm, nbits, at) \in Answers
  BY <1>2, AnswerFree
<1>3. Start \in Inside
  <2>1. CarryFree(bm, len, Start)
    BY WidthAssumption DEF Start, CarryFree
  <2> QED
    BY <2>1, StartTyped
<1>4. Inside \in SUBSET Cursors(nbits)
  OBVIOUS
<1> HIDE DEF Inside, Answers
<1>5. find_zero_bits(bm, len, nbits) \in Answers
  BY <1>1, <1>2, <1>3, <1>4, FindKeeps
<1> QED
  BY <1>5 DEF Answers

WholeInts(nbits) == nbits \in Nat \ {0} /\ nbits % BITS_IN_INT = 0

\* A map of whole ints ends with its last int.
LEMMA WholeIntsAre ==
    ASSUME NEW nbits, WholeInts(nbits)
    PROVE  /\ LastInt(nbits) \in Nat
           /\ nbits = (LastInt(nbits) + 1) * BITS_IN_INT
<1> DEFINE b == BITS_IN_INT
           q == nbits \div b
<1>0. b \in Nat \ {0} /\ nbits \in Nat \ {0} /\ nbits % b = 0
  BY WidthAssumption DEF WholeInts
<1>1. q \in Nat /\ nbits = b * q + 0
  BY <1>0, DivMod
<1>2. q # 0
  BY <1>0, <1>1
<1> DEFINE p == q - 1
           m == nbits - 1
           e == m \div b
           r == m % b
<1>3. p \in Nat /\ nbits = b * p + b
  BY <1>1, <1>2, <1>0
<1>4. e \in Nat /\ r \in 0 .. b - 1 /\ m = b * e + r
  <2>1. m \in Nat
    BY <1>0
  <2> HIDE DEF m
  <2> QED
    BY <2>1, <1>0, DivMod
<1> HIDE DEF q, p, e, r
<1>5. e = p
  <2>1. b * e + r = b * p + (b - 1)
    <3>1. m = nbits - 1
      OBVIOUS
    <3>2. b * e \in Nat /\ b * p \in Nat
      BY <1>0, <1>3, <1>4
    <3> HIDE DEF m
    <3> QED
      BY <3>1, <3>2, <1>3, <1>4, <1>0
  <2>2. CASE e < p
    <3>1. b * e + b <= b * p
      <4> DEFINE x == p - e - 1
      <4>1. x \in Nat /\ p = e + 1 + x
        BY <2>2, <1>3, <1>4
      <4> HIDE DEF x
      <4>2. b * p = b * e + b + b * x /\ b * x \in Nat
        BY <4>1, <1>0, <1>4
      <4> QED
        BY <4>2, <1>0, <1>4
    <3> QED
      BY <3>1, <2>1, <1>0, <1>3, <1>4
  <2>3. CASE p < e
    <3>1. b * p + b <= b * e
      <4> DEFINE x == e - p - 1
      <4>1. x \in Nat /\ e = p + 1 + x
        BY <2>3, <1>3, <1>4
      <4> HIDE DEF x
      <4>2. b * e = b * p + b + b * x /\ b * x \in Nat
        BY <4>1, <1>0, <1>3
      <4> QED
        BY <4>2, <1>0, <1>3
    <3> QED
      BY <3>1, <2>1, <1>0, <1>3, <1>4
  <2> QED
    BY <2>2, <2>3, <1>3, <1>4
<1>6. LastInt(nbits) = p
  BY <1>5 DEF LastInt, e
<1>7. (p + 1) * b = b * p + b
  BY <1>0, <1>3
<1> QED
  BY <1>3, <1>6, <1>7

\* In such a map the run is inside the map.
LEMMA FindZeroBits ==
    ASSUME WidthOfInt, NEW nbits, WholeInts(nbits), NEW bm \in SUBSET (0 .. nbits - 1),
           NEW len \in 1 .. nbits
    PROVE  find_zero_bits(bm, len, nbits) \in {nbits} \cup FreeRuns(bm, len, nbits)
<1>1. nbits \in Nat \ {0} /\ nbits = (LastInt(nbits) + 1) * BITS_IN_INT
  BY WholeIntsAre DEF WholeInts
<1> QED
  BY <1>1, FindFreeRun

-----------------------------------------------------------------------------
(* Where the search is the first fit.                                      *)

LEMMA MinOfTwo ==
    ASSUME NEW a \in Int, NEW c \in Int
    PROVE  Min({a, c}) = IF a <= c THEN a ELSE c
<1> DEFINE m == IF a <= c THEN a ELSE c
<1>1. m \in {a, c} /\ \A y \in {a, c} : m <= y
  OBVIOUS
<1>2. \A x \in {a, c} : (\A y \in {a, c} : x <= y) => x = m
  OBVIOUS
<1> HIDE DEF m
<1> QED
  BY <1>1, <1>2 DEF Min, m

\* The first of the free runs.
LEMMA FirstFitIs ==
    ASSUME NEW nbits \in Nat, NEW bm, NEW len \in Nat, NEW r \in FreeRuns(bm, len, nbits),
           \A q \in FreeRuns(bm, len, nbits) : r <= q
    PROVE  FirstFit(bm, len, nbits) = r
<1> DEFINE S == FreeRuns(bm, len, nbits)
<1>1. S \subseteq Int
  BY DEF FreeRuns
<1> HIDE DEF S
<1>2. r \in S /\ \A q \in S : r <= q
  BY DEF S
<1>3. ASSUME NEW x \in S, \A y \in S : x <= y PROVE x = r
  <2>1. x <= r /\ r <= x /\ x \in Int /\ r \in Int
    BY <1>1, <1>2, <1>3
  <2> QED
    BY <2>1
<1>4. Min(S) = r
  BY <1>2, <1>3 DEF Min
<1> QED
  BY <1>2, <1>4 DEF FirstFit, S

\* A zero of an int, and the bits before it, as bits of the map.
LEMMA IntBits ==
    ASSUME WidthOfInt, NEW nbits \in Nat \ {0}, NEW bm \in SUBSET (0 .. nbits - 1),
           NEW at \in Cursors(nbits), at.map <= LastInt(nbits), at.from = 0
    PROVE  LET hit == NextZero(bm, nbits, at)
               p == at.map * BITS_IN_INT
           IN  /\ hit \in 0 .. BITS_IN_INT
               /\ hit < BITS_IN_INT => p + hit \notin bm
               /\ \A i \in p .. p + hit - 1 : i \in bm
<1> DEFINE hit == NextZero(bm, nbits, at)
           p == at.map * BITS_IN_INT
           val == Word(bm, at.map)
<1>0. p \in Nat /\ BITS_IN_INT \in Nat \ {0}
  BY CursorTyped
<1>1. /\ hit \in 0 .. BITS_IN_INT
      /\ hit < BITS_IN_INT => hit \notin val
      /\ \A i \in at.from .. hit - 1 : i \in val
  BY IntSearched
<1>2. ASSUME NEW i \in Bits PROVE i \in val <=> p + i \in bm
  BY <1>2 DEF Word
<1> HIDE DEF hit, p, val
<1>3. ASSUME hit < BITS_IN_INT PROVE p + hit \notin bm
  <2>1. hit \in Bits
    BY <1>0, <1>1, <1>3 DEF Bits
  <2> QED
    BY <2>1, <1>1, <1>2, <1>3
<1>4. ASSUME NEW i \in p .. p + hit - 1 PROVE i \in bm
  <2>1. i - p \in 0 .. hit - 1 /\ i - p \in Bits /\ p + (i - p) = i
    BY <1>0, <1>1 DEF Bits
  <2>2. i - p \in val
    BY <2>1, <1>1
  <2> QED
    BY <2>1, <2>2, <1>2
<1> QED
  BY <1>1, <1>3, <1>4 DEF hit, p

\* The first bit that is not used is the first fit for one block.
LEMMA FirstZeroFits ==
    ASSUME NEW nbits \in Nat \ {0}, NEW bm, NEW r \in Nat,
           r \notin bm, \A i \in 0 .. r - 1 : i \in bm
    PROVE  Min({r, nbits}) = FirstFit(bm, 1, nbits)
<1>1. ASSUME NEW q \in FreeRuns(bm, 1, nbits) PROVE q \in 0 .. nbits - 1 /\ r <= q
  <2>1. q \in 0 .. nbits - 1 /\ Run(q, 1) \cap bm = {}
    BY DEF FreeRuns
  <2>2. q \in Run(q, 1)
    BY <2>1 DEF Run
  <2>3. q \notin bm
    BY <2>1, <2>2
  <2> QED
    BY <2>1, <2>3
<1>2. CASE r < nbits
  <2>1. r \in FreeRuns(bm, 1, nbits)
    <3>1. Run(r, 1) = {r}
      BY DEF Run
    <3>2. r \in 0 .. nbits - 1
      BY <1>2
    <3> QED
      BY <3>1, <3>2 DEF FreeRuns
  <2>2. FirstFit(bm, 1, nbits) = r
    BY <2>1, <1>1, FirstFitIs
  <2> QED
    BY <2>2, <1>2, MinOfTwo
<1>3. CASE ~(r < nbits)
  <2>1. FreeRuns(bm, 1, nbits) = {}
    <3> SUFFICES ASSUME NEW q \in FreeRuns(bm, 1, nbits) PROVE FALSE
      OBVIOUS
    <3>1. q \in 0 .. nbits - 1 /\ r <= q
      BY <1>1
    <3> QED
      BY <3>1, <1>3
  <2>2. FirstFit(bm, 1, nbits) = nbits
    BY <2>1 DEF FirstFit
  <2> QED
    BY <2>2, <1>3, MinOfTwo
<1> QED
  BY <1>2, <1>3

\* find_zero_bits is the first fit for one block, in every map.
LEMMA FindSingleBlock ==
    ASSUME WidthOfInt, NEW nbits \in Nat \ {0}, NEW bm \in SUBSET (0 .. nbits - 1)
    PROVE  Min({find_zero_bits(bm, 1, nbits), nbits}) = FirstFit(bm, 1, nbits)
<1> DEFINE b == BITS_IN_INT
           UsedBefore(at) == /\ at.contig = 0 /\ at.from = 0
                             /\ \A i \in 0 .. at.map * b - 1 : i \in bm
           Inside == {at \in Cursors(nbits) : UsedBefore(at)}
           Answers == {r \in Nat : Min({r, nbits}) = FirstFit(bm, 1, nbits)}
<1>0. b \in Nat \ {0} /\ LastInt(nbits) \in Nat
  BY WidthAssumption, LastIntHolds
<1>1. ASSUME NEW at \in Inside, at.map > LastInt(nbits)
      PROVE  SearchAnswer(bm, nbits, at) \in Answers
  <2>1. SearchAnswer(bm, nbits, at) = nbits
    BY <1>1 DEF SearchAnswer
  <2>2. nbits <= at.map * b /\ at.map * b \in Nat
    <3>1. at.map = LastInt(nbits) + 1
      BY <1>1, CursorTyped
    <3>2. nbits <= LastInt(nbits) * b + b
      BY LastIntHolds
    <3>3. (LastInt(nbits) + 1) * b = LastInt(nbits) * b + b
      BY <1>0
    <3> QED
      BY <3>1, <3>2, <3>3, <1>0
  <2>3. \A i \in 0 .. nbits - 1 : i \in bm
    <3> DEFINE p == at.map * b
    <3>1. \A i \in 0 .. p - 1 : i \in bm
      OBVIOUS
    <3> HIDE DEF p
    <3>2. nbits <= p /\ p \in Nat
      BY <2>2 DEF p
    <3> QED
      BY <3>1, <3>2
  <2>4. nbits \notin bm
    OBVIOUS
  <2>5. Min({nbits, nbits}) = FirstFit(bm, 1, nbits)
    BY <2>3, <2>4, FirstZeroFits
  <2> QED
    BY <2>1, <2>5
<1>2. ASSUME NEW at \in Inside, ~(at.map > LastInt(nbits))
      PROVE  IF SearchEnds(bm, 1, nbits, at)
             THEN SearchAnswer(bm, nbits, at) \in Answers
             ELSE SearchNext(bm, 1, nbits, at) \in Inside
  <2> DEFINE hit == NextZero(bm, nbits, at)
             p == at.map * b
  <2>0. p \in Nat /\ at.map \in 0 .. LastInt(nbits) /\ at \in Cursors(nbits)
    BY <1>2, CursorTyped
  <2>1. /\ hit \in 0 .. b
        /\ hit < b => p + hit \notin bm
        /\ \A i \in p .. p + hit - 1 : i \in bm
    <3>1. at.map <= LastInt(nbits) /\ at.from = 0
      BY <2>0, <1>0
    <3> QED
      BY <3>1, IntBits
  <2>2. at.contig = 0 /\ \A i \in 0 .. p - 1 : i \in bm
    OBVIOUS
  <2>3. \A i \in 0 .. p + hit - 1 : i \in bm
    <3> HIDE DEF p, hit
    <3> QED
      BY <2>0, <2>1, <2>2, <1>0
  <2>4. CASE hit < b
    <3>1. SearchAnswer(bm, nbits, at) = p + hit
      <4>1. SearchAnswer(bm, nbits, at) = p + hit - at.contig
        BY <1>2 DEF SearchAnswer
      <4> HIDE DEF p, hit
      <4> QED
        BY <4>1, <2>0, <2>1, <2>2
    <3>2. p + hit \in Nat /\ Min({p + hit, nbits}) = FirstFit(bm, 1, nbits)
      <4> HIDE DEF p, hit
      <4> DEFINE r == p + hit
      <4>1. r \in Nat /\ r \notin bm /\ \A i \in 0 .. r - 1 : i \in bm
        BY <2>0, <2>1, <2>3, <2>4, <1>0
      <4> HIDE DEF r
      <4>2. Min({r, nbits}) = FirstFit(bm, 1, nbits)
        BY <4>1, FirstZeroFits
      <4> QED
        BY <4>1, <4>2 DEF r
    <3>3. SearchEnds(bm, 1, nbits, at)
      <4>1. Zeroes(bm, at, hit, 1)
        <5>1. ASSUME 0 \in ShiftRight(Word(bm, at.map), hit) PROVE FALSE
          <6>1. 0 + hit \in Word(bm, at.map) /\ 0 + hit = hit
            BY <5>1, <2>1 DEF ShiftRight
          <6>2. p + hit \in bm
            BY <6>1 DEF Word
          <6> QED
            BY <6>2, <2>1, <2>4
        <5>2. BIT_MASK(1) = {0}
          BY DEF BIT_MASK
        <5> QED
          BY <5>1, <5>2 DEF Zeroes
      <4>2. 1 - at.contig = 1 /\ ~(hit + 1 - at.contig > b) /\ hit + 1 - at.contig = hit + 1
        <5> HIDE DEF hit
        <5> QED
          BY <2>1, <2>2, <2>4, <1>0
      <4> QED
        BY <4>1, <4>2, <2>2, <2>4 DEF SearchEnds
    <3> QED
      BY <3>1, <3>2, <3>3
  <2>5. CASE ~(hit < b)
    <3>1. hit = b
      BY <2>1, <2>5, <1>0
    <3>2. ~SearchEnds(bm, 1, nbits, at)
      BY <1>2, <2>5 DEF SearchEnds
    <3>3. SearchNext(bm, 1, nbits, at) = NextInt(at, 0)
      BY <3>1, <1>0 DEF SearchNext
    <3> DEFINE to == NextInt(at, 0)
    <3>4. to.map = at.map + 1 /\ to.from = 0 /\ to.contig = 0
      BY DEF NextInt
    <3>5. to \in Cursors(nbits)
      BY <2>0, <1>0 DEF NextInt, Cursors
    <3>6. to.map * b = p + hit
      <4>1. (at.map + 1) * b = p + b
        BY <2>0, <1>0
      <4> QED
        BY <4>1, <3>1, <3>4
    <3> HIDE DEF to, p, hit
    <3>7. \A i \in 0 .. to.map * b - 1 : i \in bm
      <4> DEFINE q == to.map * b
      <4>1. q = p + hit
        BY <3>6
      <4> HIDE DEF q
      <4>2. \A i \in 0 .. q - 1 : i \in bm
        BY <4>1, <2>0, <2>1, <2>3, <1>0
      <4> QED
        BY <4>2 DEF q
    <3>8. to \in Inside
      BY <3>4, <3>5, <3>7
    <3> QED
      BY <3>2, <3>3, <3>8 DEF to
  <2> QED
    BY <2>4, <2>5
<1>3. \A at \in Inside : IF SearchEnds(bm, 1, nbits, at)
                         THEN SearchAnswer(bm, nbits, at) \in Answers
                         ELSE SearchNext(bm, 1, nbits, at) \in Inside
  <2> SUFFICES ASSUME NEW at \in Inside
               PROVE  IF SearchEnds(bm, 1, nbits, at)
                      THEN SearchAnswer(bm, nbits, at) \in Answers
                      ELSE SearchNext(bm, 1, nbits, at) \in Inside
    OBVIOUS
  <2> HIDE DEF Inside, Answers
  <2>1. CASE at.map > LastInt(nbits)
    <3>1. SearchEnds(bm, 1, nbits, at)
      BY <2>1 DEF SearchEnds
    <3> QED
      BY <2>1, <3>1, <1>1
  <2> QED
    BY <2>1, <1>2
<1>4. Start \in Inside
  <2>1. Start.contig = 0 /\ Start.from = 0 /\ Start.map * b = 0
    BY <1>0 DEF Start
  <2>2. \A i \in 0 .. Start.map * b - 1 : i \in bm
    BY <2>1
  <2> QED
    BY <2>1, <2>2, StartTyped
<1>5. Inside \in SUBSET Cursors(nbits) /\ 1 \in 1 .. nbits
  OBVIOUS
<1>6. find_zero_bits(bm, 1, nbits) \in Answers
  <2> HIDE DEF Inside, Answers
  <2> QED
    BY <1>3, <1>4, <1>5, FindKeeps
<1> QED
  BY <1>6

\* Nothing fits: the answer is the length of the map.
LEMMA NothingFits ==
    ASSUME NEW nbits, NEW bm, NEW len, FreeRuns(bm, len, nbits) = {}
    PROVE  FirstFit(bm, len, nbits) = nbits
BY DEF FirstFit

\* find_zero_bits on a map of exactly one int is the first fit for every count.
LEMMA FindInOneInt ==
    ASSUME WidthOfInt, NEW bm \in SUBSET (0 .. BITS_IN_INT - 1), NEW len \in 1 .. BITS_IN_INT
    PROVE  find_zero_bits(bm, len, BITS_IN_INT) = FirstFit(bm, len, BITS_IN_INT)
<1> DEFINE b == BITS_IN_INT
           Starts == FreeRuns(bm, len, b)
           Missed(at) == \/ at.map = 0 /\ at.contig = 0 /\ \A q \in Starts : at.from <= q
                         \/ at.map = 1 /\ Starts = {}
           Inside == {at \in Cursors(b) : Missed(at)}
           Answers == {FirstFit(bm, len, b)}
<1>0. b \in Nat \ {0} /\ LastInt(b) = 0 /\ len \in 1 .. b
  <2>1. b \in Nat \ {0}
    BY WidthAssumption
  <2>2. b - 1 \in 0 .. b - 1 /\ b - 1 = b * 0 + (b - 1)
    BY <2>1
  <2> DEFINE l == LastInt(b)
  <2>3. l \in Nat /\ l * b < b
    BY <2>1, LastIntHolds
  <2> HIDE DEF l
  <2>4. CASE l # 0
    <3> DEFINE x == l - 1
    <3>1. x \in Nat /\ l = x + 1
      BY <2>3, <2>4
    <3> HIDE DEF x
    <3>2. l * b = x * b + b /\ x * b \in Nat
      BY <2>1, <3>1
    <3> QED
      BY <2>1, <2>3, <3>2
  <2> QED
    BY <2>1, <2>4 DEF l
<1>1. ASSUME NEW q \in Starts PROVE q \in 0 .. b - len /\ q \notin bm
  <2>1. q \in 0 .. b - len /\ Run(q, len) \cap bm = {}
    BY DEF FreeRuns
  <2>2. q \in Run(q, len)
    BY <2>1, <1>0 DEF Run
  <2> QED
    BY <2>1, <2>2
<1>2. ASSUME NEW at \in Inside, at.map = 0
      PROVE  IF SearchEnds(bm, len, b, at)
             THEN SearchAnswer(bm, b, at) \in Answers
             ELSE SearchNext(bm, len, b, at) \in Inside
  <2> DEFINE hit == NextZero(bm, b, at)
             val == Word(bm, at.map)
  <2>0. at \in Cursors(b) /\ at.from \in 0 .. b /\ at.map <= LastInt(b)
    <3>1. at \in Cursors(b) /\ at.map <= LastInt(b)
      BY <1>0, <1>2
    <3> QED
      BY <3>1, <1>0, CursorTyped
  <2>1. at.contig = 0 /\ \A q \in Starts : at.from <= q
    BY <1>2
  <2>2. val = bm
    <3>1. ASSUME NEW i PROVE i \in val <=> i \in bm
      <4>1. at.map * b + i = i \/ i \notin Bits
        BY <1>0, <1>2 DEF Bits
      <4>2. i \in bm => i \in Bits
        BY DEF Bits
      <4> QED
        BY <4>1, <4>2 DEF Word
    <3> HIDE DEF val
    <3> QED
      BY <3>1
  <2>3. /\ hit \in 0 .. b
        /\ bm = {} => at.from = b \/ hit = 0
        /\ bm # {} => hit >= at.from
        /\ \A i \in at.from .. hit - 1 : i \in bm
        /\ hit < b => at.from < b
    <3> HIDE DEF hit
    <3>1. /\ hit \in 0 .. b
          /\ val = {} => at.from = b \/ hit = 0
          /\ val # {} => hit >= at.from
          /\ \A i \in at.from .. hit - 1 : i \in val
          /\ hit < b => at.from < b
      BY <2>0, <1>0, IntSearched DEF hit
    <3> HIDE DEF val
    <3> QED
      BY <2>2, <3>1
  <2> HIDE DEF val
  <2>4. ASSUME NEW q \in Starts PROVE hit <= q
    <3>1. q \in Nat /\ q \notin bm /\ at.from <= q /\ q < b
      BY <1>0, <1>1, <2>1
    <3> HIDE DEF hit
    <3>2. CASE bm = {}
      <4>1. 0 \in Starts
        BY <3>2, <1>0 DEF FreeRuns
      <4>2. at.from <= 0
        BY <4>1, <2>1
      <4>3. hit = 0
        BY <3>2, <4>2, <2>0, <2>3, <1>0
      <4> QED
        BY <4>3, <3>1
    <3>3. CASE bm # {}
      BY <3>1, <3>3, <2>0, <2>3
    <3> QED
      BY <3>2, <3>3
  <2>5. ASSUME hit < b, ~(hit + len > b), Zeroes(bm, at, hit, len) PROVE hit \in Starts
    <3>1. hit \in 0 .. b - len
      BY <2>3, <2>5, <1>0
    <3>2. at.map * b \in Nat /\ at.map * b = 0 /\ len \in Int /\ hit + len <= b
      BY <1>0, <1>2, <2>3, <2>5
    <3>3. \A j \in 0 .. len - 1 : at.map * b + hit + j \notin bm
      BY <2>3, <2>5, <3>2, ZeroesFree
    <3> HIDE DEF hit
    <3>4. ASSUME NEW x \in Run(hit, len) PROVE x \notin bm
      <4>1. x - hit \in 0 .. len - 1 /\ at.map * b + hit + (x - hit) = x
        BY <3>1, <3>2, <1>0 DEF Run
      <4> QED
        BY <4>1, <3>3
    <3> QED
      BY <3>1, <3>4 DEF FreeRuns
  <2>6. ASSUME NEW j \in 0 .. len - 1, hit + j \in bm PROVE hit \notin Starts
    <3> HIDE DEF hit
    <3>1. hit + j \in Run(hit, len)
      BY <2>3, <1>0 DEF Run
    <3> QED
      BY <3>1, <2>6 DEF FreeRuns
  <2>7. len - at.contig = len /\ hit + len - at.contig = hit + len
        /\ at.contig + b - hit = b - hit
    <3> HIDE DEF hit
    <3> QED
      BY <2>1, <2>3, <1>0
  <2>8. CASE SearchEnds(bm, len, b, at)
    <3>1. hit < b /\ ~(hit + len > b) /\ Zeroes(bm, at, hit, len)
      BY <2>0, <2>7, <2>8, <1>0, <1>2 DEF SearchEnds
    <3>2. SearchAnswer(bm, b, at) = hit
      <4>1. SearchAnswer(bm, b, at) = at.map * b + hit - at.contig
        BY <1>0, <1>2 DEF SearchAnswer
      <4> HIDE DEF hit
      <4> QED
        BY <4>1, <1>0, <1>2, <2>1, <2>3
    <3>3. FirstFit(bm, len, b) = hit
      <4> HIDE DEF hit
      <4> QED
        BY <2>4, <2>5, <3>1, <1>0, FirstFitIs
    <3> QED
      BY <2>8, <3>2, <3>3
  <2>9. CASE ~SearchEnds(bm, len, b, at)
    <3> DEFINE to == SearchNext(bm, len, b, at)
    <3>0. to \in Cursors(b)
      BY <2>0, <2>9, <1>0, SearchProgress
    <3>1. CASE Starts = {} /\ to.map = 1
      BY <3>0, <3>1, <2>9
    <3>2. ~(hit + len > b) /\ hit < b => ~Zeroes(bm, at, hit, len)
      BY <2>1, <2>7, <2>9 DEF SearchEnds
    <3>3. CASE hit = b
      <4>1. to = NextInt(at, 0)
        BY <3>3, <1>0 DEF SearchNext
      <4>2. to.map = 1
        BY <4>1, <1>2 DEF NextInt
      <4>3. Starts = {}
        <5> HIDE DEF hit, Starts
        <5> QED
          BY <3>3, <2>4, <1>0, <1>1
      <4> QED
        BY <3>1, <4>2, <4>3
    <3>4. CASE hit < b /\ hit + len > b /\ Zeroes(bm, at, hit, b - hit)
      <4>1. to = NextInt(at, at.contig + b - hit)
        BY <3>4, <2>1, <2>7, <2>3, <1>0 DEF SearchNext
      <4>2. to.map = 1
        BY <4>1, <1>2 DEF NextInt
      <4>3. Starts = {}
        <5> HIDE DEF hit, Starts
        <5> QED
          BY <3>4, <2>3, <2>4, <1>0, <1>1
      <4> QED
        BY <3>1, <4>2, <4>3
    <3>5. CASE hit < b /\ ~(hit + len > b /\ Zeroes(bm, at, hit, b - hit))
      <4>1. to = NextBit(at, hit)
        BY <3>5, <2>1, <2>7, <2>3, <1>0 DEF SearchNext
      <4>2. to.map = 0 /\ to.contig = 0 /\ to.from = hit + 1
        BY <4>1, <1>2 DEF NextBit
      <4>3. hit \notin Starts
        <5>1. CASE hit + len > b
          <6> HIDE DEF hit, Starts
          <6> QED
            BY <5>1, <2>3, <1>0, <1>1
        <5>2. CASE ~(hit + len > b)
          <6>1. PICK j \in BIT_MASK(len) : j \in ShiftRight(Word(bm, at.map), hit)
            BY <3>2, <3>5, <5>2 DEF Zeroes
          <6>2. j \in 0 .. len - 1 /\ j + hit \in bm
            BY <6>1, <2>2 DEF BIT_MASK, ShiftRight, val
          <6>3. j + hit = hit + j
            BY <6>2, <2>3
          <6> QED
            BY <6>2, <6>3, <2>6
        <5> QED
          BY <5>1, <5>2
      <4>4. \A q \in Starts : hit + 1 <= q
        <5> HIDE DEF hit, Starts
        <5> QED
          BY <4>3, <2>3, <2>4, <1>0, <1>1
      <4> HIDE DEF to, hit, Starts
      <4>5. to \in Inside
        BY <4>2, <4>4, <3>0
      <4> QED
        BY <4>5, <2>9 DEF to
    <3> QED
      BY <3>3, <3>4, <3>5, <2>3, <1>0
  <2> QED
    BY <2>8, <2>9
<1>3. ASSUME NEW at \in Inside, at.map # 0
      PROVE  SearchEnds(bm, len, b, at) /\ SearchAnswer(bm, b, at) \in Answers
  <2>1. at.map = 1 /\ Starts = {}
    BY <1>3
  <2>2. FirstFit(bm, len, b) = b
    BY <2>1, NothingFits
  <2> QED
    BY <2>1, <2>2, <1>0 DEF SearchEnds, SearchAnswer
<1>4. Start \in Inside
  <2>1. Start \in Cursors(b)
    BY <1>0, StartTyped
  <2>2. Start.map = 0 /\ Start.contig = 0 /\ Start.from = 0
    BY DEF Start
  <2>3. \A q \in Starts : Start.from <= q
    <3> HIDE DEF Starts
    <3> QED
      BY <2>2, <1>0, <1>1
  <2> QED
    BY <2>1, <2>2, <2>3
<1>5. Inside \in SUBSET Cursors(b)
  OBVIOUS
<1>6. find_zero_bits(bm, len, b) \in Answers
  <2> HIDE DEF Inside, Answers
  <2>1. \A at \in Inside : IF SearchEnds(bm, len, b, at)
                           THEN SearchAnswer(bm, b, at) \in Answers
                           ELSE SearchNext(bm, len, b, at) \in Inside
    BY <1>2, <1>3
  <2> QED
    BY <2>1, <1>0, <1>4, <1>5, FindKeeps
<1> QED
  BY <1>6

-----------------------------------------------------------------------------
(* The update of a run, int by int.                                        *)

\* The bits of the run that are left, when done of them are done.
BitsLeft(start, len, done) == start + done .. start + len - 1

\* The piece of one int.
PieceBits(start, len, done) ==
    LET ofs == (start + done) % BITS_IN_INT
        temp == len - done
    IN  IF temp + ofs > BITS_IN_INT THEN BITS_IN_INT - ofs ELSE temp

LEMMA PieceLeaves ==
    ASSUME NEW start \in Nat, NEW len \in Nat, NEW done \in 0 .. len, done # len
    PROVE  LET bits == PieceBits(start, len, done)
           IN  /\ bits \in 1 .. len - done
               /\ BitsLeft(start, len, done)
                    = {start + done + i : i \in BIT_MASK(bits)}
                        \cup BitsLeft(start, len, done + bits)
<1> DEFINE ofs == (start + done) % BITS_IN_INT
           bits == PieceBits(start, len, done)
           s == start + done
<1>0. BITS_IN_INT \in Nat \ {0} /\ s \in Nat /\ ofs \in 0 .. BITS_IN_INT - 1
  <2>1. s \in Nat /\ BITS_IN_INT \in Nat \ {0}
    BY WidthAssumption
  <2> HIDE DEF s
  <2> QED
    BY <2>1, DivMod DEF s
<1>1. bits = IF (len - done) + ofs > BITS_IN_INT THEN BITS_IN_INT - ofs ELSE len - done
  BY DEF PieceBits
<1> HIDE DEF ofs, bits
<1>2. bits \in 1 .. len - done
  BY <1>0, <1>1
<1>3. ASSUME NEW x
      PROVE  x \in BitsLeft(start, len, done)
               <=> x \in {start + done + i : i \in BIT_MASK(bits)}
                          \cup BitsLeft(start, len, done + bits)
  <2>1. CASE x \in BitsLeft(start, len, done)
    <3>0. x \in Int /\ s <= x /\ x <= start + len - 1
      BY <2>1 DEF BitsLeft
    <3>1. CASE x < s + bits
      <4>1. x - s \in BIT_MASK(bits) /\ start + done + (x - s) = x
        BY <3>0, <3>1, <1>2 DEF BIT_MASK
      <4> QED
        BY <4>1, <2>1
    <3>2. CASE x >= s + bits
      <4>1. x \in BitsLeft(start, len, done + bits)
        BY <3>0, <3>2, <1>2 DEF BitsLeft
      <4> QED
        BY <4>1, <2>1
    <3> QED
      BY <3>0, <3>1, <3>2, <1>2
  <2>2. ASSUME NEW i \in BIT_MASK(bits), x = start + done + i
        PROVE  x \in BitsLeft(start, len, done)
    BY <2>2, <1>2 DEF BIT_MASK, BitsLeft
  <2>3. ASSUME x \in BitsLeft(start, len, done + bits) PROVE x \in BitsLeft(start, len, done)
    BY <2>3, <1>2 DEF BitsLeft
  <2> QED
    BY <2>1, <2>2, <2>3
<1>4. BitsLeft(start, len, done)
        = {start + done + i : i \in BIT_MASK(bits)} \cup BitsLeft(start, len, done + bits)
  BY <1>3
<1> QED
  BY <1>2, <1>4 DEF bits

\* update_bit_map: the run asked for, and nothing else.
LEMMA UpdateBitMap ==
    ASSUME NEW bm, NEW start \in Nat, NEW len \in Nat, NEW is_set \in BOOLEAN
    PROVE  update_bit_map(bm, start, len, is_set)
             = IF is_set THEN bm \cup Run(start, len) ELSE bm \ Run(start, len)
<1> DEFINE Body(g, done) ==
            IF done = len THEN {}
            ELSE LET ofs == (start + done) % BITS_IN_INT
                     temp == len - done
                     bits == IF temp + ofs > BITS_IN_INT THEN BITS_IN_INT - ofs ELSE temp
                 IN  {start + done + i : i \in BIT_MASK(bits)} \cup g[done + bits]
           Rest(g) == g = [done \in 0 .. len |-> Body(g, done)]
           h == CHOOSE g : Rest(g)
           e == [done \in 0 .. len |-> BitsLeft(start, len, done)]
<1>1. ASSUME NEW g, NEW done \in 0 .. len
      PROVE  Body(g, done) = IF done = len THEN {}
                ELSE {start + done + i : i \in BIT_MASK(PieceBits(start, len, done))}
                        \cup g[done + PieceBits(start, len, done)]
  BY DEF PieceBits
<1> HIDE DEF Body
<1>2. Rest(e)
  <2>1. ASSUME NEW done \in 0 .. len PROVE BitsLeft(start, len, done) = Body(e, done)
    <3>1. CASE done = len
      <4>1. BitsLeft(start, len, done) = {}
        BY <3>1 DEF BitsLeft
      <4> QED
        BY <4>1, <3>1, <1>1
    <3>2. CASE done # len
      <4> DEFINE bits == PieceBits(start, len, done)
      <4>1. /\ bits \in 1 .. len - done
            /\ BitsLeft(start, len, done)
                 = {start + done + i : i \in BIT_MASK(bits)} \cup BitsLeft(start, len, done + bits)
        BY <3>2, PieceLeaves
      <4>2. done + bits \in 0 .. len
        BY <4>1
      <4>3. e[done + bits] = BitsLeft(start, len, done + bits)
        BY <4>2
      <4> HIDE DEF e
      <4> QED
        BY <4>1, <4>3, <3>2, <1>1
    <3> QED
      BY <3>1, <3>2
  <2> QED
    BY <2>1
<1>3. Rest(h)
  <2> HIDE DEF Rest, e
  <2> QED
    BY <1>2
<1>4. update_bit_map(bm, start, len, is_set)
        = IF is_set THEN bm \cup h[0] ELSE bm \ h[0]
  BY DEF update_bit_map, Body
<1> HIDE DEF h
<1>5. \A done \in 0 .. len : h[done] = Body(h, done)
  BY <1>3
<1> DEFINE S == {m \in 0 .. len : h[len - m] # BitsLeft(start, len, len - m)}
<1>6. S = {}
  <2>1. SUFFICES ASSUME S # {} PROVE FALSE
    OBVIOUS
  <2>2. PICK m \in S : \A k \in S : m <= k
    <3>1. S \in SUBSET Nat
      OBVIOUS
    <3> HIDE DEF S
    <3> QED
      BY <2>1, <3>1, LeastElement
  <2> DEFINE done == len - m
  <2>3. done \in 0 .. len /\ h[done] # BitsLeft(start, len, done)
    BY <2>2
  <2>4. CASE done = len
    <3>1. BitsLeft(start, len, done) = {}
      BY <2>4 DEF BitsLeft
    <3>2. h[done] = {}
      BY <2>3, <2>4, <1>1, <1>5
    <3> QED
      BY <3>1, <3>2, <2>3
  <2>5. CASE done # len
    <3> DEFINE bits == PieceBits(start, len, done)
               k == len - (done + bits)
    <3>1. /\ bits \in 1 .. len - done
          /\ BitsLeft(start, len, done)
               = {start + done + i : i \in BIT_MASK(bits)} \cup BitsLeft(start, len, done + bits)
      BY <2>3, <2>5, PieceLeaves
    <3>2. k \in 0 .. len /\ k < m /\ len - k = done + bits
      BY <3>1, <2>3
    <3>3. h[done + bits] = BitsLeft(start, len, done + bits)
      <4>1. k \notin S
        BY <2>2, <3>2
      <4> HIDE DEF k, done, bits
      <4> QED
        BY <4>1, <3>2
    <3>4. h[done] = {start + done + i : i \in BIT_MASK(bits)} \cup h[done + bits]
      BY <2>3, <2>5, <1>1, <1>5
    <3> QED
      BY <3>1, <3>3, <3>4, <2>3
  <2> QED
    BY <2>4, <2>5
<1>7. h[0] = Run(start, len)
  <2>1. len \in 0 .. len /\ len \notin S /\ len - len = 0
    BY <1>6
  <2>2. h[0] = BitsLeft(start, len, 0)
    BY <2>1
  <2>3. BitsLeft(start, len, 0) = Run(start, len)
    BY DEF BitsLeft, Run
  <2> QED
    BY <2>2, <2>3
<1> QED
  BY <1>4, <1>7

\* set_bit_map and clear_bit_map.
LEMMA BitsSet ==
    ASSUME NEW b, NEW start \in Nat, NEW n \in Nat
    PROVE  set_bit_map(b, start, n) = b \cup Run(start, n)
<1>1. \A s \in BOOLEAN : update_bit_map(b, start, n, s)
            = IF s THEN b \cup Run(start, n) ELSE b \ Run(start, n)
  BY UpdateBitMap
<1> QED
  BY <1>1, Zenon DEF set_bit_map

LEMMA BitsCleared ==
    ASSUME NEW b, NEW start \in Nat, NEW n \in Nat
    PROVE  clear_bit_map(b, start, n) = b \ Run(start, n)
<1>1. \A s \in BOOLEAN : update_bit_map(b, start, n, s)
            = IF s THEN b \cup Run(start, n) ELSE b \ Run(start, n)
  BY UpdateBitMap
<1> QED
  BY <1>1, Zenon DEF clear_bit_map

-----------------------------------------------------------------------------
(* Every request on every map, as the run checks it.                       *)

BitInv ==
    part = "bits" =>
        /\ max_bits \in Nat \ {0} /\ bmap \in SUBSET (0 .. max_bits - 1)
        /\ cnt \in 1 .. max_bits
        /\ pc \in {"search", "mark", "refused", "marked", "released"}
        /\ pc # "search" => ret = find_zero_bits(bmap, cnt, max_bits)
        /\ pc \in {"mark", "marked", "released"} => ret < max_bits
        /\ marked = IF pc = "marked" THEN bmap \cup Run(ret, cnt) ELSE bmap

\* A run that was found: where it begins, and that it is free.
LEMMA FoundRun ==
    ASSUME WidthOfInt, BitInv, part = "bits", pc \in {"mark", "marked", "released"}
    PROVE  ret \in Nat /\ Run(ret, cnt) \cap bmap = {}
<1>1. /\ ret \in {max_bits} \cup FreeRuns(bmap, cnt, (LastInt(max_bits) + 1) * BITS_IN_INT)
      /\ ret # max_bits
  BY FindFreeRun DEF BitInv
<1> QED
  BY <1>1 DEF FreeRuns

LEMMA BitStep ==
    ASSUME WidthOfInt, BitInv, part = "bits", part' = part, BitsNext
    PROVE  BitInv'
<1> USE DEF BitInv
<1>1. CASE Search
  <2>1. ret' \in {max_bits} \cup FreeRuns(bmap, cnt, (LastInt(max_bits) + 1) * BITS_IN_INT)
    BY <1>1, FindFreeRun DEF Search
  <2> QED
    BY <1>1, <2>1 DEF Search
<1>2. CASE Mark
  <2>1. ret \in Nat /\ cnt \in Nat
    BY <1>2, FoundRun DEF Mark
  <2>2. marked' = bmap \cup Run(ret, cnt)
    <3>1. marked' = set_bit_map(bmap, ret, cnt)
      BY <1>2 DEF Mark
    <3>2. set_bit_map(bmap, ret, cnt) = bmap \cup Run(ret, cnt)
      BY <2>1, BitsSet
    <3> QED
      BY <3>1, <3>2
  <2> QED
    BY <1>2, <2>2 DEF Mark
<1>3. CASE Release
  <2>1. /\ ret \in Nat /\ cnt \in Nat
        /\ Run(ret, cnt) \cap bmap = {} /\ marked = bmap \cup Run(ret, cnt)
    BY <1>3, FoundRun DEF Release
  <2>2. marked' = marked \ Run(ret, cnt)
    <3>1. marked' = clear_bit_map(marked, ret, cnt)
      BY <1>3 DEF Release
    <3>2. clear_bit_map(marked, ret, cnt) = marked \ Run(ret, cnt)
      BY <2>1, BitsCleared
    <3> QED
      BY <3>1, <3>2
  <2>3. marked' = bmap
    BY <2>1, <2>2
  <2> QED
    BY <1>3, <2>3 DEF Release
<1> QED
  BY <1>1, <1>2, <1>3 DEF BitsNext

LEMMA BitInvariant ==
    ASSUME WidthOfInt
    PROVE  PartsSpec => []BitInv
<1>1. PartsInit => BitInv
  <2>1. ASSUME BitsInit PROVE BitInv
    BY <2>1, MaxBitsAssumption DEF BitsInit, BitInv
  <2> QED
    BY <2>1 DEF PartsInit, BitInv
<1>2. BitInv /\ [PartsNext]_<<part, vars, bitVars>> => BitInv'
  <2> SUFFICES ASSUME BitInv, [PartsNext]_<<part, vars, bitVars>> PROVE BitInv'
    OBVIOUS
  <2>1. CASE part = "kmm" /\ UNCHANGED <<part, bitVars>>
    BY <2>1 DEF BitInv
  <2>2. CASE part = "bits" /\ BitsNext /\ part' = part
    BY <2>2, BitStep
  <2>3. CASE UNCHANGED <<part, vars, bitVars>>
    BY <2>3 DEF BitInv, bitVars
  <2> QED
    BY <2>1, <2>2, <2>3 DEF PartsNext
<1> QED
  BY <1>1, <1>2, PTL DEF PartsSpec

\* find_zero_bits finds a free run, in maps of every length, and the first one
\* where the code promises it; set_bit_map and clear_bit_map change that run and
\* nothing else.
THEOREM BitMapIsExact ==
    ASSUME WidthOfInt
    PROVE  PartsSpec => []BitMapExact
<1>1. BitInv => BitMapExact
  <2> SUFFICES ASSUME BitInv, part = "bits"
               PROVE  FoundRunIsFree /\ SingleBlockExact /\ OneIntFirstFit /\ UpdateExact
    BY DEF BitMapExact
  <2>1. FoundRunIsFree
    BY FoundRun DEF FoundRunIsFree
  <2>2. SingleBlockExact
    BY FindSingleBlock DEF SingleBlockExact, BitInv
  <2>3. OneIntFirstFit
    <3> SUFFICES ASSUME max_bits = BITS_IN_INT, pc # "search"
                 PROVE  ret = FirstFit(bmap, cnt, max_bits)
      BY DEF OneIntFirstFit
    <3>1. /\ bmap \in SUBSET (0 .. BITS_IN_INT - 1) /\ cnt \in 1 .. BITS_IN_INT
          /\ ret = find_zero_bits(bmap, cnt, BITS_IN_INT)
      BY DEF BitInv
    <3> QED
      BY <3>1, FindInOneInt
  <2>4. UpdateExact
    BY DEF UpdateExact, BitInv
  <2> QED
    BY <2>1, <2>2, <2>3, <2>4
<1> QED
  BY <1>1, BitInvariant, PTL

-----------------------------------------------------------------------------
(* The user memory manager: the list of chunks.                            *)

\* The pointers hd, tl and nx hold the sequence s, which has the chunks of L, each
\* once.
Chain(s, hd, tl, nx, L) ==
    /\ s \in Seq(Chunks)
    /\ \A i, j \in 1 .. Len(s) : s[i] = s[j] => i = j
    /\ L = {s[i] : i \in 1 .. Len(s)}
    /\ hd = IF Len(s) = 0 THEN Null ELSE s[1]
    /\ tl = IF Len(s) = 0 THEN Null ELSE s[Len(s)]
    /\ \A i \in 1 .. Len(s) : nx[s[i]] = IF i < Len(s) THEN s[i + 1] ELSE Null

ChunkIds ==
    /\ IsFiniteSet(Chunks) /\ Cardinality(Chunks) \in Nat
    /\ Chunks = 1 .. Cardinality(Chunks)
    /\ Null \notin Chunks

LEMMA ChunkIdsAre == ChunkIds
<1>1. IsFiniteSet(Chunks) /\ Chunks = 1 .. Cardinality(Chunks)
  BY UmmAssumption DEF UmmAssumption
<1>2. Cardinality(Chunks) \in Nat
  BY <1>1, FS_CardinalityType
<1> QED
  BY <1>1, <1>2 DEF ChunkIds, Null

\* A chain is no longer than there are chunks.
LEMMA ChainShort ==
    ASSUME NEW s, NEW hd, NEW tl, NEW nx, NEW L, Chain(s, hd, tl, nx, L)
    PROVE  Len(s) \in 0 .. Cardinality(Chunks)
<1> DEFINE n == Len(s)
<1>0. n \in Nat /\ s \in [1 .. n -> Chunks]
  BY DEF Chain
<1>1. s \in Injection(1 .. n, Chunks)
  BY <1>0 DEF Chain, Injection, IsInjective
<1>2. IsFiniteSet(Chunks) /\ Cardinality(Chunks) \in Nat
  BY ChunkIdsAre DEF ChunkIds
<1>3. Cardinality(1 .. n) <= Cardinality(Chunks)
  BY <1>1, <1>2, FS_Injection
<1>4. Cardinality(1 .. n) = n
  BY <1>0, FS_Interval
<1> QED
  BY <1>0, <1>2, <1>3, <1>4

\* A walk from the head passes the chunks of the chain.
LEMMA WalkOfChain ==
    ASSUME NEW s, NEW L, Chain(s, head, tail, next, L)
    PROVE  Listed = L
<1> DEFINE N == Cardinality(Chunks)
           Body(f, i) == IF i = 0 THEN head
                         ELSE IF f[i - 1] = Null THEN Null ELSE next[f[i - 1]]
           Steps(f) == f = [i \in 0 .. N |-> Body(f, i)]
           h == CHOOSE f : Steps(f)
           e == [i \in 0 .. N |-> IF i < Len(s) THEN s[i + 1] ELSE Null]
<1>0. N \in Nat /\ Len(s) \in 0 .. N /\ Null \notin Chunks
  BY ChunkIdsAre, ChainShort DEF ChunkIds
<1>1. \A i \in 1 .. Len(s) : s[i] \in Chunks
  BY DEF Chain
<1>2. Steps(e)
  <2>1. ASSUME NEW i \in 0 .. N, i = 0 PROVE e[i] = Body(e, i)
    BY <1>0, <2>1 DEF Chain
  <2>2. ASSUME NEW i \in 0 .. N, i # 0 PROVE e[i] = Body(e, i)
    <3>1. i - 1 \in 0 .. N /\ e[i - 1] = IF i - 1 < Len(s) THEN s[i] ELSE Null
      BY <1>0, <2>2
    <3>2. e[i] = IF i < Len(s) THEN s[i + 1] ELSE Null
      OBVIOUS
    <3> HIDE DEF e
    <3> QED
      BY <1>0, <1>1, <2>2, <3>1, <3>2 DEF Chain
  <2>3. \A i \in 0 .. N : e[i] = Body(e, i)
    BY <2>1, <2>2
  <2>4. e = [i \in 0 .. N |-> e[i]]
    BY Zenon
  <2> HIDE DEF e
  <2> QED
    BY <2>3, <2>4
<1>3. Steps(h)
  <2> HIDE DEF Steps, e
  <2> QED
    BY <1>2, Zenon DEF h
<1>4. \A i \in 0 .. N : h[i] = e[i]
  <2> DEFINE S == {i \in 0 .. N : h[i] # e[i]}
  <2> SUFFICES ASSUME S # {} PROVE FALSE
    OBVIOUS
  <2>1. PICK i \in S : \A m \in S : i <= m
    <3>1. S \in SUBSET Nat
      OBVIOUS
    <3> HIDE DEF S
    <3> QED
      BY <3>1, LeastElement
  <2>2. h[i] = Body(h, i) /\ e[i] = Body(e, i) /\ h[i] # e[i] /\ i \in 0 .. N
    <3> HIDE DEF h, e
    <3> QED
      BY <1>2, <1>3
  <2>3. i # 0 /\ i - 1 \in 0 .. N /\ i - 1 \notin S
    <3> HIDE DEF h, e
    <3> QED
      BY <1>0, <2>1, <2>2
  <2>4. h[i - 1] = e[i - 1]
    BY <2>3
  <2> HIDE DEF h, e, S
  <2> QED
    BY <2>2, <2>3, <2>4
<1>5. DOMAIN h = 0 .. N
  <2> HIDE DEF h
  <2> QED
    BY <1>3
<1>6. Listed = {h[i] : i \in DOMAIN h} \ {Null}
  BY Zenon DEF Listed, WalkFrom
<1>7. {h[i] : i \in DOMAIN h} = {e[i] : i \in 0 .. N}
  <2> HIDE DEF h, e
  <2> QED
    BY <1>4, <1>5
<1>8. L = {s[i] : i \in 1 .. Len(s)}
  BY DEF Chain
<1>9. {e[i] : i \in 0 .. N} \ {Null} = {s[i] : i \in 1 .. Len(s)}
  <2>1. ASSUME NEW i \in 1 .. Len(s) PROVE \E j \in 0 .. N : e[j] = s[i] /\ s[i] # Null
    <3>1. i - 1 \in 0 .. N /\ e[i - 1] = s[i] /\ s[i] # Null
      BY <1>0, <1>1
    <3> QED
      BY <3>1
  <2>2. ASSUME NEW i \in 0 .. N, e[i] # Null PROVE \E j \in 1 .. Len(s) : e[i] = s[j]
    <3>1. i < Len(s) /\ e[i] = s[i + 1] /\ i + 1 \in 1 .. Len(s)
      BY <1>0, <2>2
    <3> QED
      BY <3>1
  <2> QED
    BY <2>1, <2>2
<1> QED
  BY <1>6, <1>7, <1>8, <1>9

ListTyped ==
    /\ {head, tail} \subseteq Chunks \cup {Null}
    /\ next \in [Chunks -> Chunks \cup {Null}]

\* update_umem_table links a chunk at the end of the chain.
LEMMA ChainAppends ==
    ASSUME ListTyped, NEW s, NEW L, Chain(s, head, tail, next, L),
           NEW c \in Chunks \ L, next[c] = Null, AppendToList(c)
    PROVE  /\ Chain(Append(s, c), head', tail', next', L \cup {c})
           /\ \A d \in Chunks \ L : next'[d] = next[d]
<1> DEFINE n == Len(s)
           z == Append(s, c)
<1>0. n \in Nat /\ s \in Seq(Chunks) /\ Null \notin Chunks /\ c \in Chunks
  BY ChunkIdsAre DEF ChunkIds, Chain
<1>1. /\ z \in Seq(Chunks) /\ Len(z) = n + 1
      /\ \A i \in 1 .. n : z[i] = s[i] /\ s[i] \in Chunks
      /\ z[n + 1] = c
  BY <1>0
<1> HIDE DEF z
<1>2. /\ head = IF n = 0 THEN Null ELSE s[1]
      /\ tail = IF n = 0 THEN Null ELSE s[n]
      /\ \A i \in 1 .. n : next[s[i]] = IF i < n THEN s[i + 1] ELSE Null
      /\ \A i, j \in 1 .. n : s[i] = s[j] => i = j
      /\ L = {s[i] : i \in 1 .. n}
  BY DEF Chain
<1>3. /\ head' = IF head = Null THEN c ELSE head
      /\ next' = IF head = Null THEN next ELSE [next EXCEPT ![tail] = c]
      /\ tail' = c
  BY DEF AppendToList
<1>4. head = Null <=> n = 0
  BY <1>0, <1>1, <1>2
<1>5. \A i \in 1 .. n : s[i] # c
  BY <1>2
<1>6. \A i, j \in 1 .. n + 1 : z[i] = z[j] => i = j
  BY <1>0, <1>1, <1>2, <1>5
<1>7. L \cup {c} = {z[i] : i \in 1 .. n + 1}
  <2>1. ASSUME NEW x \in L \cup {c} PROVE \E i \in 1 .. n + 1 : z[i] = x
    <3>1. CASE x = c
      BY <1>0, <1>1, <3>1
    <3>2. CASE x # c
      BY <1>0, <1>1, <1>2, <3>2
    <3> QED
      BY <3>1, <3>2
  <2>2. ASSUME NEW i \in 1 .. n + 1 PROVE z[i] \in L \cup {c}
    BY <1>0, <1>1, <1>2
  <2> QED
    BY <2>1, <2>2
<1>8. head' = z[1] /\ tail' = z[n + 1]
  BY <1>0, <1>1, <1>2, <1>3, <1>4
<1>9. ASSUME NEW i \in 1 .. n + 1
      PROVE  next'[z[i]] = IF i < n + 1 THEN z[i + 1] ELSE Null
  <2>1. CASE i = n + 1
    <3>1. next'[c] = Null
      <4>1. tail # c
        BY <1>0, <1>2, <1>5
      <4> QED
        BY <4>1, <1>3 DEF ListTyped
    <3> QED
      BY <2>1, <3>1, <1>0, <1>1
  <2>2. CASE i # n + 1
    <3>1. i \in 1 .. n /\ z[i] = s[i] /\ s[i] \in Chunks /\ head # Null /\ tail = s[n]
      BY <1>0, <1>1, <1>2, <1>4, <2>2
    <3>2. next' = [next EXCEPT ![s[n]] = c]
      BY <1>3, <3>1
    <3>3. next'[s[i]] = IF s[i] = s[n] THEN c ELSE next[s[i]]
      BY <3>1, <3>2 DEF ListTyped
    <3>4. CASE i = n
      BY <3>3, <3>4, <3>1, <1>0, <1>1
    <3>5. CASE i # n
      <4>1. s[i] # s[n] /\ i < n /\ z[i + 1] = s[i + 1]
        BY <3>1, <3>5, <1>0, <1>1, <1>2
      <4> QED
        BY <4>1, <3>1, <3>3, <1>0, <1>2
    <3> QED
      BY <3>4, <3>5
  <2> QED
    BY <2>1, <2>2
<1>10. Chain(z, head', tail', next', L \cup {c})
  <2>1. n + 1 # 0
    BY <1>0
  <2> QED
    BY <2>1, <1>1, <1>6, <1>7, <1>8, <1>9, ZenonT(30) DEF Chain
<1>11. ASSUME NEW d \in Chunks \ L PROVE next'[d] = next[d]
  <2>1. CASE head = Null
    BY <2>1, <1>3
  <2>2. CASE head # Null
    <3>1. tail \in L
      BY <2>2, <1>0, <1>2, <1>4
    <3>2. next' = [next EXCEPT ![tail] = c] /\ d # tail
      BY <2>2, <3>1, <1>3
    <3> QED
      BY <3>2 DEF ListTyped
  <2> QED
    BY <2>1, <2>2
<1> QED
  BY <1>10, <1>11 DEF z

\* delete_chunk finds the link to a chunk of the chain and takes the chunk out.
LEMMA ChainRemoves ==
    ASSUME ListTyped, NEW s, NEW L, Chain(s, head, tail, next, L),
           NEW c \in L, Unlink(c)
    PROVE  /\ \E z : Chain(z, head', tail', next', L \ {c})
           /\ \A d \in Chunks \ L : next'[d] = next[d]
<1> DEFINE n == Len(s)
<1>0. n \in Nat /\ s \in Seq(Chunks) /\ Null \notin Chunks
  BY ChunkIdsAre DEF ChunkIds, Chain
<1>1. \A i \in 1 .. n : s[i] \in Chunks
  BY <1>0
<1>2. /\ head = IF n = 0 THEN Null ELSE s[1]
      /\ tail = IF n = 0 THEN Null ELSE s[n]
      /\ \A i \in 1 .. n : next[s[i]] = IF i < n THEN s[i + 1] ELSE Null
      /\ \A i, j \in 1 .. n : s[i] = s[j] => i = j
      /\ L = {s[i] : i \in 1 .. n}
  BY DEF Chain
<1>3. PICK k \in 1 .. n : s[k] = c
  BY <1>2
<1>4. c \in Chunks /\ n # 0 /\ (c = head <=> k = 1) /\ (c = tail <=> k = n)
  BY <1>0, <1>1, <1>2, <1>3
<1>5. next[c] = IF k < n THEN s[k + 1] ELSE Null
  BY <1>2, <1>3
<1>6. k > 1 => Prev(c) = s[k - 1]
  <2> SUFFICES ASSUME k > 1 PROVE Prev(c) = s[k - 1]
    OBVIOUS
  <2>1. Listed = L
    BY WalkOfChain
  <2>2. k - 1 \in 1 .. n /\ s[k - 1] \in L /\ next[s[k - 1]] = c
    BY <1>0, <1>2, <1>3
  <2>3. ASSUME NEW d \in L, next[d] = c PROVE d = s[k - 1]
    <3>1. PICK i \in 1 .. n : d = s[i]
      BY <1>2
    <3>2. i < n /\ s[i + 1] = s[k] /\ i + 1 \in 1 .. n
      BY <1>0, <1>2, <1>3, <1>4, <2>3, <3>1
    <3>3. i + 1 = k
      BY <1>2, <3>2
    <3>4. i = k - 1
      BY <3>3
    <3> QED
      BY <3>1, <3>4
  <2> QED
    BY <2>1, <2>2, <2>3 DEF Prev
<1> DEFINE z == Removed(s, k)
<1>7. /\ z \in Seq(Chunks) /\ Len(z) = n - 1
      /\ \A j \in 1 .. n - 1 : z[j] = IF j < k THEN s[j] ELSE s[j + 1]
  BY <1>0, ListRemove
<1>0a. k \in 1 .. n
  OBVIOUS
<1> HIDE DEF z, n
<1>7a. \A j \in 1 .. n - 1 : j < k => j \in 1 .. n /\ z[j] = s[j]
  BY <1>0, <1>0a, <1>7
<1>7b. \A j \in 1 .. n - 1 : ~(j < k) => j + 1 \in 1 .. n /\ z[j] = s[j + 1]
  BY <1>0, <1>0a, <1>7
<1>8. /\ head' = IF c = head THEN next[c] ELSE head
      /\ next' = IF c = head THEN next ELSE [next EXCEPT ![Prev(c)] = next[c]]
      /\ tail' = IF c = head /\ next[c] = Null THEN Null
                 ELSE IF c # head /\ c = tail THEN Prev(c) ELSE tail
  BY DEF Unlink
<1>9. ASSUME NEW i \in 1 .. n - 1, NEW j \in 1 .. n - 1, z[i] = z[j]
      PROVE  i = j
  <2> DEFINE f(x) == IF x < k THEN x ELSE x + 1
  <2>1. /\ f(i) \in 1 .. n /\ f(j) \in 1 .. n
        /\ z[i] = s[f(i)] /\ z[j] = s[f(j)]
    BY <1>0, <1>7
  <2>2. f(i) = f(j)
    BY <2>1, <1>2, <1>9
  <2> QED
    BY <2>2, <1>0
<1>10. L \ {c} = {z[i] : i \in 1 .. n - 1}
  <2>1. ASSUME NEW x \in L \ {c} PROVE \E i \in 1 .. n - 1 : z[i] = x
    <3>1. PICK j \in 1 .. n : s[j] = x
      BY <1>2
    <3>2. j # k
      BY <1>3, <3>1
    <3>3. CASE j < k
      <4>1. j \in 1 .. n - 1 /\ z[j] = s[j]
        BY <3>3, <1>0, <1>7
      <4> QED
        BY <4>1, <3>1
    <3>4. CASE j > k
      <4>1. j - 1 \in 1 .. n - 1 /\ z[j - 1] = s[(j - 1) + 1] /\ (j - 1) + 1 = j
        BY <3>4, <1>0, <1>7
      <4> QED
        BY <4>1, <3>1
    <3> QED
      BY <3>2, <3>3, <3>4, <1>0
  <2>2. ASSUME NEW i \in 1 .. n - 1 PROVE z[i] \in L \ {c}
    <3>1. CASE i < k
      BY <3>1, <1>0, <1>2, <1>3, <1>7
    <3>2. CASE ~(i < k)
      <4>1. z[i] = s[i + 1] /\ i + 1 \in 1 .. n
        BY <3>2, <1>7b
      <4>2. i + 1 # k
        BY <3>2, <1>0, <1>0a
      <4> QED
        BY <4>1, <4>2, <1>0a, <1>2, <1>3
    <3> QED
      BY <3>1, <3>2
  <2> QED
    BY <2>1, <2>2
<1>11. head' = IF n - 1 = 0 THEN Null ELSE z[1]
  <2>1. CASE k = 1
    BY <2>1, <1>0, <1>4, <1>5, <1>7, <1>8
  <2>2. CASE k # 1
    <3>1. head' = s[1]
      BY <2>2, <1>2, <1>4, <1>8
    <3>2. n - 1 # 0 /\ z[1] = s[1]
      BY <2>2, <1>0, <1>7
    <3> QED
      BY <3>1, <3>2
  <2> QED
    BY <2>1, <2>2
<1>12. tail' = IF n - 1 = 0 THEN Null ELSE z[n - 1]
  <2>1. CASE k = 1 /\ n = 1
    BY <2>1, <1>0, <1>4, <1>5, <1>8
  <2>2. CASE k = 1 /\ n # 1
    <3>0. k + 1 \in 1 .. n /\ k < n
      <4>1. n \in Nat /\ k \in 1 .. n
        BY <1>0
      <4> HIDE DEF n
      <4> QED
        BY <4>1, <2>2
    <3>1. next[c] # Null
      BY <3>0, <1>0, <1>1, <1>5
    <3>2. tail' = s[n]
      BY <3>1, <2>2, <1>2, <1>4, <1>8
    <3> QED
      BY <3>2, <2>2, <1>0, <1>7
  <2>3. CASE k # 1 /\ k = n
    BY <2>3, <1>0, <1>4, <1>6, <1>7, <1>8
  <2>4. CASE k # 1 /\ k # n
    <3>1. tail' = s[n]
      BY <2>4, <1>2, <1>4, <1>8
    <3> QED
      BY <3>1, <2>4, <1>0, <1>7
  <2> QED
    BY <2>1, <2>2, <2>3, <2>4
<1>13. ASSUME NEW j \in 1 .. n - 1
       PROVE  next'[z[j]] = IF j < n - 1 THEN z[j + 1] ELSE Null
  <2>1. CASE k = 1
    <3>1. next' = next /\ z[j] = s[j + 1] /\ j + 1 \in 1 .. n
      BY <2>1, <1>0, <1>4, <1>7, <1>8
    <3>2. next[s[j + 1]] = IF j + 1 < n THEN s[(j + 1) + 1] ELSE Null
      BY <3>1, <1>2
    <3>3. j < n - 1 => z[j + 1] = s[(j + 1) + 1]
      BY <2>1, <1>0, <1>7
    <3> QED
      BY <3>1, <3>2, <3>3, <1>0
  <2>2. CASE k # 1
    <3>0. k - 1 \in 1 .. n /\ s[k - 1] \in Chunks
      BY <2>2, <1>0, <1>1
    <3>1. next' = [next EXCEPT ![s[k - 1]] = next[c]]
      <4>1. k > 1 /\ c # head
        BY <2>2, <1>4
      <4>2. Prev(c) = s[k - 1]
        BY <4>1, <1>6
      <4>3. next' = [next EXCEPT ![Prev(c)] = next[c]]
        BY <4>1, <1>8
      <4> QED
        BY <4>2, <4>3, Zenon
    <3>2. ASSUME NEW d \in Chunks PROVE next'[d] = IF d = s[k - 1] THEN next[c] ELSE next[d]
      BY <3>1 DEF ListTyped
    <3>3. CASE j < k - 1
      <4>1. /\ j < k /\ j + 1 < k /\ j + 1 \in 1 .. n - 1
            /\ j # k - 1 /\ j < n - 1 /\ j < n
        BY <3>3, <1>0, <1>0a
      <4>2. z[j] = s[j] /\ z[j + 1] = s[j + 1] /\ j \in 1 .. n
        BY <4>1, <1>7a
      <4>3. s[j] # s[k - 1]
        BY <4>1, <4>2, <3>0, <1>2
      <4>4. next'[s[j]] = next[s[j]] /\ next[s[j]] = s[j + 1]
        BY <4>1, <4>2, <4>3, <3>2, <1>1, <1>2
      <4> QED
        BY <4>1, <4>2, <4>4
    <3>4. CASE j = k - 1
      <4>1. z[j] = s[k - 1] /\ next'[z[j]] = next[c]
        BY <3>0, <3>2, <3>4, <1>0, <1>7
      <4>2. j < n - 1 <=> k < n
        BY <3>4, <1>0, <1>0a
      <4>3. j < n - 1 => z[j + 1] = s[k + 1]
        <5>1. j + 1 = k /\ (j < n - 1 => k \in 1 .. n - 1)
          BY <3>4, <1>0, <1>0a
        <5> QED
          BY <5>1, <1>0a, <1>7b
      <4> QED
        BY <4>1, <4>2, <4>3, <1>5
    <3>5. CASE j > k - 1
      <4>0. ~(j < k) /\ j + 1 # k - 1
        BY <3>5, <1>0, <1>0a
      <4>1. z[j] = s[j + 1] /\ j + 1 \in 1 .. n /\ j + 1 # k - 1
        BY <4>0, <1>7b
      <4>2. s[j + 1] # s[k - 1]
        BY <4>1, <3>0, <1>2
      <4>3. next'[z[j]] = IF j + 1 < n THEN s[(j + 1) + 1] ELSE Null
        BY <4>1, <4>2, <3>2, <1>1, <1>2
      <4>4. j < n - 1 => z[j + 1] = s[(j + 1) + 1]
        <5>1. ~(j + 1 < k) /\ (j < n - 1 => j + 1 \in 1 .. n - 1)
          BY <4>0, <1>0, <1>0a
        <5> QED
          BY <5>1, <1>7b
      <4> QED
        BY <4>3, <4>4, <1>0
    <3> QED
      BY <3>3, <3>4, <3>5, <3>0, <1>0
  <2> QED
    BY <2>1, <2>2
<1>14. Chain(z, head', tail', next', L \ {c})
  <2>1. z \in Seq(Chunks) /\ Len(z) = n - 1
    BY <1>7
  <2>2. /\ \A i, j \in 1 .. Len(z) : z[i] = z[j] => i = j
        /\ L \ {c} = {z[i] : i \in 1 .. Len(z)}
    BY <2>1, <1>9, <1>10
  <2>3. \A i \in 1 .. Len(z) : next'[z[i]] = IF i < Len(z) THEN z[i + 1] ELSE Null
    BY <2>1, <1>13
  <2>4. /\ head' = IF Len(z) = 0 THEN Null ELSE z[1]
        /\ tail' = IF Len(z) = 0 THEN Null ELSE z[Len(z)]
    BY <2>1, <1>11, <1>12
  <2> QED
    BY <2>1, <2>2, <2>3, <2>4, Zenon DEF Chain
<1>15. ASSUME NEW d \in Chunks \ L PROVE next'[d] = next[d]
  <2>1. CASE c = head
    BY <2>1, <1>8
  <2>2. CASE c # head
    <3>1. k > 1
      BY <2>2, <1>4
    <3>2. s[k - 1] \in L
      BY <3>1, <1>0, <1>2
    <3>3. next' = [next EXCEPT ![Prev(c)] = next[c]] /\ Prev(c) = s[k - 1]
      BY <2>2, <3>1, <1>6, <1>8
    <3>4. d # Prev(c)
      BY <3>2, <3>3
    <3> QED
      BY <3>3, <3>4 DEF ListTyped
  <2> QED
    BY <2>1, <2>2
<1> QED
  BY <1>14, <1>15

-----------------------------------------------------------------------------
(* Blocks and bytes.                                                       *)

LEMMA TimesGrows ==
    ASSUME NEW b \in Nat, NEW p \in Nat, NEW q \in Nat, p <= q
    PROVE  b * p <= b * q
<1>1. PICK d \in Nat : q = p + d
  <2>1. q - p \in Nat /\ q = p + (q - p)
    OBVIOUS
  <2> QED
    BY <2>1
<1>2. b * (p + d) = b * p + b * d
  OBVIOUS
<1>3. b * d \in Nat /\ b * p \in Nat
  OBVIOUS
<1> QED
  BY <1>1, <1>2, <1>3

LEMMA TimesOne ==
    ASSUME NEW b \in Nat, NEW q \in Nat
    PROVE  b * (q + 1) = b * q + b
OBVIOUS

\* SIZE_TO_BLOCKS counts enough blocks, and the block at a block's border.
LEMMA BlocksHold ==
    ASSUME NEW size \in Nat \ {0}
    PROVE  /\ SIZE_TO_BLOCKS(size, BlkSize) \in Nat \ {0}
           /\ size <= BlkSize * SIZE_TO_BLOCKS(size, BlkSize)
<1> DEFINE a == size + BlkSize - 1
           n == a \div BlkSize
<1>0. BlkSize \in Nat \ {0} /\ a \in Nat
  BY UmmAssumption DEF UmmAssumption
<1>1. a % BlkSize \in 0 .. BlkSize - 1 /\ n \in Nat /\ a = BlkSize * n + (a % BlkSize)
  <2> HIDE DEF a
  <2> QED
    BY <1>0, DivMod
<1>2. n = SIZE_TO_BLOCKS(size, BlkSize)
  BY DEF SIZE_TO_BLOCKS
<1> HIDE DEF n
<1> DEFINE p == BlkSize * n
<1>3. p \in Nat /\ (n = 0 => p = 0)
  BY <1>0, <1>1
<1>4. size <= p
  <2> HIDE DEF p
  <2> QED
    BY <1>0, <1>1, <1>3 DEF p
<1> QED
  BY <1>1, <1>2, <1>3, <1>4

LEMMA BlockOfBorder ==
    ASSUME NEW q \in Nat
    PROVE  SIZE_TO_BLOCKS(q * BlkSize, BlkSize) = q
<1> DEFINE a == q * BlkSize + BlkSize - 1
           p == a \div BlkSize
           r == a % BlkSize
<1>0. BlkSize \in Nat \ {0} /\ a \in Nat
  <2>1. BlkSize \in Nat \ {0}
    BY UmmAssumption DEF UmmAssumption
  <2>2. q * BlkSize \in Nat
    BY <2>1
  <2> QED
    BY <2>1, <2>2
<1>1. r \in 0 .. BlkSize - 1 /\ p \in Nat /\ a = BlkSize * p + r
  <2> HIDE DEF a
  <2> QED
    BY <1>0, DivMod
<1>2. a = BlkSize * q + (BlkSize - 1)
  BY <1>0
<1> HIDE DEF a, p, r
<1>3. ~(p < q)
  <2> SUFFICES ASSUME p < q PROVE FALSE
    OBVIOUS
  <2>1. BlkSize * (p + 1) <= BlkSize * q
    BY <1>0, <1>1, TimesGrows
  <2>2. BlkSize * (p + 1) = BlkSize * p + BlkSize
    BY <1>0, <1>1, TimesOne
  <2> DEFINE x == BlkSize * p
             y == BlkSize * q
  <2>3. x \in Nat /\ y \in Nat
    BY <1>0, <1>1
  <2> HIDE DEF x, y
  <2>4. x + BlkSize <= y /\ x + r = y + (BlkSize - 1)
    BY <1>1, <1>2, <2>1, <2>2 DEF x, y
  <2> QED
    BY <1>0, <1>1, <2>3, <2>4
<1>4. ~(q < p)
  <2> SUFFICES ASSUME q < p PROVE FALSE
    OBVIOUS
  <2>1. BlkSize * (q + 1) <= BlkSize * p
    BY <1>0, <1>1, TimesGrows
  <2>2. BlkSize * (q + 1) = BlkSize * q + BlkSize
    BY <1>0, <1>1, TimesOne
  <2> DEFINE x == BlkSize * p
             y == BlkSize * q
  <2>3. x \in Nat /\ y \in Nat
    BY <1>0, <1>1
  <2> HIDE DEF x, y
  <2>4. y + BlkSize <= x /\ x + r = y + (BlkSize - 1)
    BY <1>1, <1>2, <2>1, <2>2 DEF x, y
  <2> QED
    BY <1>0, <1>1, <2>3, <2>4
<1> QED
  BY <1>1, <1>3, <1>4 DEF SIZE_TO_BLOCKS, p, a

\* The chunk is a whole number of blocks.
WholeBlocks == ChunkSize % BlkSize = 0

LEMMA BlocksOfChunk ==
    ASSUME WholeBlocks
    PROVE  max_blks \in Nat \ {0} /\ ChunkSize = BlkSize * max_blks
<1> DEFINE q == ChunkSize \div BlkSize
<1>0. BlkSize \in Nat \ {0} /\ ChunkSize \in Nat \ {0}
  BY UmmAssumption DEF UmmAssumption
<1>1. q \in Nat /\ ChunkSize = BlkSize * q + (ChunkSize % BlkSize)
  BY <1>0, DivMod
<1> HIDE DEF q
<1>2. ChunkSize = BlkSize * q
  BY <1>0, <1>1 DEF WholeBlocks
<1>3. q * BlkSize = BlkSize * q
  BY <1>0, <1>1
<1>4. max_blks = q
  BY <1>1, <1>2, <1>3, BlockOfBorder DEF max_blks
<1>5. q # 0
  BY <1>0, <1>2
<1> QED
  BY <1>1, <1>2, <1>4, <1>5

-----------------------------------------------------------------------------
(* The memory the application holds.                                       *)

GrantSet == [c : Chunks, ofs : Nat, size : MemSizes]

\* A piece of memory begins at a block's border and ends inside the chunk.
InBlocks(g) ==
    \E q \in Nat : /\ g.ofs = q * BlkSize
                   /\ q + SIZE_TO_BLOCKS(g.size, BlkSize) <= max_blks

Apart(g, h) == g # h /\ g.c = h.c => BlocksOf(g) \cap BlocksOf(h) = {}

LEMMA GrantSize ==
    ASSUME NEW g \in GrantSet
    PROVE  g.c \in Chunks /\ g.ofs \in Nat /\ g.size \in Nat \ {0} /\ g.size \in MemSizes
BY UmmAssumption DEF UmmAssumption, GrantSet

\* Such a piece in blocks and in bytes.
LEMMA GrantInBlocks ==
    ASSUME WholeBlocks, NEW g \in GrantSet, InBlocks(g)
    PROVE  \E q, n \in Nat :
                /\ n # 0 /\ q + n <= max_blks
                /\ n = SIZE_TO_BLOCKS(g.size, BlkSize)
                /\ SIZE_TO_BLOCKS(g.ofs, BlkSize) = q
                /\ BlocksOf(g) = q .. q + n - 1
                /\ g.ofs = BlkSize * q
                /\ g.ofs + g.size <= BlkSize * (q + n)
<1> DEFINE n == SIZE_TO_BLOCKS(g.size, BlkSize)
<1>1. PICK q \in Nat : g.ofs = q * BlkSize /\ q + n <= max_blks
  BY DEF InBlocks
<1>2. n \in Nat \ {0} /\ g.size <= BlkSize * n
  BY GrantSize, BlocksHold
<1>3. SIZE_TO_BLOCKS(g.ofs, BlkSize) = q
  BY <1>1, BlockOfBorder
<1>4. BlocksOf(g) = q .. q + n - 1
  BY <1>3 DEF BlocksOf, Run
<1>5. BlkSize \in Nat
  BY UmmAssumption DEF UmmAssumption
<1> HIDE DEF n
<1>6. g.ofs = BlkSize * q /\ BlkSize * (q + n) = BlkSize * q + BlkSize * n
  BY <1>1, <1>2, <1>5
<1>7. g.ofs + g.size <= BlkSize * (q + n)
  <2> DEFINE x == BlkSize * q
             y == BlkSize * n
  <2>1. x \in Nat /\ y \in Nat /\ g.size \in Nat
    BY <1>2, <1>5, GrantSize
  <2>2. g.ofs = x /\ BlkSize * (q + n) = x + y /\ g.size <= y
    BY <1>2, <1>6
  <2> HIDE DEF x, y
  <2> QED
    BY <2>1, <2>2
<1> QED
  BY <1>1, <1>2, <1>3, <1>4, <1>6, <1>7 DEF n

\* Pieces with different blocks have different bytes, all of them in the chunk.
LEMMA GrantsInBytes ==
    ASSUME WholeBlocks, grants \subseteq GrantSet,
           \A g \in grants : InBlocks(g), \A g, h \in grants : Apart(g, h)
    PROVE  GrantsDisjoint /\ GrantInsideChunk
<1>0. BlkSize \in Nat /\ max_blks \in Nat /\ ChunkSize = BlkSize * max_blks
  BY BlocksOfChunk, UmmAssumption DEF UmmAssumption
<1>1. ASSUME NEW g \in grants PROVE is_vaddr_within_range(g.ofs, g.size)
  <2>1. PICK q, n \in Nat : /\ q + n <= max_blks
                            /\ g.ofs + g.size <= BlkSize * (q + n)
    BY GrantInBlocks
  <2>2. BlkSize * (q + n) <= BlkSize * max_blks
    BY <1>0, <2>1, TimesGrows
  <2> DEFINE x == BlkSize * (q + n)
             y == BlkSize * max_blks
  <2>3. x \in Nat /\ y \in Nat /\ g.ofs + g.size \in Nat
    BY <1>0, GrantSize
  <2> HIDE DEF x, y
  <2>4. g.ofs + g.size <= x /\ x <= y /\ ChunkSize = y
    BY <1>0, <2>1, <2>2 DEF x, y
  <2> QED
    BY <2>3, <2>4 DEF is_vaddr_within_range
<1>2. ASSUME NEW g \in grants, NEW h \in grants, g # h, g.c = h.c
      PROVE  (g.ofs .. g.ofs + g.size - 1) \cap (h.ofs .. h.ofs + h.size - 1) = {}
  <2>1. PICK q, n \in Nat : /\ n # 0 /\ BlocksOf(g) = q .. q + n - 1
                            /\ g.ofs = BlkSize * q /\ g.ofs + g.size <= BlkSize * (q + n)
    BY GrantInBlocks
  <2>2. PICK r, m \in Nat : /\ m # 0 /\ BlocksOf(h) = r .. r + m - 1
                            /\ h.ofs = BlkSize * r /\ h.ofs + h.size <= BlkSize * (r + m)
    BY GrantInBlocks
  <2>3. q \notin r .. r + m - 1 /\ r \notin q .. q + n - 1
    <3>1. BlocksOf(g) \cap BlocksOf(h) = {}
      BY <1>2 DEF Apart
    <3>2. q \in q .. q + n - 1 /\ r \in r .. r + m - 1
      BY <2>1, <2>2
    <3> QED
      BY <2>1, <2>2, <3>1, <3>2
  <2>4. q + n <= r \/ r + m <= q
    BY <2>1, <2>2, <2>3
  <2>5. g.ofs \in Nat /\ g.size \in Nat /\ h.ofs \in Nat /\ h.size \in Nat
    BY GrantSize
  <2>6. CASE q + n <= r
    <3>1. BlkSize * (q + n) <= BlkSize * r
      BY <1>0, <2>6, TimesGrows
    <3> DEFINE x == BlkSize * (q + n)
    <3>2. x \in Nat
      BY <1>0
    <3> HIDE DEF x
    <3>3. g.ofs + g.size <= x /\ x <= h.ofs
      BY <2>1, <2>2, <3>1 DEF x
    <3> QED
      BY <2>5, <3>2, <3>3
  <2>7. CASE r + m <= q
    <3>1. BlkSize * (r + m) <= BlkSize * q
      BY <1>0, <2>7, TimesGrows
    <3> DEFINE x == BlkSize * (r + m)
    <3>2. x \in Nat
      BY <1>0
    <3> HIDE DEF x
    <3>3. h.ofs + h.size <= x /\ x <= g.ofs
      BY <2>1, <2>2, <3>1 DEF x
    <3> QED
      BY <2>5, <3>2, <3>3
  <2> QED
    BY <2>4, <2>6, <2>7
<1> QED
  BY <1>1, <1>2 DEF GrantsDisjoint, GrantInsideChunk

-----------------------------------------------------------------------------
(* Its inductive invariant.                                                *)

LiveChunks == {c \in Chunks : chunk[c].state = "live"}
NewChunks == {c \in Chunks : chunk[c].state = "none"}
HeldOn(c) == {g \in grants : g.c = c}

Marks == SUBSET (0 .. max_blks - 1)
ChunkRecords == [state : {"none", "live", "freed"}, bmap : Marks, free_blks : 0 .. max_blks]

UTypes ==
    /\ chunk \in [Chunks -> ChunkRecords]
    /\ issued \in 0 .. Cardinality(Chunks)
    /\ kernel \subseteq Chunks
    /\ grants \subseteq GrantSet
    /\ call \in [Threads -> Calls]
    /\ uaf \in BOOLEAN /\ overlap \in BOOLEAN

\* The list is the chain of the live chunks.
UList ==
    /\ ListTyped
    /\ \E s : Chain(s, head, tail, next, LiveChunks)
    /\ \A c \in NewChunks : next[c] = Null

\* A chunk the kernel has handed out belongs to one call until it is recorded.
UNew ==
    /\ \A c \in Chunks : c > issued => c \in NewChunks
    /\ \A t \in Threads : call[t].pc = "update_table" =>
            call[t].c \in NewChunks /\ call[t].c <= issued /\ call[t].c \in kernel
    /\ \A t, u \in Threads :
            t # u /\ call[t].pc = "update_table" /\ call[u].pc = "update_table" =>
                call[t].c # call[u].c
    /\ \A t \in Threads : call[t].pc \notin {"idle", "update_table"} =>
            call[t].c \notin NewChunks
    /\ \A t \in Threads : call[t].pc = "unlink" => call[t].iter \notin NewChunks
    /\ \A g \in grants : g.c \notin NewChunks

\* The memory held, the bit map and the count of free blocks go together.
UBlocks ==
    /\ \A g \in grants : InBlocks(g)
    /\ \A g, h \in grants : Apart(g, h)
    /\ \A c \in LiveChunks :
            /\ chunk[c].bmap = UNION {BlocksOf(g) : g \in HeldOn(c)}
            /\ chunk[c].free_blks = max_blks - Cardinality(chunk[c].bmap)

\* No piece is given back twice.
UCalls ==
    /\ \A t \in Threads : call[t].pc = "clear" =>
            call[t].g \in grants /\ call[t].c = call[t].g.c
    /\ \A t, u \in Threads :
            t # u /\ call[t].pc = "clear" /\ call[u].pc = "clear" => call[t].g # call[u].g

\* The thread goes to hand its chunk back, or has done so.
Leaving(t) == call[t].pc \in {"ioctl_free", "delete", "unlink"}

\* What holds as long as free_chunk ran beside no call it does not exclude.
UFree ==
    /\ ~uaf
    /\ \A t \in Threads : call[t].pc \notin {"idle", "update_table"} =>
            call[t].c \in LiveChunks
    /\ \A t \in Threads : call[t].pc = "unlink" => call[t].iter \in LiveChunks
    /\ \A t, u \in Threads : t # u /\ Freeing(t) /\ call[u].pc # "idle" =>
            ~Freeing(u) /\ call[u].c # call[t].c
    /\ \A t \in Threads : Leaving(t) => HeldOn(call[t].c) = {}
    /\ \A g \in grants : g.c \in LiveChunks
    /\ \A c \in LiveChunks : c \in kernel \/
            \E t \in Threads : call[t].pc \in {"delete", "unlink"} /\ call[t].c = c

UInv == UTypes /\ UList /\ UNew /\ UBlocks /\ UCalls /\ (overlap \/ UFree)

-----------------------------------------------------------------------------
(* What a call holds.                                                      *)

LEMMA CallIs ==
    ASSUME UTypes, NEW t \in Threads
    PROVE  LET k == call[t]
           IN  /\ k \in Calls
               /\ k.pc \in {"idle", "update_table", "in_use", "ioctl_free", "delete",
                            "reserve", "clear", "unlink"}
               /\ k.pc \in {"update_table", "in_use", "ioctl_free", "delete"} =>
                    k = [pc |-> k.pc, c |-> k.c]
               /\ k.pc # "idle" => k.c \in Chunks
               /\ k.pc = "reserve" => k.size \in MemSizes
               /\ k.pc = "clear" => k.g \in grants
               /\ k.pc = "unlink" => k.iter \in Chunks
<1> DEFINE k == call[t]
<1>1. k \in Calls
  BY DEF UTypes
<1> HIDE DEF k
<1>2. CASE k \in [pc : {"idle"}]
  BY <1>1, <1>2 DEF k
<1>3. CASE k \in [pc : {"update_table", "in_use", "ioctl_free", "delete"}, c : Chunks]
  BY <1>1, <1>3 DEF k
<1>4. CASE k \in [pc : {"reserve"}, c : Chunks, size : MemSizes]
  BY <1>1, <1>4 DEF k
<1>5. CASE k \in [pc : {"clear"}, c : Chunks, g : grants]
  BY <1>1, <1>5 DEF k
<1>6. CASE k \in [pc : {"unlink"}, c : Chunks, iter : Chunks]
  BY <1>1, <1>6 DEF k
<1> QED
  BY <1>1, <1>2, <1>3, <1>4, <1>5, <1>6 DEF Calls

\* The list and the memory do not change with the calls.
LEMMA ListKept ==
    ASSUME UList, UNCHANGED chunkList, LiveChunks' = LiveChunks, NewChunks' \subseteq NewChunks
    PROVE  UList'
<1>1. head' = head /\ tail' = tail /\ next' = next
  BY DEF chunkList
<1>2. ListTyped'
  BY <1>1 DEF UList, ListTyped
<1>3. PICK s : Chain(s, head, tail, next, LiveChunks)
  BY DEF UList
<1>4. Chain(s, head', tail', next', LiveChunks')
  BY <1>1, <1>3
<1>5. \E z : Chain(z, head', tail', next', LiveChunks')
  BY <1>4
<1>6. (\A c \in NewChunks : next[c] = Null)'
  BY <1>1 DEF UList
<1> QED
  BY <1>2, <1>5, <1>6 DEF UList

\* The chunks the list has are the live ones.
LEMMA ListedLive ==
    ASSUME UList
    PROVE  Listed = LiveChunks
<1>1. PICK s : Chain(s, head, tail, next, LiveChunks)
  BY DEF UList
<1> QED
  BY <1>1, WalkOfChain

LEMMA LiveNotNew ==
    LiveChunks \cap NewChunks = {} /\ LiveChunks \subseteq Chunks /\ NewChunks \subseteq Chunks
BY DEF LiveChunks, NewChunks

-----------------------------------------------------------------------------
(* The steps.                                                              *)

FreeingCall(k) == k.pc \in {"in_use", "ioctl_free", "delete", "unlink"}

\* A record k that a call of thread t may become.
CallSound(t, k) ==
    /\ k \in Calls
    /\ k.pc # "update_table"
    /\ k.pc # "idle" => k.c \notin NewChunks
    /\ k.pc = "unlink" => k.iter \notin NewChunks
    /\ k.pc = "clear" =>
          /\ k.g \in grants /\ k.c = k.g.c
          /\ \A u \in Threads : u # t /\ call[u].pc = "clear" => call[u].g # k.g

\* And one that excludes the other calls as it should.
CallExcludes(t, k) ==
    /\ k.pc # "idle" => k.c \in LiveChunks
    /\ k.pc = "unlink" => k.iter \in LiveChunks
    /\ \A u \in Threads : u # t /\ call[u].pc # "idle" /\ k.pc # "idle" =>
          /\ Freeing(u) => ~FreeingCall(k) /\ call[u].c # k.c
          /\ FreeingCall(k) => ~Freeing(u) /\ call[u].c # k.c
    /\ k.pc \in {"ioctl_free", "delete", "unlink"} => HeldOn(k.c) = {}
    /\ \A c \in LiveChunks :
          \/ c \in kernel
          \/ \E u \in Threads \ {t} : call[u].pc \in {"delete", "unlink"} /\ call[u].c = c
          \/ k.pc \in {"delete", "unlink"} /\ k.c = c

\* A step that changes what one thread is doing, and the kernel's record.
LEMMA CallStep ==
    ASSUME UInv, NEW t \in Threads, NEW k, CallSound(t, k),
           call' = [call EXCEPT ![t] = k],
           UNCHANGED <<chunkList, chunk, issued, grants>>,
           uaf' \in BOOLEAN, overlap' \in BOOLEAN,
           kernel' \subseteq kernel,
           \A c \in NewChunks : c \in kernel => c \in kernel',
           ~overlap' => ~overlap /\ ~uaf' /\ CallExcludes(t, k)
                        /\ \A c \in LiveChunks : c \in kernel =>
                                c \in kernel' \/ (k.pc = "delete" /\ k.c = c)
    PROVE  UInv'
<1>1. /\ chunk' = chunk /\ issued' = issued /\ grants' = grants /\ UNCHANGED chunkList
      /\ UTypes /\ UList /\ UNew /\ UBlocks /\ UCalls /\ (overlap \/ UFree)
  BY DEF UInv
<1>2. ASSUME NEW u \in Threads PROVE call'[u] = IF u = t THEN k ELSE call[u]
  BY <1>1 DEF UTypes
<1>3. /\ LiveChunks' = LiveChunks /\ NewChunks' = NewChunks
      /\ \A c : HeldOn(c)' = HeldOn(c)
  BY <1>1 DEF LiveChunks, NewChunks, HeldOn
<1>4. UTypes'
  <2>1. Calls' = Calls
    BY <1>1 DEF Calls
  <2>2. call' \in [Threads -> Calls]
    BY <1>1 DEF UTypes, CallSound
  <2>3. kernel' \subseteq Chunks
    BY <1>1 DEF UTypes
  <2> QED
    BY <1>1, <2>1, <2>2, <2>3 DEF UTypes
<1>5. UList'
  BY <1>1, <1>3, ListKept
<1>6. UNew'
  <2>1. \A c \in Chunks : c > issued' => c \in NewChunks'
    BY <1>1, <1>3 DEF UNew
  <2>2. ASSUME NEW u \in Threads, call'[u].pc = "update_table"
        PROVE  /\ u # t /\ call'[u].c \in NewChunks' /\ call'[u].c <= issued'
               /\ call'[u].c \in kernel'
    <3>1. u # t /\ call'[u] = call[u]
      BY <1>2, <2>2 DEF CallSound
    <3> QED
      BY <3>1, <2>2, <1>1, <1>3 DEF UNew
  <2>3. ASSUME NEW u \in Threads, NEW w \in Threads, u # w,
               call'[u].pc = "update_table", call'[w].pc = "update_table"
        PROVE  call'[u].c # call'[w].c
    <3>1. u # t /\ w # t /\ call'[u] = call[u] /\ call'[w] = call[w]
      BY <1>2, <2>2, <2>3
    <3> QED
      BY <3>1, <2>3, <1>1 DEF UNew
  <2>4. ASSUME NEW u \in Threads
        PROVE  /\ call'[u].pc \notin {"idle", "update_table"} => call'[u].c \notin NewChunks'
               /\ call'[u].pc = "unlink" => call'[u].iter \notin NewChunks'
    <3>1. CASE u = t
      BY <3>1, <1>2, <1>3 DEF CallSound
    <3>2. CASE u # t
      BY <3>2, <1>1, <1>2, <1>3 DEF UNew
    <3> QED
      BY <3>1, <3>2
  <2>5. \A g \in grants' : g.c \notin NewChunks'
    BY <1>1, <1>3 DEF UNew
  <2> QED
    BY <2>1, <2>2, <2>3, <2>4, <2>5 DEF UNew
<1>7. UBlocks'
  <2>1. \A g \in grants' : InBlocks(g)'
    BY <1>1 DEF UBlocks, InBlocks
  <2>2. \A g, h \in grants' : Apart(g, h)'
    BY <1>1 DEF UBlocks, Apart
  <2>3. ASSUME NEW c \in LiveChunks'
        PROVE  /\ chunk'[c].bmap = (UNION {BlocksOf(g) : g \in HeldOn(c)})'
               /\ chunk'[c].free_blks = (max_blks - Cardinality(chunk[c].bmap))'
    BY <1>1, <1>3 DEF UBlocks
  <2> QED
    BY <2>1, <2>2, <2>3 DEF UBlocks
<1>8. UCalls'
  <2>1. ASSUME NEW u \in Threads, call'[u].pc = "clear"
        PROVE  call'[u].g \in grants' /\ call'[u].c = call'[u].g.c
    <3>1. CASE u = t
      BY <3>1, <2>1, <1>1, <1>2 DEF CallSound
    <3>2. CASE u # t
      BY <3>2, <2>1, <1>1, <1>2 DEF UCalls
    <3> QED
      BY <3>1, <3>2
  <2>2. ASSUME NEW u \in Threads, NEW w \in Threads, u # w,
               call'[u].pc = "clear", call'[w].pc = "clear"
        PROVE  call'[u].g # call'[w].g
    <3>1. CASE u = t
      BY <3>1, <2>2, <1>2 DEF CallSound
    <3>2. CASE w = t
      BY <3>2, <2>2, <1>2 DEF CallSound
    <3>3. CASE u # t /\ w # t
      BY <3>3, <2>2, <1>1, <1>2 DEF UCalls
    <3> QED
      BY <3>1, <3>2, <3>3
  <2> QED
    BY <2>1, <2>2 DEF UCalls
<1>9. ASSUME ~overlap' PROVE UFree'
  <2>0. /\ UFree /\ ~uaf' /\ CallExcludes(t, k)
        /\ \A c \in LiveChunks : c \in kernel => c \in kernel' \/ (k.pc = "delete" /\ k.c = c)
    BY <1>1, <1>9
  <2>1. ASSUME NEW u \in Threads
        PROVE  /\ call'[u].pc \notin {"idle", "update_table"} => call'[u].c \in LiveChunks'
               /\ call'[u].pc = "unlink" => call'[u].iter \in LiveChunks'
               /\ Leaving(u)' => HeldOn(call[u].c)' = {}
    <3>1. CASE u = t
      BY <3>1, <2>0, <1>2, <1>3 DEF CallExcludes, Leaving
    <3>2. CASE u # t
      BY <3>2, <2>0, <1>2, <1>3 DEF UFree, Leaving
    <3> QED
      BY <3>1, <3>2
  <2>2. ASSUME NEW u \in Threads, NEW w \in Threads, u # w, Freeing(u)', call'[w].pc # "idle"
        PROVE  ~Freeing(w)' /\ call'[w].c # call'[u].c
    <3>1. CASE u = t
      BY <3>1, <2>0, <2>2, <1>2 DEF CallExcludes, Freeing, FreeingCall
    <3>2. CASE w = t
      <4>1. /\ u # t /\ call'[u] = call[u] /\ call'[w] = k
        BY <3>2, <2>2, <1>2
      <4>2. Freeing(u) /\ call[u].pc # "idle" /\ k.pc # "idle"
        BY <4>1, <2>2 DEF Freeing
      <4>3. ~FreeingCall(k) /\ call[u].c # k.c
        BY <4>1, <4>2, <2>0 DEF CallExcludes
      <4> QED
        BY <4>1, <4>3 DEF Freeing, FreeingCall
    <3>3. CASE u # t /\ w # t
      BY <3>3, <2>0, <2>2, <1>2 DEF UFree, Freeing
    <3> QED
      BY <3>1, <3>2, <3>3
  <2>3. \A g \in grants' : g.c \in LiveChunks'
    BY <2>0, <1>1, <1>3 DEF UFree
  <2>4. ASSUME NEW c \in LiveChunks'
        PROVE  c \in kernel' \/ \E u \in Threads : call'[u].pc \in {"delete", "unlink"} /\ call'[u].c = c
    <3>1. c \in LiveChunks
      BY <1>3
    <3>2. CASE c \in kernel
      <4>1. c \in kernel' \/ (k.pc = "delete" /\ k.c = c)
        BY <3>1, <3>2, <2>0
      <4> QED
        BY <4>1, <1>2
    <3>3. CASE \E u \in Threads \ {t} : call[u].pc \in {"delete", "unlink"} /\ call[u].c = c
      BY <3>3, <1>2
    <3>4. CASE k.pc \in {"delete", "unlink"} /\ k.c = c
      BY <3>4, <1>2
    <3> QED
      BY <3>1, <3>2, <3>3, <3>4, <2>0 DEF CallExcludes
  <2> QED
    BY <2>0, <2>1, <2>2, <2>3, <2>4 DEF UFree
<1> QED
  BY <1>4, <1>5, <1>6, <1>7, <1>8, <1>9 DEF UInv

LEMMA IdleSound == ASSUME NEW t PROVE CallSound(t, Idle)
BY DEF CallSound, Calls, Idle

\* A thread that returns takes nothing from the others, unless its chunk is gone
\* from the kernel.
LEMMA IdleExcludes ==
    ASSUME UFree, NEW t \in Threads, call[t].pc \notin {"delete", "unlink"}
    PROVE  CallExcludes(t, Idle)
BY DEF CallExcludes, Idle, UFree, FreeingCall

\* Memory was used after its free(): only where the calls overlapped.
LEMMA UseAfterFreeStep ==
    ASSUME UInv, NEW t \in Threads, overlap, UseAfterFree(t)
    PROVE  UInv'
<1>1. /\ call' = [call EXCEPT ![t] = Idle] /\ uaf' = TRUE /\ overlap' = overlap
      /\ kernel' = kernel /\ UNCHANGED <<chunkList, chunk, issued, grants>>
  BY DEF UseAfterFree, Return
<1>2. kernel' \subseteq kernel /\ uaf' \in BOOLEAN /\ overlap' \in BOOLEAN /\ overlap'
  BY <1>1
<1> QED
  BY <1>1, <1>2, IdleSound, CallStep

\* A new call on a chunk of the list.
LEMMA CallBegins ==
    ASSUME UInv, NEW t \in Threads, At(t, "idle"), NEW c \in Listed, NEW k,
           CallSound(t, k), k.pc \in {"reserve", "clear", "in_use"}, k.c = c,
           call' = [call EXCEPT ![t] = k],
           NoteOverlap(t, c, FreeingCall(k)),
           UNCHANGED <<chunkList, chunk, issued, kernel, grants, uaf>>
    PROVE  UInv'
<1>1. UTypes /\ UList /\ (overlap \/ UFree)
  BY DEF UInv
<1>2. c \in LiveChunks
  BY <1>1, ListedLive
<1>3. overlap' = (overlap \/ \E u \in Threads \ {t} :
                    /\ call[u].pc # "idle" /\ (Freeing(u) \/ FreeingCall(k))
                    /\ call[u].c = c \/ (Freeing(u) /\ FreeingCall(k)))
  BY DEF NoteOverlap
<1>4. overlap' \in BOOLEAN /\ uaf' \in BOOLEAN /\ kernel' \subseteq kernel
  BY <1>1, <1>3 DEF UTypes
<1>5. ASSUME ~overlap' PROVE ~overlap /\ ~uaf' /\ CallExcludes(t, k)
  <2>1. ~overlap /\ UFree
    BY <1>1, <1>3, <1>5
  <2>2. ASSUME NEW u \in Threads, u # t, call[u].pc # "idle"
        PROVE  /\ Freeing(u) => ~FreeingCall(k) /\ call[u].c # c
               /\ FreeingCall(k) => ~Freeing(u) /\ call[u].c # c
    BY <2>2, <1>3, <1>5
  <2>3. ASSUME NEW d \in LiveChunks
        PROVE  d \in kernel \/ \E u \in Threads \ {t} :
                                    call[u].pc \in {"delete", "unlink"} /\ call[u].c = d
    BY <2>1 DEF UFree, At
  <2> QED
    BY <2>1, <2>2, <2>3, <1>2 DEF CallExcludes, UFree
<1> QED
  BY <1>4, <1>5, CallStep

LEMMA AllocMemStep ==
    ASSUME UInv, NEW t \in Threads, NEW c \in Chunks, NEW size \in MemSizes, AllocMem(t, c, size)
    PROVE  UInv'
<1> DEFINE k == [pc |-> "reserve", c |-> c, size |-> size]
<1>1. /\ At(t, "idle") /\ c \in Listed /\ call' = [call EXCEPT ![t] = k]
      /\ NoteOverlap(t, c, FALSE)
      /\ UNCHANGED <<chunkList, chunk, issued, kernel, grants, uaf>>
  BY DEF AllocMem
<1>2. c \in LiveChunks /\ c \notin NewChunks
  BY <1>1, ListedLive, LiveNotNew DEF UInv
<1>3. CallSound(t, k) /\ FreeingCall(k) = FALSE
  BY <1>2 DEF CallSound, Calls, FreeingCall
<1>4. NoteOverlap(t, c, FreeingCall(k))
  BY <1>1, <1>3
<1>5. k.pc \in {"reserve", "clear", "in_use"} /\ k.c = c
  OBVIOUS
<1> HIDE DEF k
<1> QED
  BY <1>1, <1>3, <1>4, <1>5, CallBegins

LEMMA FreeMemStep ==
    ASSUME UInv, NEW t \in Threads, NEW g \in grants, FreeMem(t, g)
    PROVE  UInv'
<1> DEFINE k == [pc |-> "clear", c |-> g.c, g |-> g]
<1>1. /\ At(t, "idle") /\ g.c \in Listed /\ call' = [call EXCEPT ![t] = k]
      /\ \A u \in Threads : call[u].pc = "clear" => call[u].g # g
      /\ NoteOverlap(t, g.c, FALSE)
      /\ UNCHANGED <<chunkList, chunk, issued, kernel, grants, uaf>>
  BY DEF FreeMem
<1>2. g.c \in LiveChunks /\ g.c \notin NewChunks /\ g.c \in Chunks
  BY <1>1, ListedLive, LiveNotNew DEF UInv
<1>3. CallSound(t, k) /\ FreeingCall(k) = FALSE
  BY <1>1, <1>2 DEF CallSound, Calls, FreeingCall
<1>4. NoteOverlap(t, g.c, FreeingCall(k))
  BY <1>1, <1>3
<1>5. k.pc \in {"reserve", "clear", "in_use"} /\ k.c = g.c
  OBVIOUS
<1> HIDE DEF k
<1> QED
  BY <1>1, <1>3, <1>4, <1>5, CallBegins

LEMMA FreeChunkStep ==
    ASSUME UInv, NEW t \in Threads, NEW c \in Chunks, FreeChunk(t, c)
    PROVE  UInv'
<1> DEFINE k == [pc |-> "in_use", c |-> c]
<1>1. /\ At(t, "idle") /\ c \in Listed /\ call' = [call EXCEPT ![t] = k]
      /\ NoteOverlap(t, c, TRUE)
      /\ UNCHANGED <<chunkList, chunk, issued, kernel, grants, uaf>>
  BY DEF FreeChunk
<1>2. c \in LiveChunks /\ c \notin NewChunks
  BY <1>1, ListedLive, LiveNotNew DEF UInv
<1>3. CallSound(t, k) /\ FreeingCall(k) = TRUE
  BY <1>2 DEF CallSound, Calls, FreeingCall
<1>4. NoteOverlap(t, c, FreeingCall(k))
  BY <1>1, <1>3
<1>5. k.pc \in {"reserve", "clear", "in_use"} /\ k.c = c
  OBVIOUS
<1> HIDE DEF k
<1> QED
  BY <1>1, <1>3, <1>4, <1>5, CallBegins

LEMMA GotoIs ==
    ASSUME UTypes, NEW t \in Threads, call[t].pc \in {"in_use", "ioctl_free"},
           NEW where, Goto(t, where)
    PROVE  call' = [call EXCEPT ![t] = [pc |-> where, c |-> call[t].c]]
<1>1. call[t] = [pc |-> call[t].pc, c |-> call[t].c]
  BY CallIs
<1>2. [call[t] EXCEPT !.pc = where] = [pc |-> where, c |-> call[t].c]
  BY <1>1
<1>3. call' = [call EXCEPT ![t] = [call[t] EXCEPT !.pc = where]]
  BY DEF Goto
<1> QED
  BY <1>2, <1>3

\* A call in a process of which nothing can be said overlaps another.
LEMMA FreedMeansOverlap ==
    ASSUME UInv, NEW t \in Threads, call[t].pc \notin {"idle", "update_table"},
           \/ chunk[call[t].c].state = "freed"
           \/ call[t].pc = "unlink" /\ chunk[call[t].iter].state = "freed"
    PROVE  overlap
<1> SUFFICES ASSUME UFree PROVE FALSE
  BY DEF UInv
<1>1. call[t].c \in LiveChunks /\ (call[t].pc = "unlink" => call[t].iter \in LiveChunks)
  BY DEF UFree
<1> QED
  BY <1>1 DEF LiveChunks

\* Of a chunk all of whose blocks are free nothing is held.
LEMMA AllFree ==
    ASSUME WholeBlocks, UTypes, UBlocks, NEW c \in LiveChunks, ~is_chunk_in_use(c)
    PROVE  HeldOn(c) = {}
<1> DEFINE b == chunk[c].bmap
<1>0. max_blks \in Nat /\ c \in Chunks
  BY BlocksOfChunk, LiveNotNew
<1>1. b \in SUBSET (0 .. max_blks - 1)
  BY <1>0 DEF UTypes, ChunkRecords, Marks
<1>2. IsFiniteSet(0 .. max_blks - 1)
  BY <1>0, FS_Interval
<1>3. IsFiniteSet(b)
  BY <1>1, <1>2, FS_Subset
<1>4. Cardinality(b) \in Nat
  BY <1>3, FS_CardinalityType
<1>5. max_blks - Cardinality(b) = max_blks
  BY DEF UBlocks, is_chunk_in_use
<1>6. b = {}
  <2>1. Cardinality(b) = 0
    <3> HIDE DEF b
    <3> QED
      BY <1>0, <1>4, <1>5
  <2> QED
    BY <2>1, <1>3, FS_EmptySet
<1>7. b = UNION {BlocksOf(g) : g \in HeldOn(c)}
  BY DEF UBlocks
<1> SUFFICES ASSUME NEW g \in HeldOn(c) PROVE FALSE
  OBVIOUS
<1>8. g \in grants /\ g \in GrantSet /\ InBlocks(g)
  BY DEF HeldOn, UTypes, UBlocks
<1>9. PICK q, n \in Nat : n # 0 /\ BlocksOf(g) = q .. q + n - 1
  BY <1>8, GrantInBlocks
<1>10. q \in BlocksOf(g)
  BY <1>9
<1> HIDE DEF b
<1> QED
  BY <1>6, <1>7, <1>10

LEMMA CheckInUseStep ==
    ASSUME WholeBlocks, UInv, NEW t \in Threads, CheckInUse(t)
    PROVE  UInv'
<1> DEFINE c == call[t].c
           k == [pc |-> "ioctl_free", c |-> c]
<1>0. UTypes /\ UNew /\ UBlocks /\ (overlap \/ UFree) /\ call[t].pc = "in_use"
  BY DEF UInv, CheckInUse, At
<1>1. CASE chunk[c].state = "freed"
  <2>1. UseAfterFree(t)
    BY <1>1 DEF CheckInUse
  <2>2. overlap
    BY <1>0, <1>1, FreedMeansOverlap
  <2> QED
    BY <2>1, <2>2, UseAfterFreeStep
<1>2. CASE chunk[c].state # "freed"
  <2>0. /\ UNCHANGED <<chunkList, chunk, issued, grants>> /\ kernel' = kernel
        /\ uaf' = uaf /\ overlap' = overlap
        /\ IF is_chunk_in_use(c) THEN Return(t) ELSE Goto(t, "ioctl_free")
    BY <1>2 DEF CheckInUse
  <2>1. uaf' \in BOOLEAN /\ overlap' \in BOOLEAN /\ kernel' \subseteq kernel
    BY <2>0, <1>0 DEF UTypes
  <2>2. CASE is_chunk_in_use(c)
    <3>1. call' = [call EXCEPT ![t] = Idle]
      BY <2>0, <2>2 DEF Return
    <3>2. ~overlap' => ~overlap /\ ~uaf' /\ CallExcludes(t, Idle)
      BY <2>0, <1>0, IdleExcludes DEF UFree
    <3> QED
      BY <3>1, <3>2, <2>0, <2>1, IdleSound, CallStep
  <2>3. CASE ~is_chunk_in_use(c)
    <3>1. call' = [call EXCEPT ![t] = k]
      BY <2>0, <2>3, <1>0, GotoIs
    <3>2. CallSound(t, k)
      <4>1. c \in Chunks /\ c \notin NewChunks
        BY <1>0, CallIs DEF UNew
      <4> HIDE DEF c
      <4> QED
        BY <4>1 DEF CallSound, Calls
    <3>3. ASSUME ~overlap' PROVE ~overlap /\ ~uaf' /\ CallExcludes(t, k)
      <4>1. ~overlap /\ ~uaf' /\ UFree
        BY <3>3, <2>0, <1>0 DEF UFree
      <4>2. c \in LiveChunks
        BY <4>1, <1>0 DEF UFree
      <4>3. HeldOn(c) = {}
        BY <4>2, <2>3, <1>0, AllFree
      <4>4. Freeing(t)
        BY <1>0 DEF Freeing
      <4>5. ASSUME NEW u \in Threads, u # t, call[u].pc # "idle"
            PROVE  ~Freeing(u) /\ call[u].c # c
        BY <4>1, <4>4, <4>5 DEF UFree
      <4>6. ASSUME NEW d \in LiveChunks
            PROVE  d \in kernel \/ \E u \in Threads \ {t} :
                                        call[u].pc \in {"delete", "unlink"} /\ call[u].c = d
        BY <4>1, <1>0 DEF UFree
      <4> HIDE DEF c
      <4> QED
        BY <4>1, <4>2, <4>3, <4>5, <4>6 DEF CallExcludes
    <3> HIDE DEF k
    <3> QED
      BY <3>1, <3>2, <3>3, <2>0, <2>1, CallStep
  <2> QED
    BY <2>2, <2>3
<1> QED
  BY <1>1, <1>2

LEMMA IoctlFreeStep ==
    ASSUME UInv, NEW t \in Threads, IoctlFree(t)
    PROVE  UInv'
<1> DEFINE c == call[t].c
           k == [pc |-> "delete", c |-> c]
<1>0. UTypes /\ UNew /\ (overlap \/ UFree) /\ call[t].pc = "ioctl_free"
  BY DEF UInv, IoctlFree, At
<1>1. /\ UNCHANGED <<chunkList, chunk, issued, grants>> /\ kernel' = kernel \ {c}
      /\ uaf' = uaf /\ overlap' = overlap /\ Goto(t, "delete")
  BY DEF IoctlFree
<1>2. call' = [call EXCEPT ![t] = k]
  BY <1>0, <1>1, GotoIs
<1>3. c \in Chunks /\ c \notin NewChunks
  BY <1>0, CallIs DEF UNew
<1>4. CallSound(t, k)
  <2> HIDE DEF c
  <2> QED
    BY <1>3 DEF CallSound, Calls
<1>5. uaf' \in BOOLEAN /\ overlap' \in BOOLEAN /\ kernel' \subseteq kernel
  BY <1>0, <1>1 DEF UTypes
<1>6. \A d \in NewChunks : d \in kernel => d \in kernel'
  BY <1>1, <1>3
<1>7. ASSUME ~overlap' PROVE ~overlap /\ ~uaf' /\ CallExcludes(t, k)
  <2>1. ~overlap /\ ~uaf' /\ UFree
    BY <1>7, <1>0, <1>1 DEF UFree
  <2>2. c \in LiveChunks /\ HeldOn(c) = {}
    BY <2>1, <1>0 DEF UFree, Leaving
  <2>3. Freeing(t)
    BY <1>0 DEF Freeing
  <2>4. ASSUME NEW u \in Threads, u # t, call[u].pc # "idle"
        PROVE  ~Freeing(u) /\ call[u].c # c
    BY <2>1, <2>3, <2>4 DEF UFree
  <2>5. ASSUME NEW d \in LiveChunks
        PROVE  d \in kernel \/ \E u \in Threads \ {t} :
                                    call[u].pc \in {"delete", "unlink"} /\ call[u].c = d
    BY <2>1, <1>0 DEF UFree
  <2> HIDE DEF c
  <2> QED
    BY <2>1, <2>2, <2>4, <2>5 DEF CallExcludes
<1>8. \A d \in LiveChunks : d \in kernel => d \in kernel' \/ (k.pc = "delete" /\ k.c = d)
  BY <1>1
<1> HIDE DEF k
<1> QED
  BY <1>1, <1>2, <1>4, <1>5, <1>6, <1>7, <1>8, CallStep

\* The ends of the list.
LEMMA ListEnds ==
    ASSUME UList
    PROVE  /\ head # Null => head \in LiveChunks
           /\ head = Null <=> tail = Null
           /\ head = Null <=> LiveChunks = {}
           /\ head # Null => tail \in LiveChunks /\ next[tail] = Null
<1>1. PICK s : Chain(s, head, tail, next, LiveChunks)
  BY DEF UList
<1> DEFINE n == Len(s)
<1>2. n \in Nat /\ \A i \in 1 .. n : s[i] \in Chunks
  BY <1>1 DEF Chain
<1>3. /\ head = IF n = 0 THEN Null ELSE s[1]
      /\ tail = IF n = 0 THEN Null ELSE s[n]
      /\ \A i \in 1 .. n : next[s[i]] = IF i < n THEN s[i + 1] ELSE Null
      /\ LiveChunks = {s[i] : i \in 1 .. n}
  BY <1>1 DEF Chain
<1>4. Null \notin Chunks
  BY ChunkIdsAre DEF ChunkIds
<1> HIDE DEF n
<1>5. CASE n = 0
  BY <1>2, <1>3, <1>5
<1>6. CASE n # 0
  <2>1. 1 \in 1 .. n /\ n \in 1 .. n
    BY <1>2, <1>6
  <2>2. /\ head = s[1] /\ tail = s[n] /\ s[1] \in LiveChunks /\ s[n] \in LiveChunks
        /\ next[s[n]] = Null
    BY <2>1, <1>3, <1>6
  <2> QED
    BY <2>1, <2>2, <1>2, <1>4
<1> QED
  BY <1>5, <1>6

LEMMA ReadListHeadStep ==
    ASSUME UInv, NEW t \in Threads, ReadListHead(t)
    PROVE  UInv'
<1> DEFINE c == call[t].c
           k == [pc |-> "unlink", c |-> c, iter |-> head]
<1>0. UTypes /\ UNew /\ UList /\ (overlap \/ UFree) /\ call[t].pc = "delete"
  BY DEF UInv, ReadListHead, At
<1>1. CASE chunk[c].state = "freed"
  <2>1. UseAfterFree(t)
    BY <1>1 DEF ReadListHead
  <2>2. overlap
    BY <1>0, <1>1, FreedMeansOverlap
  <2> QED
    BY <2>1, <2>2, UseAfterFreeStep
<1>2. CASE chunk[c].state # "freed"
  <2>0. /\ UNCHANGED <<chunkList, chunk, issued, grants>> /\ kernel' = kernel
        /\ uaf' = uaf /\ overlap' = overlap
        /\ IF head = Null THEN Return(t) ELSE call' = [call EXCEPT ![t] = k]
    BY <1>2 DEF ReadListHead
  <2>1. uaf' \in BOOLEAN /\ overlap' \in BOOLEAN /\ kernel' \subseteq kernel
    BY <2>0, <1>0 DEF UTypes
  <2>2. CASE head = Null
    <3>1. call' = [call EXCEPT ![t] = Idle]
      BY <2>0, <2>2 DEF Return
    <3>2. overlap'
      <4> SUFFICES ASSUME UFree PROVE FALSE
        BY <1>0, <2>0
      <4>1. c \in LiveChunks
        BY <1>0 DEF UFree
      <4> QED
        BY <4>1, <2>2, <1>0, ListEnds
    <3> QED
      BY <3>1, <3>2, <2>0, <2>1, IdleSound, CallStep
  <2>3. CASE head # Null
    <3>1. call' = [call EXCEPT ![t] = k]
      BY <2>0, <2>3
    <3>2. head \in LiveChunks /\ head \in Chunks /\ head \notin NewChunks
      BY <2>3, <1>0, ListEnds, LiveNotNew
    <3>3. CallSound(t, k)
      <4>1. c \in Chunks /\ c \notin NewChunks
        BY <1>0, CallIs DEF UNew
      <4> HIDE DEF c
      <4> QED
        BY <4>1, <3>2 DEF CallSound, Calls
    <3>4. ASSUME ~overlap' PROVE ~overlap /\ ~uaf' /\ CallExcludes(t, k)
      <4>1. ~overlap /\ ~uaf' /\ UFree
        BY <3>4, <2>0, <1>0 DEF UFree
      <4>2. c \in LiveChunks /\ HeldOn(c) = {}
        BY <4>1, <1>0 DEF UFree, Leaving
      <4>3. Freeing(t)
        BY <1>0 DEF Freeing
      <4>4. ASSUME NEW u \in Threads, u # t, call[u].pc # "idle"
            PROVE  ~Freeing(u) /\ call[u].c # c
        BY <4>1, <4>3, <4>4 DEF UFree
      <4>5. ASSUME NEW d \in LiveChunks
            PROVE  \/ d \in kernel
                   \/ \E u \in Threads \ {t} : call[u].pc \in {"delete", "unlink"} /\ call[u].c = d
                   \/ d = c
        BY <4>1 DEF UFree
      <4> HIDE DEF c
      <4> QED
        BY <4>1, <4>2, <4>4, <4>5, <3>2 DEF CallExcludes
    <3> HIDE DEF k
    <3> QED
      BY <3>1, <3>3, <3>4, <2>0, <2>1, CallStep
  <2> QED
    BY <2>2, <2>3
<1> QED
  BY <1>1, <1>2

LEMMA DeleteChunkStep ==
    ASSUME UInv, NEW t \in Threads, DeleteChunk(t)
    PROVE  UInv'
<1> DEFINE c == call[t].c
<1>0. /\ UTypes /\ UNew /\ UList /\ UBlocks /\ UCalls /\ (overlap \/ UFree)
      /\ call[t].pc = "unlink" /\ c \in Chunks /\ c \notin NewChunks
  BY CallIs DEF UInv, DeleteChunk, At, UNew
<1>1. CASE chunk[call[t].iter].state = "freed" \/ chunk[c].state = "freed"
  <2>1. UseAfterFree(t)
    BY <1>1 DEF DeleteChunk
  <2>2. overlap
    BY <1>0, <1>1, FreedMeansOverlap
  <2> QED
    BY <2>1, <2>2, UseAfterFreeStep
<1>2. CASE ~(chunk[call[t].iter].state = "freed" \/ chunk[c].state = "freed")
  <2>0. c \in LiveChunks /\ c \in Listed
    <3>1. chunk[c].state \in {"none", "live", "freed"}
      BY <1>0 DEF UTypes, ChunkRecords
    <3>2. c \in LiveChunks
      BY <3>1, <1>0, <1>2 DEF NewChunks, LiveChunks
    <3> QED
      BY <3>2, <1>0, ListedLive
  <2>1. /\ Unlink(c)
        /\ chunk' = [chunk EXCEPT ![c].state = "freed"]
        /\ call' = [call EXCEPT ![t] = Idle]
        /\ UNCHANGED <<issued, kernel, grants, uaf, overlap>>
    BY <2>0, <1>2 DEF DeleteChunk, Return
  <2> HIDE DEF c
  <2>2. ASSUME NEW d \in Chunks
        PROVE  /\ chunk'[d].state = IF d = c THEN "freed" ELSE chunk[d].state
               /\ d # c => chunk'[d] = chunk[d]
               /\ chunk'[d] \in ChunkRecords
    <3>1. chunk[d] \in ChunkRecords /\ chunk[c] \in ChunkRecords
      BY <1>0 DEF UTypes
    <3>2. [chunk[c] EXCEPT !.state = "freed"] \in ChunkRecords
      BY <3>1 DEF ChunkRecords
    <3>3. chunk'[d] = IF d = c THEN [chunk[c] EXCEPT !.state = "freed"] ELSE chunk[d]
      BY <2>1, <1>0 DEF UTypes
    <3>4. [chunk[c] EXCEPT !.state = "freed"].state = "freed"
      BY <3>1 DEF ChunkRecords
    <3> QED
      BY <3>1, <3>2, <3>3, <3>4
  <2>3. LiveChunks' = LiveChunks \ {c} /\ NewChunks' = NewChunks
    BY <2>2, <1>0 DEF LiveChunks, NewChunks
  <2>4. \A d : HeldOn(d)' = HeldOn(d)
    BY <2>1 DEF HeldOn
  <2>5. ASSUME NEW u \in Threads PROVE call'[u] = IF u = t THEN Idle ELSE call[u]
    BY <2>1, <1>0 DEF UTypes
  <2>6. UTypes'
    <3>1. chunk' \in [Chunks -> ChunkRecords]
      <4>1. chunk' = [d \in Chunks |-> chunk'[d]]
        BY <2>1, <1>0 DEF UTypes
      <4> QED
        BY <4>1, <2>2
    <3>2. Calls' = Calls
      BY <2>1 DEF Calls
    <3>3. call' \in [Threads -> Calls]
      BY <2>1, <1>0, IdleSound DEF UTypes, CallSound
    <3>4. ChunkRecords' = ChunkRecords
      OBVIOUS
    <3> QED
      BY <3>1, <3>2, <3>3, <2>1, <1>0 DEF UTypes
  <2>7. UList'
    <3>1. PICK s : Chain(s, head, tail, next, LiveChunks)
      BY <1>0 DEF UList
    <3>2. ListTyped
      BY <1>0 DEF UList
    <3>3. /\ \E z : Chain(z, head', tail', next', LiveChunks \ {c})
          /\ \A d \in Chunks \ LiveChunks : next'[d] = next[d]
      BY <3>1, <3>2, <2>0, <2>1, ChainRemoves
    <3>4. PICK z : Chain(z, head', tail', next', LiveChunks \ {c})
      BY <3>3
    <3>5. head' \in Chunks \cup {Null} /\ tail' \in Chunks \cup {Null}
      BY <3>4 DEF Chain
    <3>6. next' \in [Chunks -> Chunks \cup {Null}]
      <4>1. next[c] \in Chunks \cup {Null}
        BY <3>2, <1>0 DEF ListTyped
      <4>2. next' = next \/ next' = [next EXCEPT ![Prev(c)] = next[c]]
        BY <2>1 DEF Unlink
      <4> QED
        BY <3>2, <4>1, <4>2 DEF ListTyped
    <3>7. ListTyped'
      BY <3>5, <3>6 DEF ListTyped
    <3>8. \A d \in NewChunks' : next'[d] = Null
      BY <3>3, <2>3, <1>0, LiveNotNew DEF UList
    <3>9. \E z_1 : Chain(z_1, head', tail', next', LiveChunks')
      BY <3>4, <2>3
    <3> QED
      BY <3>7, <3>8, <3>9 DEF UList
  <2>8. UNew'
    <3>1. \A d \in Chunks : d > issued' => d \in NewChunks'
      BY <2>1, <2>3, <1>0 DEF UNew
    <3>2. ASSUME NEW u \in Threads, call'[u].pc # "idle"
          PROVE  u # t /\ call'[u] = call[u]
      BY <2>5, <3>2 DEF Idle
    <3>3. \A g \in grants' : g.c \notin NewChunks'
      BY <2>1, <2>3, <1>0 DEF UNew
    <3> QED
      BY <3>1, <3>2, <3>3, <2>1, <2>3, <1>0 DEF UNew
  <2>9. UBlocks'
    <3>1. \A g \in grants' : InBlocks(g)'
      BY <2>1, <1>0 DEF UBlocks, InBlocks
    <3>2. \A g, h \in grants' : Apart(g, h)'
      BY <2>1, <1>0 DEF UBlocks, Apart
    <3>3. ASSUME NEW d \in LiveChunks'
          PROVE  /\ chunk'[d].bmap = (UNION {BlocksOf(g) : g \in HeldOn(d)})'
                 /\ chunk'[d].free_blks = (max_blks - Cardinality(chunk[d].bmap))'
      <4>1. d \in LiveChunks /\ chunk'[d] = chunk[d]
        BY <2>2, <2>3 DEF LiveChunks
      <4> QED
        BY <4>1, <2>4, <1>0 DEF UBlocks
    <3> QED
      BY <3>1, <3>2, <3>3 DEF UBlocks
  <2>10. UCalls'
    <3>1. ASSUME NEW u \in Threads, call'[u].pc = "clear"
          PROVE  u # t /\ call'[u] = call[u]
      BY <2>5, <3>1 DEF Idle
    <3> QED
      BY <3>1, <2>1, <1>0 DEF UCalls
  <2>11. ASSUME ~overlap' PROVE UFree'
    <3>0. UFree /\ ~uaf' /\ Freeing(t) /\ Leaving(t)
      BY <2>11, <2>1, <1>0 DEF UFree, Freeing, Leaving
    <3>1. ASSUME NEW u \in Threads, call'[u].pc # "idle"
          PROVE  /\ u # t /\ call'[u] = call[u] /\ call[u].pc # "idle"
                 /\ ~Freeing(u) /\ call[u].c # c
      <4>1. u # t /\ call'[u] = call[u]
        BY <2>5, <3>1 DEF Idle
      <4> QED
        BY <4>1, <3>0, <3>1 DEF UFree, c
    <3>2. ASSUME NEW u \in Threads
          PROVE  /\ call'[u].pc \notin {"idle", "update_table"} => call'[u].c \in LiveChunks'
                 /\ call'[u].pc # "unlink"
                 /\ ~Leaving(u)' /\ ~Freeing(u)'
      <4>1. CASE call'[u].pc = "idle"
        BY <4>1 DEF Leaving, Freeing
      <4>2. CASE call'[u].pc # "idle"
        <5>1. call'[u] = call[u] /\ ~Freeing(u) /\ call[u].c # c
          BY <4>2, <3>1
        <5> QED
          BY <5>1, <3>0, <2>3 DEF UFree, Leaving, Freeing
      <4> QED
        BY <4>1, <4>2
    <3>3. \A g \in grants' : g.c \in LiveChunks'
      <4>1. HeldOn(c) = {}
        BY <3>0 DEF UFree, c
      <4>2. \A g \in grants : g.c # c
        BY <4>1 DEF HeldOn
      <4> QED
        BY <4>2, <3>0, <2>1, <2>3 DEF UFree
    <3>4. ASSUME NEW d \in LiveChunks' PROVE d \in kernel'
      <4>1. d \in LiveChunks /\ d # c
        BY <2>3
      <4>2. d \in kernel \/ \E u \in Threads : call[u].pc \in {"delete", "unlink"} /\ call[u].c = d
        BY <4>1, <3>0 DEF UFree
      <4>3. ASSUME NEW u \in Threads, call[u].pc \in {"delete", "unlink"}, call[u].c = d
            PROVE  FALSE
        <5>1. u # t /\ Freeing(u) /\ call[u].pc # "idle"
          BY <4>1, <4>3 DEF c, Freeing
        <5> QED
          BY <5>1, <3>0 DEF UFree
      <4> QED
        BY <4>2, <4>3, <2>1
    <3> QED
      BY <3>0, <3>2, <3>3, <3>4 DEF UFree
  <2> QED
    BY <2>6, <2>7, <2>8, <2>9, <2>10, <2>11 DEF UInv
<1> QED
  BY <1>1, <1>2

LEMMA RequestMemoryStep ==
    ASSUME UInv, NEW t \in Threads, RequestMemory(t)
    PROVE  UInv'
<1> DEFINE n == issued + 1
           k == [pc |-> "update_table", c |-> n]
<1>0. UTypes /\ UNew /\ UList /\ UBlocks /\ UCalls /\ (overlap \/ UFree) /\ call[t].pc = "idle"
  BY DEF UInv, RequestMemory, At
<1>1. /\ n \in Chunks /\ issued' = n /\ kernel' = kernel \cup {n}
      /\ call' = [call EXCEPT ![t] = k]
      /\ UNCHANGED <<chunkList, chunk, grants, uaf, overlap>>
  BY DEF RequestMemory
<1>2. issued \in Nat /\ Cardinality(Chunks) \in Nat /\ Chunks = 1 .. Cardinality(Chunks)
  BY <1>0, ChunkIdsAre DEF UTypes, ChunkIds
<1>3. n \in NewChunks
  BY <1>0, <1>1, <1>2 DEF UNew
<1>4. ASSUME NEW u \in Threads PROVE call'[u] = IF u = t THEN k ELSE call[u]
  BY <1>0, <1>1 DEF UTypes
<1>5. /\ LiveChunks' = LiveChunks /\ NewChunks' = NewChunks
      /\ \A d : HeldOn(d)' = HeldOn(d)
  BY <1>1 DEF LiveChunks, NewChunks, HeldOn
<1>6. UTypes'
  <2>1. Calls' = Calls
    BY <1>1 DEF Calls
  <2>2. k \in Calls
    BY <1>1 DEF Calls
  <2>3. issued' \in 0 .. Cardinality(Chunks)
    BY <1>1, <1>2
  <2> HIDE DEF k, n
  <2> QED
    BY <2>1, <2>2, <2>3, <1>0, <1>1 DEF UTypes
<1>7. UList'
  BY <1>0, <1>1, <1>5, ListKept
<1>8. UNew'
  <2>1. \A d \in Chunks : d > issued' => d \in NewChunks'
    BY <1>0, <1>1, <1>2, <1>5 DEF UNew
  <2>2. ASSUME NEW u \in Threads, u # t, call[u].pc = "update_table"
        PROVE  /\ call[u].c \in NewChunks /\ call[u].c \in kernel'
               /\ call[u].c # n /\ call[u].c <= issued'
    <3>1. call[u].c \in NewChunks /\ call[u].c <= issued /\ call[u].c \in kernel
      BY <2>2, <1>0 DEF UNew
    <3>2. call[u].c \in Nat
      BY <3>1, <1>2, LiveNotNew
    <3> QED
      BY <3>1, <3>2, <1>1, <1>2
  <2>3. ASSUME NEW u \in Threads
        PROVE  /\ call'[u].pc = "update_table" =>
                    /\ call'[u].c \in NewChunks' /\ call'[u].c <= issued'
                    /\ call'[u].c \in kernel'
               /\ call'[u].pc \notin {"idle", "update_table"} => call'[u].c \notin NewChunks'
               /\ call'[u].pc = "unlink" => call'[u].iter \notin NewChunks'
    <3>1. CASE u = t
      BY <3>1, <1>1, <1>2, <1>3, <1>4, <1>5
    <3>2. CASE u # t
      BY <3>2, <2>2, <1>0, <1>4, <1>5 DEF UNew
    <3> QED
      BY <3>1, <3>2
  <2>4. ASSUME NEW u \in Threads, NEW w \in Threads, u # w,
               call'[u].pc = "update_table", call'[w].pc = "update_table"
        PROVE  call'[u].c # call'[w].c
    <3>1. CASE u = t
      BY <3>1, <2>2, <2>4, <1>4
    <3>2. CASE w = t
      BY <3>2, <2>2, <2>4, <1>4
    <3>3. CASE u # t /\ w # t
      BY <3>3, <2>4, <1>0, <1>4 DEF UNew
    <3> QED
      BY <3>1, <3>2, <3>3
  <2>5. \A g \in grants' : g.c \notin NewChunks'
    BY <1>0, <1>1, <1>5 DEF UNew
  <2> QED
    BY <2>1, <2>3, <2>4, <2>5 DEF UNew
<1>9. UBlocks'
  <2>1. \A g \in grants' : InBlocks(g)'
    BY <1>0, <1>1 DEF UBlocks, InBlocks
  <2>2. \A g, h \in grants' : Apart(g, h)'
    BY <1>0, <1>1 DEF UBlocks, Apart
  <2>3. ASSUME NEW d \in LiveChunks'
        PROVE  /\ chunk'[d].bmap = (UNION {BlocksOf(g) : g \in HeldOn(d)})'
               /\ chunk'[d].free_blks = (max_blks - Cardinality(chunk[d].bmap))'
    BY <1>0, <1>1, <1>5 DEF UBlocks
  <2> QED
    BY <2>1, <2>2, <2>3 DEF UBlocks
<1>10. UCalls'
  <2>1. ASSUME NEW u \in Threads, call'[u].pc = "clear"
        PROVE  u # t /\ call'[u] = call[u]
    BY <1>4, <2>1
  <2> QED
    BY <2>1, <1>0, <1>1 DEF UCalls
<1>11. ASSUME ~overlap' PROVE UFree'
  <2>0. UFree /\ ~uaf'
    BY <1>11, <1>0, <1>1 DEF UFree
  <2>1. ASSUME NEW u \in Threads, u # t PROVE call'[u] = call[u]
    BY <2>1, <1>4
  <2>2. /\ call'[t] = k /\ ~Freeing(t)' /\ ~Leaving(t)' /\ ~Freeing(t) /\ ~Leaving(t)
    BY <1>0, <1>4 DEF Freeing, Leaving
  <2>3. ASSUME NEW u \in Threads
        PROVE  /\ call'[u].pc \notin {"idle", "update_table"} => call'[u].c \in LiveChunks'
               /\ call'[u].pc = "unlink" => call'[u].iter \in LiveChunks'
               /\ Leaving(u)' => HeldOn(call[u].c)' = {}
    <3>1. CASE u = t
      BY <3>1, <2>2
    <3>2. CASE u # t
      BY <3>2, <2>0, <2>1, <1>5 DEF UFree, Leaving
    <3> QED
      BY <3>1, <3>2
  <2>4. ASSUME NEW u \in Threads, NEW w \in Threads, u # w, Freeing(u)', call'[w].pc # "idle"
        PROVE  ~Freeing(w)' /\ call'[w].c # call'[u].c
    <3>1. u # t /\ call'[u] = call[u] /\ Freeing(u)
      BY <2>1, <2>2, <2>4 DEF Freeing
    <3>2. CASE w = t
      <4>1. call[u].c \in LiveChunks
        BY <3>1, <2>0 DEF UFree, Freeing
      <4> QED
        BY <4>1, <3>1, <3>2, <2>2, <1>3, LiveNotNew
    <3>3. CASE w # t
      BY <3>1, <3>3, <2>0, <2>1, <2>4 DEF UFree, Freeing
    <3> QED
      BY <3>2, <3>3
  <2>5. \A g \in grants' : g.c \in LiveChunks'
    BY <2>0, <1>1, <1>5 DEF UFree
  <2>6. ASSUME NEW d \in LiveChunks'
        PROVE  d \in kernel' \/ \E u \in Threads : call'[u].pc \in {"delete", "unlink"} /\ call'[u].c = d
    <3>1. d \in kernel \/ \E u \in Threads : call[u].pc \in {"delete", "unlink"} /\ call[u].c = d
      BY <2>0, <1>5 DEF UFree
    <3>2. ASSUME NEW u \in Threads, call[u].pc \in {"delete", "unlink"}
          PROVE  u # t
      BY <3>2, <1>0
    <3> QED
      BY <3>1, <3>2, <2>1, <1>1
  <2> QED
    BY <2>0, <2>3, <2>4, <2>5, <2>6 DEF UFree
<1> QED
  BY <1>6, <1>7, <1>8, <1>9, <1>10, <1>11 DEF UInv

LEMMA UpdateUmemTableStep ==
    ASSUME WholeBlocks, UInv, NEW t \in Threads, UpdateUmemTable(t)
    PROVE  UInv'
<1> DEFINE c == call[t].c
           r == [state |-> "live", bmap |-> {}, free_blks |-> max_blks]
<1>0. /\ UTypes /\ UNew /\ UList /\ UBlocks /\ UCalls /\ (overlap \/ UFree)
      /\ call[t].pc = "update_table"
      /\ c \in NewChunks /\ c \in Chunks /\ c <= issued /\ c \in kernel
  BY LiveNotNew DEF UInv, UpdateUmemTable, At, UNew
<1>1. ~(head # Null /\ chunk[tail].state = "freed")
  <2>1. head # Null => tail \in LiveChunks
    BY <1>0, ListEnds
  <2> QED
    BY <2>1 DEF LiveChunks
<1>2. \/ /\ chunk' = [chunk EXCEPT ![c] = r] /\ AppendToList(c)
         /\ call' = [call EXCEPT ![t] = Idle]
         /\ UNCHANGED <<issued, kernel, grants, uaf, overlap>>
      \/ /\ call' = [call EXCEPT ![t] = Idle]
         /\ UNCHANGED <<chunkList, chunk, issued, kernel, grants, uaf, overlap>>
  BY <1>1 DEF UpdateUmemTable, Return
<1>3. CASE /\ call' = [call EXCEPT ![t] = Idle]
           /\ UNCHANGED <<chunkList, chunk, issued, kernel, grants, uaf, overlap>>
  <2>1. ~overlap' => ~overlap /\ ~uaf' /\ CallExcludes(t, Idle)
    BY <1>0, <1>3, IdleExcludes DEF UFree
  <2>2. uaf' \in BOOLEAN /\ overlap' \in BOOLEAN /\ kernel' \subseteq kernel
    BY <1>0, <1>3 DEF UTypes
  <2> QED
    BY <2>1, <2>2, <1>3, IdleSound, CallStep
<1>4. CASE /\ chunk' = [chunk EXCEPT ![c] = r] /\ AppendToList(c)
           /\ call' = [call EXCEPT ![t] = Idle]
           /\ UNCHANGED <<issued, kernel, grants, uaf, overlap>>
  <2> HIDE DEF c
  <2>0. max_blks \in Nat /\ r \in ChunkRecords
    BY BlocksOfChunk DEF ChunkRecords, Marks
  <2>1. r.state = "live" /\ r.bmap = {} /\ r.free_blks = max_blks
    OBVIOUS
  <2> HIDE DEF r
  <2>2. ASSUME NEW d \in Chunks PROVE chunk'[d] = IF d = c THEN r ELSE chunk[d]
    BY <1>0, <1>4 DEF UTypes
  <2>3. LiveChunks' = LiveChunks \cup {c} /\ NewChunks' = NewChunks \ {c}
    BY <2>1, <2>2, <1>0 DEF LiveChunks, NewChunks
  <2>4. \A d : HeldOn(d)' = HeldOn(d)
    BY <1>4 DEF HeldOn
  <2>5. ASSUME NEW u \in Threads PROVE call'[u] = IF u = t THEN Idle ELSE call[u]
    BY <1>0, <1>4 DEF UTypes
  <2>6. UTypes'
    <3>1. chunk' \in [Chunks -> ChunkRecords]
      BY <2>0, <1>0, <1>4 DEF UTypes
    <3>2. Calls' = Calls
      BY <1>4 DEF Calls
    <3>3. call' \in [Threads -> Calls]
      BY <1>0, <1>4, IdleSound DEF UTypes, CallSound
    <3>4. ChunkRecords' = ChunkRecords
      OBVIOUS
    <3> QED
      BY <3>1, <3>2, <3>3, <1>0, <1>4 DEF UTypes
  <2>7. UList'
    <3>1. PICK s : Chain(s, head, tail, next, LiveChunks)
      BY <1>0 DEF UList
    <3>2. ListTyped /\ next[c] = Null /\ c \in Chunks \ LiveChunks
      BY <1>0, LiveNotNew DEF UList
    <3>3. /\ Chain(Append(s, c), head', tail', next', LiveChunks \cup {c})
          /\ \A d \in Chunks \ LiveChunks : next'[d] = next[d]
      BY <3>1, <3>2, <1>4, ChainAppends
    <3>4. head' \in Chunks \cup {Null} /\ tail' \in Chunks \cup {Null}
      BY <3>2, <1>0, <1>4 DEF AppendToList, ListTyped
    <3>5. next' \in [Chunks -> Chunks \cup {Null}]
      BY <3>2, <1>0, <1>4 DEF AppendToList, ListTyped
    <3>6. ListTyped'
      BY <3>4, <3>5 DEF ListTyped
    <3>7. \A d \in NewChunks' : next'[d] = Null
      BY <3>3, <2>3, <1>0, LiveNotNew DEF UList
    <3>8. \E z : Chain(z, head', tail', next', LiveChunks')
      BY <3>3, <2>3
    <3> QED
      BY <3>6, <3>7, <3>8 DEF UList
  <2>8. UNew'
    <3>0. issued \in Nat /\ \A d \in Chunks : d \in Nat
      BY <1>0, ChunkIdsAre DEF UTypes, ChunkIds
    <3>1. \A d \in Chunks : d > issued' => d \in NewChunks'
      BY <3>0, <2>3, <1>0, <1>4 DEF UNew
    <3>2. ASSUME NEW u \in Threads, call'[u].pc # "idle"
          PROVE  u # t /\ call'[u] = call[u]
      BY <2>5, <3>2 DEF Idle
    <3>3. \A g \in grants' : g.c \notin NewChunks'
      BY <2>3, <1>0, <1>4 DEF UNew
    <3>4. ASSUME NEW u \in Threads, call'[u].pc = "update_table"
          PROVE  call'[u].c \in NewChunks' /\ call'[u].c <= issued' /\ call'[u].c \in kernel'
      <4>1. u # t /\ call'[u] = call[u]
        BY <3>2, <3>4
      <4>2. call[u].c # c
        BY <4>1, <3>4, <1>0 DEF UNew, c
      <4> QED
        BY <4>1, <4>2, <3>4, <2>3, <1>0, <1>4 DEF UNew
    <3> QED
      BY <3>1, <3>2, <3>3, <3>4, <2>3, <1>0 DEF UNew
  <2>9. UBlocks'
    <3>1. \A g \in grants' : InBlocks(g)'
      BY <1>0, <1>4 DEF UBlocks, InBlocks
    <3>2. \A g, h \in grants' : Apart(g, h)'
      BY <1>0, <1>4 DEF UBlocks, Apart
    <3>3. ASSUME NEW d \in LiveChunks'
          PROVE  /\ chunk'[d].bmap = (UNION {BlocksOf(g) : g \in HeldOn(d)})'
                 /\ chunk'[d].free_blks = (max_blks - Cardinality(chunk[d].bmap))'
      <4>1. CASE d = c
        <5>1. HeldOn(c) = {}
          BY <1>0 DEF UNew, HeldOn
        <5>2. chunk'[c].bmap = {} /\ chunk'[c].free_blks = max_blks
          BY <2>1, <2>2, <1>0
        <5>3. max_blks - Cardinality({}) = max_blks
          BY <2>0, FS_EmptySet
        <5>4. UNION {BlocksOf(g) : g \in {}} = {}
          OBVIOUS
        <5>5. HeldOn(d)' = {}
          BY <5>1, <4>1, <2>4
        <5>6. (UNION {BlocksOf(g) : g \in HeldOn(d)})' = {}
          BY <5>5
        <5> QED
          BY <5>2, <5>3, <5>6, <4>1
      <4>2. CASE d # c
        <5>1. d \in LiveChunks /\ chunk'[d] = chunk[d]
          BY <4>2, <2>2, <2>3, LiveNotNew
        <5> QED
          BY <5>1, <2>4, <1>0 DEF UBlocks
      <4> QED
        BY <4>1, <4>2
    <3> QED
      BY <3>1, <3>2, <3>3 DEF UBlocks
  <2>10. UCalls'
    <3>1. ASSUME NEW u \in Threads, call'[u].pc = "clear"
          PROVE  u # t /\ call'[u] = call[u]
      BY <2>5, <3>1 DEF Idle
    <3> QED
      BY <3>1, <1>0, <1>4 DEF UCalls
  <2>11. ASSUME ~overlap' PROVE UFree'
    <3>0. UFree /\ ~uaf'
      BY <2>11, <1>0, <1>4 DEF UFree
    <3>1. ASSUME NEW u \in Threads, call'[u].pc # "idle"
          PROVE  u # t /\ call'[u] = call[u]
      BY <2>5, <3>1 DEF Idle
    <3>2. ASSUME NEW u \in Threads
          PROVE  /\ call'[u].pc \notin {"idle", "update_table"} => call'[u].c \in LiveChunks'
                 /\ call'[u].pc = "unlink" => call'[u].iter \in LiveChunks'
                 /\ Leaving(u)' => HeldOn(call[u].c)' = {}
      <4>1. CASE call'[u].pc = "idle"
        BY <4>1 DEF Leaving
      <4>2. CASE call'[u].pc # "idle"
        BY <4>2, <3>0, <3>1, <2>3, <2>4 DEF UFree, Leaving
      <4> QED
        BY <4>1, <4>2
    <3>3. ASSUME NEW u \in Threads, NEW w \in Threads, u # w, Freeing(u)', call'[w].pc # "idle"
          PROVE  ~Freeing(w)' /\ call'[w].c # call'[u].c
      <4>1. call'[u] = call[u] /\ call'[w] = call[w]
        BY <3>1, <3>3 DEF Freeing
      <4> QED
        BY <4>1, <3>0, <3>3 DEF UFree, Freeing
    <3>4. \A g \in grants' : g.c \in LiveChunks'
      BY <3>0, <2>3, <1>4 DEF UFree
    <3>5. ASSUME NEW d \in LiveChunks'
          PROVE  d \in kernel' \/ \E u \in Threads : call'[u].pc \in {"delete", "unlink"} /\ call'[u].c = d
      <4>1. CASE d = c
        BY <4>1, <1>0, <1>4
      <4>2. CASE d # c
        <5>1. d \in kernel \/ \E u \in Threads : call[u].pc \in {"delete", "unlink"} /\ call[u].c = d
          BY <4>2, <3>0, <2>3 DEF UFree
        <5>2. ASSUME NEW u \in Threads, call[u].pc \in {"delete", "unlink"}
              PROVE  u # t
          BY <5>2, <1>0
        <5> QED
          BY <5>1, <5>2, <2>5, <1>4
      <4> QED
        BY <4>1, <4>2
    <3> QED
      BY <3>0, <3>2, <3>3, <3>4, <3>5 DEF UFree
  <2> QED
    BY <2>6, <2>7, <2>8, <2>9, <2>10, <2>11 DEF UInv
<1> QED
  BY <1>2, <1>3, <1>4

\* A step that ends a call on the memory of a live chunk.
LEMMA MemoryStep ==
    ASSUME UInv, NEW t \in Threads, call[t].pc \in {"reserve", "clear"},
           NEW c \in LiveChunks, call[t].c = c,
           NEW r \in ChunkRecords, r.state = "live", chunk' = [chunk EXCEPT ![c] = r],
           call' = [call EXCEPT ![t] = Idle],
           UNCHANGED <<chunkList, issued, kernel, uaf, overlap>>,
           grants' \subseteq GrantSet, \A g \in grants' : g \in grants \/ g.c = c,
           \A u \in Threads : u # t /\ call[u].pc = "clear" => call[u].g \in grants',
           UBlocks'
    PROVE  UInv'
<1>0. /\ UTypes /\ UNew /\ UList /\ UBlocks /\ UCalls /\ (overlap \/ UFree)
      /\ c \in Chunks /\ c \notin NewChunks
  BY LiveNotNew DEF UInv
<1>1. ASSUME NEW d \in Chunks PROVE chunk'[d] = IF d = c THEN r ELSE chunk[d]
  BY <1>0 DEF UTypes
<1>2. LiveChunks' = LiveChunks /\ NewChunks' = NewChunks
  BY <1>0, <1>1 DEF LiveChunks, NewChunks
<1>3. ASSUME NEW u \in Threads PROVE call'[u] = IF u = t THEN Idle ELSE call[u]
  BY <1>0 DEF UTypes
<1>4. ASSUME NEW u \in Threads, call'[u].pc # "idle"
      PROVE  u # t /\ call'[u] = call[u]
  BY <1>3, <1>4 DEF Idle
<1>5. UTypes'
  <2>1. chunk' \in [Chunks -> ChunkRecords]
    BY <1>0 DEF UTypes
  <2>2. ASSUME NEW u \in Threads PROVE call'[u] \in Calls'
    <3>1. CASE u = t
      BY <3>1, <1>3 DEF Calls, Idle
    <3>2. CASE u # t
      <4>1. call'[u] = call[u] /\ call[u] \in Calls
        BY <3>2, <1>0, <1>3 DEF UTypes
      <4>2. call[u].pc = "clear" => call[u].g \in grants'
        BY <3>2
      <4> DEFINE k == call[u]
      <4> HIDE DEF k
      <4>3. k \in Calls /\ (k.pc = "clear" => k.g \in grants')
        BY <4>1, <4>2 DEF k
      <4>4. CASE k \in [pc : {"clear"}, c : Chunks, g : grants]
        <5>1. k = [pc |-> "clear", c |-> k.c, g |-> k.g] /\ k.c \in Chunks
          BY <4>4
        <5>2. k.g \in grants'
          BY <4>3, <4>4
        <5>3. k \in [pc : {"clear"}, c : Chunks, g : grants']
          BY <5>1, <5>2
        <5> QED
          BY <5>3, <4>1 DEF Calls, k
      <4>5. CASE k \notin [pc : {"clear"}, c : Chunks, g : grants]
        <5>1. k \in Calls'
          BY <4>3, <4>5 DEF Calls
        <5> QED
          BY <5>1, <4>1 DEF k
      <4> QED
        BY <4>4, <4>5
    <3> QED
      BY <3>1, <3>2
  <2>3. call' \in [Threads -> Calls']
    <3>1. call' = [u \in Threads |-> call'[u]]
      BY <1>0 DEF UTypes
    <3> QED
      BY <3>1, <2>2
  <2>4. ChunkRecords' = ChunkRecords
    OBVIOUS
  <2>5. issued' = issued /\ kernel' = kernel /\ uaf' = uaf /\ overlap' = overlap
    OBVIOUS
  <2> QED
    BY <2>1, <2>3, <2>4, <2>5, <1>0 DEF UTypes, GrantSet
<1>6. UList'
  BY <1>0, <1>2, ListKept
<1>7. UNew'
  <2>1. \A g \in grants' : g.c \notin NewChunks'
    BY <1>0, <1>2 DEF UNew
  <2> QED
    BY <2>1, <1>0, <1>2, <1>4 DEF UNew
<1>8. UCalls'
  BY <1>0, <1>4 DEF UCalls
<1>9. ASSUME ~overlap' PROVE UFree'
  <2>0. UFree /\ ~uaf'
    BY <1>9, <1>0 DEF UFree
  <2>1. ASSUME NEW u \in Threads
        PROVE  /\ call'[u].pc \notin {"idle", "update_table"} => call'[u].c \in LiveChunks'
               /\ call'[u].pc = "unlink" => call'[u].iter \in LiveChunks'
    BY <1>2, <1>4, <2>0 DEF UFree
  <2>2. ASSUME NEW u \in Threads, Leaving(u)' PROVE HeldOn(call[u].c)' = {}
    <3>1. u # t /\ call'[u] = call[u] /\ Leaving(u) /\ Freeing(u)
      BY <1>4, <2>2 DEF Leaving, Freeing
    <3>2. call[u].c # c
      BY <3>1, <2>0 DEF UFree
    <3>3. HeldOn(call[u].c) = {}
      BY <3>1, <2>0 DEF UFree
    <3> QED
      BY <3>1, <3>2, <3>3 DEF HeldOn
  <2>3. ASSUME NEW u \in Threads, NEW w \in Threads, u # w, Freeing(u)', call'[w].pc # "idle"
        PROVE  ~Freeing(w)' /\ call'[w].c # call'[u].c
    <3>1. call'[u] = call[u] /\ call'[w] = call[w]
      BY <1>4, <2>3 DEF Freeing
    <3> QED
      BY <3>1, <2>0, <2>3 DEF UFree, Freeing
  <2>4. \A g \in grants' : g.c \in LiveChunks'
    BY <2>0, <1>2 DEF UFree
  <2>5. ASSUME NEW d \in LiveChunks'
        PROVE  d \in kernel' \/ \E u \in Threads : call'[u].pc \in {"delete", "unlink"} /\ call'[u].c = d
    <3>1. d \in kernel \/ \E u \in Threads : call[u].pc \in {"delete", "unlink"} /\ call[u].c = d
      BY <2>0, <1>2 DEF UFree
    <3>2. ASSUME NEW u \in Threads, call[u].pc \in {"delete", "unlink"} PROVE u # t
      BY <3>2
    <3> QED
      BY <3>1, <3>2, <1>3
  <2> QED
    BY <2>0, <2>1, <2>2, <2>3, <2>4, <2>5, SMTT(20) DEF UFree
<1> QED
  BY <1>5, <1>6, <1>7, <1>8, <1>9 DEF UInv

\* What a live chunk's record says.
LEMMA LiveChunk ==
    ASSUME WholeBlocks, UTypes, UBlocks, NEW c \in LiveChunks
    PROVE  /\ c \in Chunks /\ chunk[c].state = "live"
           /\ chunk[c] = [state |-> "live", bmap |-> chunk[c].bmap,
                          free_blks |-> chunk[c].free_blks]
           /\ chunk[c].bmap \in Marks /\ IsFiniteSet(chunk[c].bmap)
           /\ Cardinality(chunk[c].bmap) \in Nat
           /\ chunk[c].free_blks \in 0 .. max_blks
           /\ chunk[c].free_blks = max_blks - Cardinality(chunk[c].bmap)
           /\ chunk[c].bmap = UNION {BlocksOf(g) : g \in HeldOn(c)}
<1>0. max_blks \in Nat /\ c \in Chunks /\ chunk[c].state = "live"
  BY BlocksOfChunk DEF LiveChunks
<1>1. chunk[c] \in ChunkRecords
  BY <1>0 DEF UTypes
<1>2. /\ chunk[c].bmap \in Marks /\ chunk[c].free_blks \in 0 .. max_blks
      /\ chunk[c] = [state |-> "live", bmap |-> chunk[c].bmap, free_blks |-> chunk[c].free_blks]
  BY <1>0, <1>1 DEF ChunkRecords
<1>3. IsFiniteSet(0 .. max_blks - 1)
  BY <1>0, FS_Interval
<1>4. IsFiniteSet(chunk[c].bmap)
  BY <1>2, <1>3, FS_Subset DEF Marks
<1>5. Cardinality(chunk[c].bmap) \in Nat
  BY <1>4, FS_CardinalityType
<1> QED
  BY <1>0, <1>2, <1>4, <1>5 DEF UBlocks

LEMMA BlocksJoin ==
    ASSUME NEW S, NEW g
    PROVE  UNION {BlocksOf(h) : h \in S \cup {g}}
                = (UNION {BlocksOf(h) : h \in S}) \cup BlocksOf(g)
OBVIOUS

\* How many blocks a run is.
LEMMA RunCount ==
    ASSUME NEW q \in Nat, NEW n \in Nat \ {0}
    PROVE  IsFiniteSet(Run(q, n)) /\ Cardinality(Run(q, n)) = n /\ q \in Run(q, n)
<1>1. IsFiniteSet(q .. q + n - 1) /\ Cardinality(q .. q + n - 1) = n
  <2>1. q + n - 1 \in Int /\ ~(q > q + n - 1) /\ (q + n - 1) - q + 1 = n
    OBVIOUS
  <2> QED
    BY <2>1, FS_Interval
<1>2. q \in q .. q + n - 1
  OBVIOUS
<1> QED
  BY <1>1, <1>2 DEF Run

\* The map is made of whole ints, and an int counts further than its bits.
WholeMap == WholeBlocks /\ WholeInts(max_blks) /\ WidthOfInt

LEMMA ReserveMemBlocksStep ==
    ASSUME WholeMap, UInv, NEW t \in Threads, ReserveMemBlocks(t)
    PROVE  UInv'
<1> DEFINE c == call[t].c
           size == call[t].size
           n == SIZE_TO_BLOCKS(size, BlkSize)
           b == chunk[c].bmap
           bit == find_zero_bits(b, n, max_blks)
           r == [state |-> "live", bmap |-> b \cup Run(bit, n),
                 free_blks |-> chunk[c].free_blks - n]
           g == [c |-> c, ofs |-> bit * BlkSize, size |-> size]
<1> USE DEF WholeMap
<1>0. /\ UTypes /\ UNew /\ UList /\ UBlocks /\ UCalls /\ (overlap \/ UFree)
      /\ call[t].pc = "reserve" /\ c \in Chunks /\ c \notin NewChunks /\ size \in MemSizes
  BY CallIs DEF UInv, ReserveMemBlocks, At, UNew
<1>1. CASE chunk[c].state = "freed"
  <2>1. UseAfterFree(t)
    BY <1>1 DEF ReserveMemBlocks
  <2>2. overlap
    BY <1>0, <1>1, FreedMeansOverlap
  <2> QED
    BY <2>1, <2>2, UseAfterFreeStep
<1>2. CASE chunk[c].state # "freed"
  <2>0. c \in LiveChunks
    <3>1. chunk[c].state \in {"none", "live", "freed"}
      BY <1>0 DEF UTypes, ChunkRecords
    <3> QED
      BY <3>1, <1>0, <1>2 DEF NewChunks, LiveChunks
  <2>1. /\ call' = [call EXCEPT ![t] = Idle]
        /\ UNCHANGED <<chunkList, issued, kernel, uaf, overlap>>
        /\ IF chunk_has_mem(c, n) /\ bit < max_blks
           THEN /\ chunk' = [chunk EXCEPT ![c].bmap = set_bit_map(@, bit, n),
                                          ![c].free_blks = @ - n]
                /\ grants' = grants \cup {g}
           ELSE UNCHANGED <<chunk, grants>>
    BY <1>2 DEF ReserveMemBlocks, Return
  <2>2. CASE ~(chunk_has_mem(c, n) /\ bit < max_blks)
    <3>1. UNCHANGED <<chunk, grants>>
      BY <2>1, <2>2
    <3>2. ~overlap' => ~overlap /\ ~uaf' /\ CallExcludes(t, Idle)
      BY <1>0, <2>1, IdleExcludes DEF UFree
    <3>3. uaf' \in BOOLEAN /\ overlap' \in BOOLEAN /\ kernel' \subseteq kernel
      BY <1>0, <2>1 DEF UTypes
    <3> QED
      BY <3>1, <3>2, <3>3, <2>1, IdleSound, CallStep
  <2>3. CASE chunk_has_mem(c, n) /\ bit < max_blks
    <3>0. /\ max_blks \in Nat \ {0} /\ size \in Nat \ {0} /\ n \in Nat \ {0}
          /\ BlkSize \in Nat
      BY <1>0, BlocksHold, BlocksOfChunk, UmmAssumption DEF UmmAssumption
    <3>1. n \in 1 .. max_blks /\ n <= chunk[c].free_blks
      <4> HIDE DEF n
      <4> QED
        BY <2>3, <3>0 DEF chunk_has_mem
    <3>2. bit \in FreeRuns(b, n, max_blks)
      <4>1. b \in SUBSET (0 .. max_blks - 1)
        BY <1>0, <2>0, LiveChunk DEF Marks
      <4>2. bit \in {max_blks} \cup FreeRuns(b, n, max_blks)
        BY <3>1, <4>1, FindZeroBits
      <4> HIDE DEF bit
      <4> QED
        BY <4>2, <2>3, <3>0
    <3>l. /\ chunk[c] = [state |-> "live", bmap |-> b, free_blks |-> chunk[c].free_blks]
          /\ b \in Marks /\ IsFiniteSet(b) /\ Cardinality(b) \in Nat
          /\ chunk[c].free_blks \in 0 .. max_blks
          /\ chunk[c].free_blks = max_blks - Cardinality(b)
          /\ b = UNION {BlocksOf(h) : h \in HeldOn(c)}
      BY <1>0, <2>0, LiveChunk
    <3> HIDE DEF bit, n, size
    <3>3. /\ bit \in Nat /\ bit + n <= max_blks /\ Run(bit, n) \cap b = {}
          /\ Run(bit, n) \subseteq 0 .. max_blks - 1
      BY <3>0, <3>1, <3>2 DEF FreeRuns, Run
    <3>4. set_bit_map(b, bit, n) = b \cup Run(bit, n)
      <4> HIDE DEF b
      <4> QED
        BY <3>0, <3>3, BitsSet
    <3>5. chunk' = [chunk EXCEPT ![c] = r] /\ grants' = grants \cup {g}
      <4>1. /\ chunk' = [chunk EXCEPT ![c].bmap = set_bit_map(@, bit, n),
                                      ![c].free_blks = @ - n]
            /\ grants' = grants \cup {g}
        BY <2>1, <2>3
      <4>2. chunk' = [chunk EXCEPT ![c] = [[chunk[c] EXCEPT !.bmap = set_bit_map(b, bit, n)]
                                                EXCEPT !.free_blks = @ - n]]
        BY <4>1, <1>0 DEF UTypes
      <4>3. [[chunk[c] EXCEPT !.bmap = set_bit_map(b, bit, n)] EXCEPT !.free_blks = @ - n] = r
        <5> DEFINE y == chunk[c]
                   f == chunk[c].free_blks
                   w == b \cup Run(bit, n)
        <5>1. y = [state |-> "live", bmap |-> b, free_blks |-> f]
          BY <3>l
        <5> HIDE DEF b, c, y, f, w
        <5>2. [[y EXCEPT !.bmap = w] EXCEPT !.free_blks = @ - n]
                = [state |-> "live", bmap |-> w, free_blks |-> f - n]
          <6> DEFINE z == [state |-> "live", bmap |-> w, free_blks |-> f]
          <6>1. [y EXCEPT !.bmap = w] = z
            BY <5>1
          <6>2. [z EXCEPT !.free_blks = @ - n]
                  = [state |-> "live", bmap |-> w, free_blks |-> f - n]
            OBVIOUS
          <6> QED
            BY <6>1, <6>2, Zenon
        <5> QED
          BY <5>2, <3>4, Zenon DEF r, y, f, w
      <4> QED
        BY <4>1, <4>2, <4>3
    <3>6. r \in ChunkRecords /\ r.state = "live"
      <4>1. b \cup Run(bit, n) \in Marks
        BY <3>3, <3>l DEF Marks
      <4>2. chunk[c].free_blks - n \in 0 .. max_blks
        BY <3>0, <3>1, <3>l
      <4> QED
        BY <4>1, <4>2 DEF ChunkRecords
    <3>7. /\ g \in GrantSet /\ g.c = c /\ BlocksOf(g) = Run(bit, n) /\ InBlocks(g)
      <4>1. bit * BlkSize \in Nat
        BY <3>0, <3>3
      <4>2. g \in GrantSet /\ g.c = c /\ g.ofs = bit * BlkSize /\ g.size = size
        BY <4>1, <1>0 DEF GrantSet, size
      <4>3. SIZE_TO_BLOCKS(bit * BlkSize, BlkSize) = bit
        BY <3>3, BlockOfBorder
      <4>4. BlocksOf(g) = Run(bit, n)
        BY <4>2, <4>3 DEF BlocksOf, n
      <4>5. InBlocks(g)
        BY <4>2, <3>3 DEF InBlocks, n
      <4> QED
        BY <4>2, <4>4, <4>5
    <3> HIDE DEF g, b
    <3>8. UBlocks'
      <4>1. \A h \in grants' : InBlocks(h)'
        BY <3>5, <3>7, <1>0 DEF UBlocks, InBlocks
      <4>2. ASSUME NEW h \in HeldOn(c) PROVE BlocksOf(h) \cap BlocksOf(g) = {}
        <5>1. BlocksOf(h) \subseteq b
          BY <3>l
        <5> QED
          BY <5>1, <3>3, <3>7
      <4>3. ASSUME NEW h \in grants', NEW i \in grants', h # i, h.c = i.c
            PROVE  BlocksOf(h) \cap BlocksOf(i) = {}
        <5>1. CASE h = g
          <6>1. i \in HeldOn(c)
            BY <4>3, <5>1, <3>5, <3>7 DEF HeldOn
          <6> QED
            BY <6>1, <4>2, <5>1
        <5>2. CASE i = g
          <6>1. h \in HeldOn(c)
            BY <4>3, <5>2, <3>5, <3>7 DEF HeldOn
          <6> QED
            BY <6>1, <4>2, <5>2
        <5>3. CASE h # g /\ i # g
          BY <4>3, <5>3, <3>5, <1>0 DEF UBlocks, Apart
        <5> QED
          BY <5>1, <5>2, <5>3
      <4>4. LiveChunks' = LiveChunks
        <5>1. ASSUME NEW d \in Chunks PROVE chunk'[d].state = chunk[d].state
          <6>1. chunk'[d] = IF d = c THEN r ELSE chunk[d]
            BY <3>5, <1>0 DEF UTypes
          <6>2. chunk[c].state = "live"
            BY <2>0 DEF LiveChunks
          <6> HIDE DEF r
          <6> QED
            BY <6>1, <6>2, <3>6
        <5> QED
          BY <5>1 DEF LiveChunks
      <4>5. ASSUME NEW d \in LiveChunks'
            PROVE  /\ chunk'[d].bmap = (UNION {BlocksOf(h) : h \in HeldOn(d)})'
                   /\ chunk'[d].free_blks = (max_blks - Cardinality(chunk[d].bmap))'
        <5>0. d \in LiveChunks /\ d \in Chunks
          BY <4>4, LiveNotNew
        <5>1. CASE d # c
          <6>1. chunk'[d] = chunk[d] /\ HeldOn(d)' = HeldOn(d)
            BY <5>0, <5>1, <3>5, <3>7, <1>0 DEF UTypes, HeldOn
          <6> QED
            BY <6>1, <5>0, <1>0 DEF UBlocks
        <5>2. CASE d = c
          <6>1. chunk'[c] = r
            BY <3>5, <1>0 DEF UTypes
          <6>2. chunk'[c].bmap = b \cup Run(bit, n) /\ chunk'[c].free_blks = chunk[c].free_blks - n
            BY <6>1
          <6>3. HeldOn(d)' = HeldOn(c) \cup {g}
            BY <3>5, <3>7, <5>2 DEF HeldOn
          <6>4. (UNION {BlocksOf(h) : h \in HeldOn(d)})' = b \cup Run(bit, n)
            <7>1. (UNION {BlocksOf(h) : h \in HeldOn(d)})' = UNION {BlocksOf(h) : h \in HeldOn(d)'}
              BY DEF BlocksOf
            <7>2. UNION {BlocksOf(h) : h \in HeldOn(c) \cup {g}}
                    = (UNION {BlocksOf(h) : h \in HeldOn(c)}) \cup BlocksOf(g)
              BY BlocksJoin
            <7> QED
              BY <7>1, <7>2, <6>3, <3>7, <3>l
          <6>5. Cardinality(b \cup Run(bit, n)) = Cardinality(b) + n
            <7>1. IsFiniteSet(Run(bit, n)) /\ Cardinality(Run(bit, n)) = n
              BY <3>0, <3>3, RunCount
            <7>2. Cardinality(b \cup Run(bit, n))
                    = Cardinality(b) + Cardinality(Run(bit, n)) - Cardinality(b \cap Run(bit, n))
              BY <7>1, <3>l, FS_Union
            <7>3. Cardinality(b \cap Run(bit, n)) = 0
              BY <3>3, FS_EmptySet
            <7> QED
              BY <7>1, <7>2, <7>3, <3>l, <3>0
          <6>6. chunk'[c].free_blks = max_blks - Cardinality(chunk'[c].bmap)
            BY <6>2, <6>5, <3>l, <3>0
          <6> QED
            BY <6>2, <6>4, <6>6, <5>2
        <5> QED
          BY <5>1, <5>2
      <4>6. \A h, i \in grants' : Apart(h, i)'
        BY <4>3 DEF Apart
      <4> QED
        BY <4>1, <4>5, <4>6 DEF UBlocks
    <3>9. /\ grants' \subseteq GrantSet /\ \A h \in grants' : h \in grants \/ h.c = c
          /\ \A u \in Threads : u # t /\ call[u].pc = "clear" => call[u].g \in grants'
      BY <3>5, <3>7, <1>0 DEF UTypes, UCalls
    <3> HIDE DEF c, r
    <3> QED
      BY <3>5, <3>6, <3>8, <3>9, <2>0, <2>1, <1>0, MemoryStep DEF c
  <2> QED
    BY <2>2, <2>3
<1> QED
  BY <1>1, <1>2

LEMMA ClearMemBlocksStep ==
    ASSUME WholeMap, UInv, NEW t \in Threads, ClearMemBlocks(t)
    PROVE  UInv'
<1> USE DEF WholeMap
<1> DEFINE c == call[t].c
           g == call[t].g
           b == chunk[c].bmap
<1>0. /\ UTypes /\ UNew /\ UList /\ UBlocks /\ UCalls /\ (overlap \/ UFree)
      /\ call[t].pc = "clear" /\ c \in Chunks /\ c \notin NewChunks
      /\ g \in grants /\ c = g.c
  BY CallIs DEF UInv, ClearMemBlocks, At, UNew, UCalls
<1>1. CASE chunk[c].state = "freed"
  <2>1. UseAfterFree(t)
    BY <1>1 DEF ClearMemBlocks
  <2>2. overlap
    BY <1>0, <1>1, FreedMeansOverlap
  <2> QED
    BY <2>1, <2>2, UseAfterFreeStep
<1>2. CASE chunk[c].state # "freed"
  <2>0. c \in LiveChunks
    <3>1. chunk[c].state \in {"none", "live", "freed"}
      BY <1>0 DEF UTypes, ChunkRecords
    <3> QED
      BY <3>1, <1>0, <1>2 DEF NewChunks, LiveChunks
  <2>1. /\ call' = [call EXCEPT ![t] = Idle]
        /\ UNCHANGED <<chunkList, issued, kernel, uaf, overlap>>
        /\ chunk' = [chunk EXCEPT ![c] = BlocksReleased(c, g)]
        /\ grants' = grants \ {g}
    BY <1>2 DEF ClearMemBlocks, Return
  <2>2. g \in GrantSet /\ InBlocks(g)
    BY <1>0 DEF UTypes, UBlocks
  <2>3. max_blks \in Nat
    BY BlocksOfChunk
  <2>4. PICK q, n \in Nat : /\ n # 0 /\ q + n <= max_blks
                            /\ n = SIZE_TO_BLOCKS(g.size, BlkSize)
                            /\ SIZE_TO_BLOCKS(g.ofs, BlkSize) = q
                            /\ BlocksOf(g) = q .. q + n - 1
    BY <2>2, GrantInBlocks
  <2> DEFINE r == [state |-> "live", bmap |-> b \ BlocksOf(g),
                   free_blks |-> chunk[c].free_blks + n]
  <2>l. /\ chunk[c] = [state |-> "live", bmap |-> b, free_blks |-> chunk[c].free_blks]
        /\ b \in Marks /\ IsFiniteSet(b) /\ Cardinality(b) \in Nat
        /\ chunk[c].free_blks \in 0 .. max_blks
        /\ chunk[c].free_blks = max_blks - Cardinality(b)
        /\ b = UNION {BlocksOf(h) : h \in HeldOn(c)}
    BY <1>0, <2>0, LiveChunk
  <2>h. g \in HeldOn(c)
    BY <1>0 DEF HeldOn
  <2> HIDE DEF g
  <2>5. BlocksReleased(c, g) = r
    <3> DEFINE y == chunk[c]
               f == chunk[c].free_blks
               w == b \ BlocksOf(g)
    <3>1. y = [state |-> "live", bmap |-> b, free_blks |-> f]
      BY <2>l
    <3>2. clear_bit_map(b, q, n) = w
      <4>1. BlocksOf(g) = Run(q, n)
        BY <2>4 DEF Run
      <4> HIDE DEF b
      <4> QED
        BY <4>1, BitsCleared
    <3>3. BlocksReleased(c, g) = [[y EXCEPT !.bmap = clear_bit_map(b, q, n)]
                                    EXCEPT !.free_blks = @ + n]
      BY <2>4, Zenon DEF BlocksReleased
    <3> HIDE DEF b, c, y, f, w
    <3>4. [[y EXCEPT !.bmap = w] EXCEPT !.free_blks = @ + n]
            = [state |-> "live", bmap |-> w, free_blks |-> f + n]
      <4> DEFINE z == [state |-> "live", bmap |-> w, free_blks |-> f]
      <4>1. [y EXCEPT !.bmap = w] = z
        BY <3>1
      <4>2. [z EXCEPT !.free_blks = @ + n]
              = [state |-> "live", bmap |-> w, free_blks |-> f + n]
        OBVIOUS
      <4> QED
        BY <4>1, <4>2, Zenon
    <3> QED
      BY <3>2, <3>3, <3>4, Zenon DEF r, f, w
  <2> HIDE DEF b
  <2>6. IsFiniteSet(BlocksOf(g)) /\ Cardinality(BlocksOf(g)) = n
    <3>1. BlocksOf(g) = Run(q, n)
      BY <2>4 DEF Run
    <3> QED
      BY <3>1, <2>4, RunCount
  <2>7. BlocksOf(g) \subseteq b
    BY <2>l, <2>h
  <2>8. Cardinality(b \ BlocksOf(g)) = Cardinality(b) - n
    <3>1. Cardinality(b \ BlocksOf(g)) = Cardinality(b) - Cardinality(b \cap BlocksOf(g))
      BY <2>l, FS_Difference
    <3>2. b \cap BlocksOf(g) = BlocksOf(g)
      BY <2>7
    <3> QED
      BY <3>1, <3>2, <2>6
  <2>9. IsFiniteSet(b \ BlocksOf(g)) /\ Cardinality(b \ BlocksOf(g)) \in Nat
    <3>1. IsFiniteSet(b \ BlocksOf(g))
      BY <2>l, FS_Difference
    <3> QED
      BY <3>1, FS_CardinalityType
  <2>10. chunk[c].free_blks + n = max_blks - Cardinality(b \ BlocksOf(g))
    BY <2>3, <2>l, <2>8
  <2>11. r \in ChunkRecords /\ r.state = "live"
    <3>1. b \ BlocksOf(g) \in Marks
      BY <2>l DEF Marks
    <3>2. chunk[c].free_blks + n \in 0 .. max_blks
      BY <2>3, <2>l, <2>9, <2>10
    <3> QED
      BY <3>1, <3>2 DEF ChunkRecords
  <2>12. chunk' = [chunk EXCEPT ![c] = r]
    BY <2>1, <2>5
  <2>13. \A d \in Chunks : chunk'[d] = IF d = c THEN r ELSE chunk[d]
    BY <2>12, <1>0 DEF UTypes
  <2>14. LiveChunks' = LiveChunks
    <3>1. ASSUME NEW d \in Chunks PROVE chunk'[d].state = chunk[d].state
      <4>1. chunk[c].state = "live"
        BY <2>0 DEF LiveChunks
      <4> HIDE DEF r
      <4> QED
        BY <4>1, <2>11, <2>13
    <3> QED
      BY <3>1 DEF LiveChunks
  <2>15. UBlocks'
    <3>1. \A h \in grants' : InBlocks(h)'
      BY <2>1, <1>0 DEF UBlocks, InBlocks
    <3>2. \A h, i \in grants' : Apart(h, i)'
      BY <2>1, <1>0 DEF UBlocks, Apart
    <3>3. ASSUME NEW d \in LiveChunks'
          PROVE  /\ chunk'[d].bmap = (UNION {BlocksOf(h) : h \in HeldOn(d)})'
                 /\ chunk'[d].free_blks = (max_blks - Cardinality(chunk[d].bmap))'
      <4>0. d \in LiveChunks /\ d \in Chunks
        BY <2>14, LiveNotNew
      <4>1. CASE d # c
        <5>1. chunk'[d] = chunk[d] /\ HeldOn(d)' = HeldOn(d)
          BY <4>0, <4>1, <2>1, <2>13, <1>0 DEF HeldOn, g
        <5> QED
          BY <5>1, <4>0, <1>0 DEF UBlocks
      <4>2. CASE d = c
        <5>1. /\ chunk'[d].bmap = b \ BlocksOf(g)
              /\ chunk'[d].free_blks = chunk[c].free_blks + n
          BY <4>0, <4>2, <2>13
        <5>2. HeldOn(d)' = HeldOn(c) \ {g}
          BY <2>1, <4>2 DEF HeldOn
        <5>3. ASSUME NEW h \in HeldOn(c) \ {g} PROVE BlocksOf(h) \cap BlocksOf(g) = {}
          BY <2>h, <1>0 DEF HeldOn, UBlocks, Apart
        <5>4. UNION {BlocksOf(h) : h \in HeldOn(c) \ {g}} = b \ BlocksOf(g)
          BY <5>3, <2>l, <2>h
        <5>5. (UNION {BlocksOf(h) : h \in HeldOn(d)})' = UNION {BlocksOf(h) : h \in HeldOn(d)'}
          BY DEF BlocksOf
        <5> QED
          BY <5>1, <5>2, <5>4, <5>5, <2>10
      <4> QED
        BY <4>1, <4>2
    <3> QED
      BY <3>1, <3>2, <3>3 DEF UBlocks
  <2>16. /\ grants' \subseteq GrantSet /\ \A h \in grants' : h \in grants \/ h.c = c
         /\ \A u \in Threads : u # t /\ call[u].pc = "clear" => call[u].g \in grants'
    BY <2>1, <1>0 DEF UTypes, UCalls, g
  <2> HIDE DEF c, r
  <2> QED
    BY <2>11, <2>12, <2>15, <2>16, <2>0, <2>1, <1>0, MemoryStep DEF c
<1> QED
  BY <1>1, <1>2

-----------------------------------------------------------------------------
(* Its theorems.  The map of a chunk is a whole number of ints.            *)

LEMMA UmmInitInv == WholeMap /\ UmmInit => UInv
<1> SUFFICES ASSUME WholeMap, UmmInit PROVE UInv
  OBVIOUS
<1>0. /\ max_blks \in Nat /\ Cardinality(Chunks) \in Nat /\ Null \notin Chunks
      /\ Chunks = 1 .. Cardinality(Chunks)
  BY BlocksOfChunk, ChunkIdsAre DEF WholeMap, ChunkIds
<1> USE DEF UmmInit
<1>1. UTypes
  <2>1. [state |-> "none", bmap |-> {}, free_blks |-> 0] \in ChunkRecords
    BY <1>0 DEF ChunkRecords, Marks
  <2>2. Idle \in Calls
    BY DEF Calls, Idle
  <2>3. 0 \in 0 .. Cardinality(Chunks)
    BY <1>0
  <2> QED
    BY <2>1, <2>2, <2>3 DEF UTypes
<1>2. LiveChunks = {} /\ NewChunks = Chunks
  BY DEF LiveChunks, NewChunks
<1>3. UList
  <2>1. <<>> \in Seq(Chunks) /\ Len(<<>>) = 0
    OBVIOUS
  <2>2. Chain(<<>>, head, tail, next, LiveChunks)
    BY <1>2, <2>1 DEF Chain
  <2>3. ListTyped
    BY DEF ListTyped
  <2> QED
    BY <2>2, <2>3, <1>2 DEF UList
<1>4. UNew
  BY <1>0, <1>2 DEF UNew, Idle
<1>5. UBlocks
  BY <1>2 DEF UBlocks
<1>6. UCalls
  BY DEF UCalls, Idle
<1>7. UFree
  BY <1>2 DEF UFree, Idle, Freeing, Leaving
<1> QED
  BY <1>1, <1>3, <1>4, <1>5, <1>6, <1>7 DEF UInv

\* What a step that changes nothing keeps.
LEMMA UmmStutter ==
    ASSUME UInv, UNCHANGED ummVars
    PROVE  UInv'
<1>1. /\ head' = head /\ tail' = tail /\ next' = next /\ chunk' = chunk /\ issued' = issued
      /\ kernel' = kernel /\ grants' = grants /\ call' = call /\ uaf' = uaf
      /\ overlap' = overlap
  BY DEF ummVars
<1>2. UTypes' /\ UNew' /\ UBlocks' /\ UCalls' /\ (overlap' \/ UFree')
  BY <1>1 DEF UInv, UTypes, UNew, UBlocks, UCalls, UFree, Calls, LiveChunks, NewChunks,
              HeldOn, InBlocks, Apart, Freeing, Leaving
<1>3. UList'
  <2>1. UNCHANGED chunkList /\ LiveChunks' = LiveChunks /\ NewChunks' = NewChunks
    BY <1>1 DEF chunkList, LiveChunks, NewChunks
  <2> QED
    BY <2>1, ListKept DEF UInv
<1> QED
  BY <1>2, <1>3 DEF UInv

LEMMA UmmNextInv ==
    ASSUME WholeMap, UInv, UmmNext
    PROVE  UInv'
<1> WholeBlocks
  BY DEF WholeMap
<1>1. PICK t \in Threads :
        \/ RequestMemory(t) \/ UpdateUmemTable(t)
        \/ \E c \in Chunks : \E size \in MemSizes : AllocMem(t, c, size)
        \/ ReserveMemBlocks(t)
        \/ \E g \in grants : FreeMem(t, g)
        \/ ClearMemBlocks(t)
        \/ \E c \in Chunks : FreeChunk(t, c)
        \/ CheckInUse(t) \/ IoctlFree(t) \/ ReadListHead(t) \/ DeleteChunk(t)
  BY DEF UmmNext
<1>2. CASE RequestMemory(t)
  BY <1>2, RequestMemoryStep
<1>3. CASE UpdateUmemTable(t)
  BY <1>3, UpdateUmemTableStep
<1>4. CASE \E c \in Chunks : \E size \in MemSizes : AllocMem(t, c, size)
  BY <1>4, AllocMemStep
<1>5. CASE ReserveMemBlocks(t)
  BY <1>5, ReserveMemBlocksStep
<1>6. CASE \E g \in grants : FreeMem(t, g)
  BY <1>6, FreeMemStep
<1>7. CASE ClearMemBlocks(t)
  BY <1>7, ClearMemBlocksStep
<1>8. CASE \E c \in Chunks : FreeChunk(t, c)
  BY <1>8, FreeChunkStep
<1>9. CASE CheckInUse(t)
  BY <1>9, CheckInUseStep
<1>10. CASE IoctlFree(t)
  BY <1>10, IoctlFreeStep
<1>11. CASE ReadListHead(t)
  BY <1>11, ReadListHeadStep
<1>12. CASE DeleteChunk(t)
  BY <1>12, DeleteChunkStep
<1> QED
  BY <1>1, <1>2, <1>3, <1>4, <1>5, <1>6, <1>7, <1>8, <1>9, <1>10, <1>11, <1>12

\* The inductive invariant.
THEOREM UmmInvariant ==
    ASSUME WholeMap
    PROVE  UmmSpec => []UInv
<1>1. UmmInit => UInv
  BY UmmInitInv
<1>2. UInv /\ [UmmNext]_ummVars => UInv'
  BY UmmNextInv, UmmStutter
<1> QED
  BY <1>1, <1>2, PTL DEF UmmSpec

\* xib_umem_alloc_mem: two pieces of memory the application holds never overlap
\* and all lie inside their chunk, and the fields keep their types: no count of
\* free blocks wraps.
THEOREM UmmGrantsSound ==
    ASSUME WholeMap
    PROVE  UmmSpec => []GrantsSound
<1>1. UInv => GrantsSound
  <2> SUFFICES ASSUME UInv PROVE GrantsSound
    OBVIOUS
  <2>0. UTypes /\ UList /\ UBlocks /\ WholeBlocks
    BY DEF UInv, WholeMap
  <2>1. max_blks \in Nat /\ BITS_IN_INT \in Nat
    BY <2>0, BlocksOfChunk, WidthAssumption
  <2>2. ASSUME NEW c \in Chunks
        PROVE  chunk[c] \in [state : {"none", "live", "freed"},
                             bmap : SUBSET (0 .. max_blks + BITS_IN_INT),
                             free_blks : 0 .. max_blks]
    <3>1. chunk[c] \in ChunkRecords
      BY <2>0 DEF UTypes
    <3>2. 0 .. max_blks - 1 \subseteq 0 .. max_blks + BITS_IN_INT
      BY <2>1
    <3> QED
      BY <3>1, <3>2 DEF ChunkRecords, Marks
  <2>3. UmmTypeOK
    BY <2>0, <2>2 DEF UmmTypeOK, UTypes, UList, ListTyped, GrantSet
  <2>4. GrantsDisjoint /\ GrantInsideChunk
    BY <2>0, GrantsInBytes DEF UTypes, UBlocks
  <2> QED
    BY <2>3, <2>4 DEF GrantsSound
<1> QED
  BY <1>1, UmmInvariant, PTL

\* delete_chunk and update_umem_table keep the list of chunks whole, and the bit
\* map and the count of free blocks of each chunk are those of the memory held.
THEOREM UmmListsExact ==
    ASSUME WholeMap
    PROVE  UmmSpec => []ListsExact
<1>1. UInv => ListsExact
  <2> SUFFICES ASSUME UInv PROVE ListsExact
    OBVIOUS
  <2>0. UList /\ UBlocks
    BY DEF UInv
  <2>1. BlockCountExact
    BY <2>0 DEF BlockCountExact, UBlocks, LiveChunks, HeldOn
  <2>2. ListWhole
    <3>1. Listed = LiveChunks
      BY <2>0, ListedLive
    <3> QED
      BY <3>1, <2>0, ListEnds DEF ListWhole, LiveChunks
  <2> QED
    BY <2>1, <2>2 DEF ListsExact
<1> QED
  BY <1>1, UmmInvariant, PTL

\* No call of the library works on a chunk after its free(), and the kernel never
\* gets back a chunk of which memory is held, as long as xib_umem_free_chunk runs
\* beside no call it does not exclude.
THEOREM UmmChunkStays ==
    ASSUME WholeMap
    PROVE  UmmSpec => []ChunkStays
<1>1. UInv => ChunkStays
  <2> SUFFICES ASSUME UInv PROVE ChunkStays
    OBVIOUS
  <2>1. NoUseAfterFree
    BY DEF UInv, UFree, NoUseAfterFree
  <2>2. ASSUME ~overlap, NEW g \in grants PROVE g.c \in kernel
    <3>1. UFree
      BY <2>2 DEF UInv
    <3>2. g.c \in LiveChunks /\ g \in HeldOn(g.c)
      BY <3>1 DEF UFree, HeldOn
    <3>3. ASSUME NEW t \in Threads, call[t].pc \in {"delete", "unlink"}, call[t].c = g.c
          PROVE  FALSE
      BY <3>1, <3>2, <3>3 DEF UFree, Leaving
    <3> QED
      BY <3>1, <3>2, <3>3 DEF UFree
  <2>3. InUseChunkStays
    BY <2>2 DEF InUseChunkStays
  <2> QED
    BY <2>1, <2>3 DEF ChunkStays
<1> QED
  BY <1>1, UmmInvariant, PTL
=============================================================================
