----------------------------- MODULE RingLemmas -----------------------------
(***************************************************************************)
(* Arithmetic of positions in a ring of N entries: what the remainder of a *)
(* free-running count does when the count moves, and when two counts share *)
(* an entry; and the least element of a set of naturals.                   *)
(***************************************************************************)
EXTENDS Integers, WellFoundedInduction, SequenceTheorems, TLAPS

\* A count is a number of whole turns and a position.
LEMMA DivMod ==
    ASSUME NEW N \in Nat \ {0}, NEW a \in Nat
    PROVE  /\ a % N \in 0 .. N - 1
           /\ a \div N \in Nat
           /\ a = (N * (a \div N)) + (a % N)
OBVIOUS

\* The position of a count given as whole turns and a remainder.
LEMMA ModOfTurns ==
    ASSUME NEW N \in Nat \ {0}, NEW q \in Nat, NEW r \in 0 .. N - 1
    PROVE  ((N * q) + r) % N = r
OBVIOUS

\* A pointer that is wrapped only when it is used.
LEMMA RingMod ==
    ASSUME NEW N \in Nat \ {0}, NEW a \in 0 .. N
    PROVE  a % N = IF a = N THEN 0 ELSE a
<1>1. CASE a = N
  <2>1. a = (N * 1) + 0 /\ 0 \in 0 .. N - 1 /\ 1 \in Nat
    BY <1>1
  <2> QED
    BY <1>1, <2>1, ModOfTurns
<1>2. CASE a # N
  <2>1. a = (N * 0) + a /\ a \in 0 .. N - 1 /\ 0 \in Nat
    BY <1>2
  <2> QED
    BY <1>2, <2>1, ModOfTurns
<1> QED
  BY <1>1, <1>2

\* A position, and the same position one turn later.
LEMMA RingMod2 ==
    ASSUME NEW N \in Nat \ {0}, NEW p \in 0 .. N - 1, NEW a, a = p \/ a = p + N
    PROVE  a % N = p
<1>1. CASE a = p
  <2>1. a = (N * 0) + p /\ 0 \in Nat
    BY <1>1
  <2> QED
    BY <2>1, ModOfTurns
<1>2. CASE a = p + N
  <2>1. a = (N * 1) + p /\ 1 \in Nat
    BY <1>2
  <2> QED
    BY <2>1, ModOfTurns
<1> QED
  BY <1>1, <1>2

\* Counts less than one turn apart: the positions differ by as much, or by
\* one turn less when the ring's end lies between them.
LEMMA ModDistance ==
    ASSUME NEW N \in Nat \ {0}, NEW a \in Nat, NEW d \in 0 .. N - 1
    PROVE  (a + d) % N = IF (a % N) + d < N THEN (a % N) + d
                                            ELSE ((a % N) + d) - N
<1> DEFINE q == a \div N
           r == a % N
<1>1. q \in Nat /\ r \in 0 .. N - 1 /\ a = (N * q) + r
  BY DivMod
<1> HIDE DEF q, r
<1>2. CASE r + d < N
  <2>1. a + d = (N * q) + (r + d) /\ r + d \in 0 .. N - 1
    BY <1>1, <1>2
  <2>2. (a + d) % N = r + d
    BY <2>1, <1>1, ModOfTurns
  <2> QED BY <2>2, <1>2 DEF r
<1>3. CASE ~(r + d < N)
  <2>1. a + d = (N * (q + 1)) + ((r + d) - N) /\ (r + d) - N \in 0 .. N - 1
    BY <1>1, <1>3
  <2>2. (a + d) % N = (r + d) - N
    <3>1. q + 1 \in Nat
      BY <1>1
    <3> QED BY <2>1, <3>1, ModOfTurns
  <2> QED BY <2>2, <1>3 DEF r
<1> QED BY <1>2, <1>3

\* The increment modulo N follows the count.
LEMMA ModInc ==
    ASSUME NEW N \in Nat \ {0}, NEW a \in Nat
    PROVE  ((a % N) + 1) % N = (a + 1) % N
<1> DEFINE r == a % N
<1>1. r \in 0 .. N - 1
  BY DivMod
<1>2. CASE N = 1
  BY <1>1, <1>2
<1>3. CASE N > 1
  <2>1. (a + 1) % N = IF r + 1 < N THEN r + 1 ELSE (r + 1) - N
    <3>1. 1 \in 0 .. N - 1
      BY <1>3
    <3> QED BY <3>1, ModDistance
  <2>2. r % N = r
    BY <1>1
  <2>3. (r + 1) % N = IF r + 1 < N THEN r + 1 ELSE (r + 1) - N
    <3> HIDE DEF r
    <3>1. r \in Nat /\ 1 \in 0 .. N - 1
      BY <1>1, <1>3
    <3>2. (r + 1) % N = IF (r % N) + 1 < N THEN (r % N) + 1 ELSE ((r % N) + 1) - N
      BY <3>1, ModDistance
    <3> QED BY <3>2, <2>2
  <2> QED BY <2>1, <2>3
<1> QED BY <1>2, <1>3

\* Two counts at one position are whole turns apart.
LEMMA ModAligned ==
    ASSUME NEW N \in Nat \ {0}, NEW a \in Nat, NEW b \in Nat, a <= b, a % N = b % N
    PROVE  (b - a) % N = 0
<1> DEFINE p == a \div N
           q == b \div N
           r == a % N
<1>1. /\ p \in Nat /\ q \in Nat /\ r \in 0 .. N - 1
      /\ a = (N * p) + r /\ b = (N * q) + r
  BY DivMod
<1> HIDE DEF p, q, r
<1>2. p <= q
  <2> SUFFICES ASSUME q + 1 <= p PROVE FALSE
    BY <1>1
  <2>1. PICK e \in Nat : p = q + (e + 1)
    <3>1. p - (q + 1) \in Nat /\ p = q + ((p - (q + 1)) + 1)
      BY <1>1
    <3> QED
      BY <3>1
  <2>2. N * p = (N * q) + ((N * e) + N) /\ N * e \in Nat /\ N * q \in Nat
    BY <1>1, <2>1
  <2> QED
    BY <1>1, <2>2
<1>3. PICK d \in Nat : q = p + d
  <2>1. q - p \in Nat /\ q = p + (q - p)
    BY <1>1, <1>2
  <2> QED
    BY <2>1
<1>4. N * q = (N * p) + (N * d) /\ N * p \in Nat /\ N * d \in Nat
  BY <1>1, <1>3
<1>5. b - a = (N * d) + 0
  BY <1>1, <1>4
<1>6. 0 \in 0 .. N - 1
  OBVIOUS
<1> QED
  BY <1>5, <1>6, ModOfTurns

\* Different counts less than one turn apart have different positions.
LEMMA ModDistinct ==
    ASSUME NEW N \in Nat \ {0}, NEW a \in Nat, NEW b \in Nat,
           a # b, b - a < N, a - b < N
    PROVE  a % N # b % N
<1> DEFINE ra == a % N
           rb == b % N
<1>0. ra \in 0 .. N - 1 /\ rb \in 0 .. N - 1
  BY DivMod
<1>1. CASE a < b
  <2> DEFINE d == b - a
  <2>1. d \in 0 .. N - 1 /\ b = a + d /\ d > 0
    BY <1>1
  <2> HIDE DEF d
  <2>2. rb = IF ra + d < N THEN ra + d ELSE (ra + d) - N
    BY <2>1, ModDistance
  <2> HIDE DEF ra, rb
  <2>3. ra # rb
    BY <2>2, <2>1, <1>0
  <2> QED BY <2>3 DEF ra, rb
<1>2. CASE b < a
  <2> DEFINE d == a - b
  <2>1. d \in 0 .. N - 1 /\ a = b + d /\ d > 0
    BY <1>2
  <2> HIDE DEF d
  <2>2. ra = IF rb + d < N THEN rb + d ELSE (rb + d) - N
    BY <2>1, ModDistance
  <2> HIDE DEF ra, rb
  <2>3. ra # rb
    BY <2>2, <2>1, <1>0
  <2> QED BY <2>3 DEF ra, rb
<1> QED BY <1>1, <1>2
-----------------------------------------------------------------------------
(* The least element of a set of naturals, as find_first_zero_bit returns it. *)

Before == {ss \in Nat \X Nat : ss[1] < ss[2]}

\* Every nonempty set of naturals has a least element.
LEMMA LeastElement ==
    ASSUME NEW S \in SUBSET Nat, S # {}
    PROVE  \E n \in S : \A m \in S : n <= m
<1>1. IsWellFoundedOn(Before, Nat)
  BY ONLY NatLessThanWellFounded, Zenon DEF OpToRel, Before
<1>2. \E x \in S : \A y \in S : <<y, x>> \notin Before
  BY <1>1, WFMin
<1>3. PICK x \in S : \A y \in S : <<y, x>> \notin Before
  BY <1>2
<1>4. ASSUME NEW y \in S PROVE x <= y
  <2>1. y < x => <<y, x>> \in Before
    BY x \in Nat, y \in Nat DEF Before
  <2> QED
    BY <2>1, <1>3, x \in Nat, y \in Nat
<1> QED
  BY <1>4

-----------------------------------------------------------------------------
(* Sums of multiples, and lists.                                           *)

LEMMA Aligned ==
    ASSUME NEW P \in Nat \ {0}, NEW a \in Nat, NEW b \in Nat, a % P = 0, b % P = 0
    PROVE  (a + b) % P = 0
<1>1. a = P * (a \div P) + 0 /\ a \div P \in Nat
  BY DivMod
<1>2. b = P * (b \div P) + 0 /\ b \div P \in Nat
  BY DivMod
<1> DEFINE q == (a \div P) + (b \div P)
<1>3. q \in Nat /\ a + b = P * q + 0
  BY <1>1, <1>2
<1> HIDE DEF q
<1>4. 0 \in 0 .. P - 1
  OBVIOUS
<1>5. (P * q + 0) % P = 0
  BY <1>3, <1>4, ModOfTurns
<1> QED
  BY <1>3, <1>5

\* A function that never decreases from one argument to the next never
\* decreases at all.
LEMMA Monotone ==
    ASSUME NEW n \in Nat, NEW g \in [0 .. n -> Int],
           \A j \in 1 .. n : g[j - 1] <= g[j],
           NEW i \in 0 .. n, NEW j \in 0 .. n, i <= j
    PROVE  g[i] <= g[j]
<1> DEFINE S == {k \in i .. n : g[k] < g[i]}
<1>1. SUFFICES ASSUME S # {} PROVE FALSE
  <2>1. j \notin S
    BY <1>1
  <2> QED
    BY <2>1
<1>2. PICK k \in S : \A m \in S : k <= m
  <2>1. S \in SUBSET Nat
    OBVIOUS
  <2> QED
    BY <1>1, <2>1, LeastElement
<1>3. k # i /\ k \in 1 .. n /\ k - 1 \in i .. n
  OBVIOUS
<1>4. k - 1 \notin S
  BY <1>2, <1>3
<1> QED
  BY <1>2, <1>3, <1>4

\* The list with an entry put after the k-th.
Inserted(s, k, e) == SubSeq(s, 1, k) \o <<e>> \o SubSeq(s, k + 1, Len(s))

LEMMA ListInsert ==
    ASSUME NEW S, NEW s \in Seq(S), NEW k \in 0 .. Len(s), NEW e \in S
    PROVE  /\ Inserted(s, k, e) \in Seq(S)
           /\ Len(Inserted(s, k, e)) = Len(s) + 1
           /\ \A j \in 1 .. Len(s) + 1 : Inserted(s, k, e)[j] =
                 IF j <= k THEN s[j] ELSE IF j = k + 1 THEN e ELSE s[j - 1]
<1> DEFINE a == SubSeq(s, 1, k)
           b == SubSeq(s, k + 1, Len(s))
<1>0. Len(s) \in Nat /\ \A i \in 1 .. Len(s) : s[i] \in S
  OBVIOUS
<1>1. /\ a \in Seq(S) /\ Len(a) = k
      /\ \A i \in 1 .. k : a[i] = s[i]
  <2>1. \A i \in 1 .. k : s[i] \in S
    BY <1>0
  <2>2. /\ a \in Seq(S) /\ Len(a) = IF 1 <= k THEN k - 1 + 1 ELSE 0
        /\ \A i \in 1 .. k - 1 + 1 : a[i] = s[1 + i - 1]
    BY <2>1, SubSeqProperties
  <2> QED
    BY <2>2
<1>2. /\ b \in Seq(S) /\ Len(b) = Len(s) - k
      /\ \A i \in 1 .. Len(s) - k : b[i] = s[k + i]
  <2>1. \A i \in k + 1 .. Len(s) : s[i] \in S
    BY <1>0
  <2>2. /\ b \in Seq(S) /\ Len(b) = IF k + 1 <= Len(s) THEN Len(s) - (k + 1) + 1 ELSE 0
        /\ \A i \in 1 .. Len(s) - (k + 1) + 1 : b[i] = s[(k + 1) + i - 1]
    BY <1>0, <2>1, SubSeqProperties
  <2> QED
    BY <1>0, <2>2
<1> DEFINE c == a \o <<e>>
<1>3. /\ c \in Seq(S) /\ Len(c) = k + 1
      /\ \A i \in 1 .. k + 1 : c[i] = IF i <= k THEN s[i] ELSE e
  <2>1. <<e>> \in Seq(S) /\ Len(<<e>>) = 1 /\ <<e>>[1] = e
    OBVIOUS
  <2> HIDE DEF a
  <2>2. /\ c \in Seq(S) /\ Len(c) = Len(a) + 1
        /\ \A i \in 1 .. Len(a) + 1 : c[i] = IF i <= Len(a) THEN a[i] ELSE <<e>>[i - Len(a)]
    BY <1>1, <2>1, ConcatProperties
  <2>3. ASSUME NEW i \in 1 .. k + 1, ~(i <= k) PROVE i - Len(a) = 1
    BY <1>1, <2>3
  <2> QED
    BY <1>1, <2>1, <2>2, <2>3
<1> HIDE DEF b, c
<1>4. /\ c \o b \in Seq(S) /\ Len(c \o b) = Len(c) + Len(b)
      /\ \A i \in 1 .. Len(c) + Len(b) :
            (c \o b)[i] = IF i <= Len(c) THEN c[i] ELSE b[i - Len(c)]
  BY <1>2, <1>3, ConcatProperties
<1>5. Inserted(s, k, e) = c \o b
  BY DEF Inserted, c, b
<1> DEFINE d == c \o b
<1> HIDE DEF d
<1>7. /\ d \in Seq(S) /\ Len(d) = Len(s) + 1 /\ d = Inserted(s, k, e)
      /\ \A i \in 1 .. Len(s) + 1 : d[i] = IF i <= k + 1 THEN c[i] ELSE b[i - (k + 1)]
  BY <1>0, <1>2, <1>3, <1>4, <1>5 DEF d
<1>6. ASSUME NEW j \in 1 .. Len(s) + 1
      PROVE  d[j] = IF j <= k THEN s[j] ELSE IF j = k + 1 THEN e ELSE s[j - 1]
  <2>1. CASE j <= k + 1
    <3>1. j \in 1 .. k + 1
      BY <2>1
    <3>2. d[j] = c[j]
      BY <2>1, <1>7
    <3>3. c[j] = IF j <= k THEN s[j] ELSE e
      BY <3>1, <1>3
    <3> QED
      BY <2>1, <3>2, <3>3
  <2>2. CASE j > k + 1
    <3>1. j - (k + 1) \in 1 .. Len(s) - k /\ k + (j - (k + 1)) = j - 1
      BY <2>2, <1>0
    <3>2. d[j] = b[j - (k + 1)]
      BY <2>2, <1>7
    <3>3. b[j - (k + 1)] = s[k + (j - (k + 1))]
      BY <3>1, <1>2
    <3> QED
      BY <2>2, <3>1, <3>2, <3>3
  <2> QED
    BY <2>1, <2>2, <1>0
<1> QED
  BY <1>6, <1>7

\* The list without its k-th entry.
Removed(s, k) == SubSeq(s, 1, k - 1) \o SubSeq(s, k + 1, Len(s))

LEMMA ListRemove ==
    ASSUME NEW S, NEW s \in Seq(S), NEW k \in 1 .. Len(s)
    PROVE  /\ Removed(s, k) \in Seq(S)
           /\ Len(Removed(s, k)) = Len(s) - 1
           /\ \A j \in 1 .. Len(s) - 1 :
                 Removed(s, k)[j] = IF j < k THEN s[j] ELSE s[j + 1]
<1> DEFINE a == SubSeq(s, 1, k - 1)
           b == SubSeq(s, k + 1, Len(s))
<1>0. Len(s) \in Nat /\ \A i \in 1 .. Len(s) : s[i] \in S
  OBVIOUS
<1>1. /\ a \in Seq(S) /\ Len(a) = k - 1
      /\ \A i \in 1 .. k - 1 : a[i] = s[i]
  <2>1. \A i \in 1 .. k - 1 : s[i] \in S
    BY <1>0
  <2>2. /\ a \in Seq(S) /\ Len(a) = IF 1 <= k - 1 THEN (k - 1) - 1 + 1 ELSE 0
        /\ \A i \in 1 .. (k - 1) - 1 + 1 : a[i] = s[1 + i - 1]
    BY <2>1, <1>0, SubSeqProperties
  <2> QED
    BY <2>2, <1>0
<1>2. /\ b \in Seq(S) /\ Len(b) = Len(s) - k
      /\ \A i \in 1 .. Len(s) - k : b[i] = s[k + i]
  <2>1. \A i \in k + 1 .. Len(s) : s[i] \in S
    BY <1>0
  <2>2. /\ b \in Seq(S) /\ Len(b) = IF k + 1 <= Len(s) THEN Len(s) - (k + 1) + 1 ELSE 0
        /\ \A i \in 1 .. Len(s) - (k + 1) + 1 : b[i] = s[(k + 1) + i - 1]
    BY <1>0, <2>1, SubSeqProperties
  <2> QED
    BY <1>0, <2>2
<1> HIDE DEF Removed, a, b
<1>3. /\ a \o b \in Seq(S) /\ Len(a \o b) = Len(a) + Len(b)
      /\ \A i \in 1 .. Len(a) + Len(b) :
            (a \o b)[i] = IF i <= Len(a) THEN a[i] ELSE b[i - Len(a)]
  BY <1>1, <1>2, ConcatProperties
<1>4. Removed(s, k) = a \o b
  BY DEF Removed, a, b
<1> DEFINE d == a \o b
<1> HIDE DEF d
<1>6. /\ d \in Seq(S) /\ Len(d) = Len(s) - 1 /\ d = Removed(s, k)
      /\ \A i \in 1 .. Len(s) - 1 : d[i] = IF i <= k - 1 THEN a[i] ELSE b[i - (k - 1)]
  BY <1>0, <1>1, <1>2, <1>3, <1>4 DEF d
<1>5. ASSUME NEW j \in 1 .. Len(s) - 1
      PROVE  d[j] = IF j < k THEN s[j] ELSE s[j + 1]
  <2>1. CASE j < k
    BY <2>1, <1>0, <1>1, <1>6
  <2>2. CASE j >= k
    <3>1. j - (k - 1) \in 1 .. Len(s) - k /\ k + (j - (k - 1)) = j + 1
      BY <2>2, <1>0
    <3> QED
      BY <2>2, <3>1, <1>0, <1>2, <1>6
  <2> QED
    BY <2>1, <2>2, <1>0
<1> QED
  BY <1>5, <1>6
=============================================================================
