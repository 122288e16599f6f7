----------------------------- MODULE UmmBitOps -----------------------------
(***************************************************************************)
(* The bit map arithmetic of the user memory manager (umm/files/bit_ops.c):*)
(* the search for a run of free blocks and the update of the map.          *)
(*                                                                         *)
(* A bit map is the set of the numbers of its 1 bits (the blocks in use).  *)
(* The code walks it one unsigned int at a time, and its special cases are *)
(* about the borders of those ints, so the width stays a parameter.        *)
(***************************************************************************)
EXTENDS Integers, FiniteSetsExt

CONSTANT BITS_IN_INT        \* 32 in the code

ASSUME WidthAssumption == BITS_IN_INT \in Nat \ {0}

Bits == 0 .. BITS_IN_INT - 1

\* The difference of two unsigned ints, which wraps.
USub(a, b) == (a - b) % (2 ^ BITS_IN_INT)

\* The int of bit map bmap that holds its bits from map * BITS_IN_INT on.
Word(bmap, map) == {i \in Bits : map * BITS_IN_INT + i \in bmap}

ShiftRight(val, n) == {i \in Bits : i + n \in val}

\* BIT_MASK(n), the n low bits, for n in 1 .. BITS_IN_INT
BIT_MASK(n) == 0 .. n - 1

\* How many zeroes follow bit number from, counting at most max_bits - from.
ctz(val, from, max_bits) ==
    Max({k \in 0 .. USub(max_bits, from) :
            \A i \in 0 .. k - 1 : i \notin ShiftRight(val, from)})

count_trailing_ones(val, max_bits) == ctz(Bits \ val, 0, max_bits)

\* The first zero of val at or above bit from; BITS_IN_INT when there is none
\* in a full int, max_bits when there is none in the last, shorter, one.
ffz(val, from, max_bits) ==
    IF from >= BITS_IN_INT \/ max_bits > BITS_IN_INT THEN BITS_IN_INT
    ELSE IF val = {} THEN 0
    ELSE IF val = Bits THEN BITS_IN_INT
    ELSE count_trailing_ones(ShiftRight(val, from), USub(max_bits, from)) + from

\* Where the search stands: in which int of the map, from which of its bits on
\* (ret on entry to ffz), and how many zeroes end the int before
\* (contig_free_blks).
LastInt(max_bits) == (max_bits - 1) \div BITS_IN_INT
Cursors(max_bits) ==
    [map : 0 .. LastInt(max_bits) + 1, from : 0 .. BITS_IN_INT, contig : 0 .. max_bits]

Start == [map |-> 0, from |-> 0, contig |-> 0]
NextInt(at, contig) == [map |-> at.map + 1, from |-> 0, contig |-> contig]
NextBit(at, ret) == [map |-> at.map, from |-> ret + 1, contig |-> 0]

\* The next zero of the int the cursor is in.
NextZero(bmap, max_bits, at) ==
    ffz(Word(bmap, at.map), at.from,
        Min({BITS_IN_INT, max_bits - at.map * BITS_IN_INT}))

\* The n bits of the cursor's int from ret on are zeroes.
Zeroes(bmap, at, ret, n) == ShiftRight(Word(bmap, at.map), ret) \cap BIT_MASK(n) = {}

\* The run carried from the int before is kept when this one has no zero in it.
FindKeepsCarry(bmap, cnt, max_bits) ==
    LET scan[at \in Cursors(max_bits)] ==
            IF at.map > LastInt(max_bits) THEN max_bits
            ELSE LET ret == NextZero(bmap, max_bits, at)
                     Free(n) == Zeroes(bmap, at, ret, n)
                 IN  CASE ret >= BITS_IN_INT -> scan[NextInt(at, at.contig)]
                       [] ret < BITS_IN_INT /\ at.contig > 0 /\ ret > 0 -> scan[NextBit(at, ret)]
                       [] ret < BITS_IN_INT /\ (at.contig = 0 \/ ret = 0) ->
                            IF ret + cnt - at.contig > BITS_IN_INT
                            THEN IF Free(BITS_IN_INT - ret)
                                 THEN scan[NextInt(at, at.contig + BITS_IN_INT - ret)]
                                 ELSE scan[NextBit(at, ret)]
                            ELSE IF Free(cnt - at.contig)
                                 THEN at.map * BITS_IN_INT + ret - at.contig
                                 ELSE scan[NextBit(at, ret)]
    IN  scan[Start]

(***************************************************************************)
(* The number of the first bit of a run of cnt zeroes, or at least         *)
(* max_bits when the search finds none.  One step of scan is one pass      *)
(* through the inner loop.                                                 *)
(***************************************************************************)
find_zero_bits(bmap, cnt, max_bits) ==
    LET scan[at \in Cursors(max_bits)] ==
            IF at.map > LastInt(max_bits) THEN max_bits
            ELSE LET ret == NextZero(bmap, max_bits, at)
                     Free(n) == Zeroes(bmap, at, ret, n)
                 IN  CASE ret >= BITS_IN_INT -> scan[NextInt(at, 0)]
                       [] ret < BITS_IN_INT /\ at.contig > 0 /\ ret > 0 -> scan[NextBit(at, ret)]
                       [] ret < BITS_IN_INT /\ (at.contig = 0 \/ ret = 0) ->
                            IF ret + cnt - at.contig > BITS_IN_INT
                            THEN IF Free(BITS_IN_INT - ret)
                                 THEN scan[NextInt(at, at.contig + BITS_IN_INT - ret)]
                                 ELSE scan[NextBit(at, ret)]
                            ELSE IF Free(cnt - at.contig)
                                 THEN at.map * BITS_IN_INT + ret - at.contig
                                 ELSE scan[NextBit(at, ret)]
    IN  scan[Start]

\* Sets or clears the cnt bits from start on, one int at a time: the piece of
\* the int that the first of the remaining bits is in, and then the rest.
update_bit_map(bmap, start, cnt, is_set) ==
    LET rest[done \in 0 .. cnt] ==
            IF done = cnt THEN {}
            ELSE LET ofs == (start + done) % BITS_IN_INT
                     temp == cnt - done
                     bits == IF temp + ofs > BITS_IN_INT THEN BITS_IN_INT - ofs ELSE temp
                 IN  {start + done + i : i \in BIT_MASK(bits)} \cup rest[done + bits]
    IN  IF is_set THEN bmap \cup rest[0] ELSE bmap \ rest[0]

set_bit_map(bmap, start, cnt) == update_bit_map(bmap, start, cnt, TRUE)
clear_bit_map(bmap, start, cnt) == update_bit_map(bmap, start, cnt, FALSE)

-----------------------------------------------------------------------------
(* What the functions are for, written without ints or loops.              *)

Run(start, cnt) == start .. start + cnt - 1

FreeRuns(bmap, cnt, max_bits) ==
    {b \in 0 .. max_bits - cnt : Run(b, cnt) \cap bmap = {}}

\* The first fit, max_bits when nothing fits.
FirstFit(bmap, cnt, max_bits) ==
    IF FreeRuns(bmap, cnt, max_bits) = {} THEN max_bits
    ELSE Min(FreeRuns(bmap, cnt, max_bits))
=============================================================================
