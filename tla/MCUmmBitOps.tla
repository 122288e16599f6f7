---------------------------- MODULE MCUmmBitOps ----------------------------
(***************************************************************************)
(* Every bit map of up to MaxBits blocks and every request on it: a search *)
(* (reserve_mem_blocks), the marking of what it found, and its release.    *)
(***************************************************************************)
EXTENDS UmmBitOps

CONSTANT MaxBits            \* the longest map

ASSUME MaxBitsAssumption == MaxBits \in Nat

VARIABLES bmap,             \* the map the request meets
          cnt, max_bits,    \* the request
          ret,              \* what the search returned
          marked,           \* the map after set_bit_map
          pc

bitVars == <<bmap, cnt, max_bits, ret, marked, pc>>

BitsInit == /\ max_bits \in 1 .. MaxBits
            /\ bmap \in SUBSET (0 .. max_bits - 1)
            /\ cnt \in 1 .. max_bits
            /\ ret = max_bits
            /\ marked = bmap
            /\ pc = "search"

Search == /\ pc = "search"
          /\ ret' = find_zero_bits(bmap, cnt, max_bits)
          /\ pc' = IF ret' < max_bits THEN "mark" ELSE "refused"
          /\ UNCHANGED <<bmap, cnt, max_bits, marked>>

Mark == /\ pc = "mark"
        /\ marked' = set_bit_map(bmap, ret, cnt)
        /\ pc' = "marked"
        /\ UNCHANGED <<bmap, cnt, max_bits, ret>>

Release == /\ pc = "marked"
           /\ marked' = clear_bit_map(marked, ret, cnt)
           /\ pc' = "released"
           /\ UNCHANGED <<bmap, cnt, max_bits, ret>>

BitsNext == Search \/ Mark \/ Release

\* find_zero_bits: the run it returns has no block in use, also when it crosses
\* from one int of the map into the next (the carry contig_free_blks).
FoundRunIsFree == pc = "mark" => Run(ret, cnt) \cap bmap = {}

\* find_zero_bits for one block is the first fit, in every map: a free block is
\* found wherever it is and a full map is refused, the short last int included.
SingleBlockExact ==
    (cnt = 1 /\ pc # "search") => Min({ret, max_bits}) = FirstFit(bmap, 1, max_bits)

\* find_zero_bits on a map of exactly one int is the first fit for every count.
OneIntFirstFit ==
    (max_bits = BITS_IN_INT /\ pc # "search") => ret = FirstFit(bmap, cnt, max_bits)

\* set_bit_map and clear_bit_map: the int by int update marks exactly the run
\* asked for, and releasing a run gives back the map the request met.
UpdateExact ==
    /\ pc = "marked" => marked = bmap \cup Run(ret, cnt)
    /\ pc = "released" => marked = bmap
=============================================================================
