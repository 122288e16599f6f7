------------------------------ MODULE MCXibKmm ------------------------------
(***************************************************************************)
(* Two processes and a kernel module on one small memory region and, for   *)
(* every small bit map, the bit operations of the user memory manager; a   *)
(* behaviour is one of the two.                                            *)
(***************************************************************************)
EXTENDS XibKmm, MCUmmBitOps

CONSTANTS p1, p2, kern

VARIABLE part       \* "kmm" or "bits"

PartsInit ==
    /\ Init
    /\ \/ /\ part = "kmm" /\ bmap = {} /\ cnt = 0 /\ max_bits = 0 /\ ret = 0
          /\ marked = {} /\ pc = "off"
       \/ part = "bits" /\ BitsInit

PartsNext ==
    \/ part = "kmm" /\ Next /\ UNCHANGED <<part, bitVars>>
    \/ part = "bits" /\ BitsNext /\ UNCHANGED <<part, vars>>
    \/ pc \in {"refused", "released"} /\ UNCHANGED <<part, vars, bitVars>>

PartsSpec == PartsInit /\ [][PartsNext]_<<part, vars, bitVars>>

\* The processes are interchangeable.
Symmetry == Permutations(Procs)
-----------------------------------------------------------------------------
\* The list of chunks is sound: an id names one chunk of one holder, the chunks
\* never share an address, and available_size is what they leave of the region.
ListSound == TypeOK /\ AvailableExact /\ IdNamesOneChunk /\ ChunksDisjoint

\* find_zero_bits finds a free run, and the first one wherever the code promises
\* it; set_bit_map and clear_bit_map change that run and nothing else.
BitMapExact ==
    part = "bits" => /\ FoundRunIsFree /\ SingleBlockExact
                     /\ OneIntFirstFit /\ UpdateExact
=============================================================================
