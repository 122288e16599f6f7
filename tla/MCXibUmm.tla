------------------------------ MODULE MCXibUmm ------------------------------
(* Two threads of one application on the user memory manager.              *)
EXTENDS XibUmm, TLC

CONSTANTS t1, t2

\* The threads are interchangeable.
ThreadSymmetry == Permutations(Threads)

\* Pieces of memory that xib_umem_alloc_mem gave out never overlap and lie inside
\* their chunk, whichever threads asked for them.
GrantsSound == UmmTypeOK /\ GrantsDisjoint /\ GrantInsideChunk

\* The list of chunks is whole, and the bit map and the count of free blocks of
\* each chunk are those of the memory the application holds.
ListsExact == BlockCountExact /\ ListWhole

\* No call of the library works on a chunk that another freed, and the kernel
\* never gets back a chunk whose memory is held.
ChunkStays == NoUseAfterFree /\ InUseChunkStays
=============================================================================
