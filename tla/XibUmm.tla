------------------------------- MODULE XibUmm -------------------------------
(***************************************************************************)
(* The user memory manager (recipes-apps/umm/files/umm.c) inside one       *)
(* process: the list of memory chunks the process got from the kernel      *)
(* memory manager, and the blocks it hands out of them.                    *)
(*                                                                         *)
(* Threads call alloc_chunk, alloc_mem, free_mem and free_chunk.  A call   *)
(* takes ctx->lock several times and works unlocked in between: every      *)
(* stretch between two unlocks is one action, so the model has the steps   *)
(* of two calls in every order the mutex allows.  The chunks are all of    *)
(* one memory type (the types share nothing but the mutex).                *)
(***************************************************************************)
EXTENDS UmmBitOps

CONSTANTS
    Threads,
    Chunks,         \* the chunk ids the kernel hands out, one after the other
    ChunkSize,      \* total_size of a chunk, a whole number of pages
    BlkSize,        \* its blk_size
    MemSizes,       \* the sizes alloc_mem is asked for
    MapMayFail      \* calloc or mmap may fail in update_umem_table

ASSUME UmmAssumption ==
    /\ IsFiniteSet(Chunks)
    /\ Chunks = 1 .. Cardinality(Chunks)
    /\ {ChunkSize, BlkSize} \subseteq Nat \ {0}
    /\ MemSizes \subseteq Nat \ {0}
    /\ MapMayFail \in BOOLEAN

Null == 0           \* the NULL pointer

VARIABLES
    head, tail,     \* ctx->xib_umem_chunk[type] and ctx->prev[type]
    next,           \* chunk->next
    chunk,          \* the heap objects: state, bmap, free_blks
    issued,         \* the last chunk id the kernel handed out
    kernel,         \* the chunks the kernel memory manager holds for this process
    grants,         \* the memory the application got and has not given back
    call,           \* what each thread is executing
    uaf,            \* a chunk was used after its free()
    overlap           \* history: a free_chunk ran beside a call it does not exclude

ummVars == <<head, tail, next, chunk, issued, kernel, grants, call, uaf, overlap>>
chunkList == <<head, tail, next>>

\* Rounding down: the last, partly used, block is not counted.
SizeToWholeBlocks(ts, bs) == IF ts < bs THEN 1 ELSE ts \div bs

\* How many blocks of bs bytes hold ts bytes
SIZE_TO_BLOCKS(ts, bs) == (ts + bs - 1) \div bs

max_blks == SIZE_TO_BLOCKS(ChunkSize, BlkSize)

Idle == [pc |-> "idle"]

\* Thread t is about to do this, in a process of which something can be said.
At(t, where) == ~uaf /\ call[t].pc = where

Return(t) == call' = [call EXCEPT ![t] = Idle]
Goto(t, where) == call' = [call EXCEPT ![t].pc = where]

UmmInit == /\ head = Null /\ tail = Null
        /\ next = [c \in Chunks |-> Null]
        /\ chunk = [c \in Chunks |-> [state |-> "none", bmap |-> {}, free_blks |-> 0]]
        /\ issued = 0
        /\ kernel = {} /\ grants = {}
        /\ call = [t \in Threads |-> Idle]
        /\ uaf = FALSE /\ overlap = FALSE

-----------------------------------------------------------------------------
(* Looking a chunk up                                                      *)

\* The chunks a walk from the given one passes, itself first.
WalkFrom(from) ==
    LET step[i \in 0 .. Cardinality(Chunks)] ==
            IF i = 0 THEN from
            ELSE IF step[i - 1] = Null THEN Null ELSE next[step[i - 1]]
    IN  {step[i] : i \in DOMAIN step} \ {Null}

\* The chunks get_chunk_info finds
Listed == WalkFrom(head)

is_chunk_in_use(c) == chunk[c].free_blks # max_blks

chunk_has_mem(c, blk_cnt) == blk_cnt <= max_blks /\ blk_cnt <= chunk[c].free_blks

is_vaddr_within_range(ofs, size) == ofs + size <= ChunkSize

Freeing(t) == call[t].pc \in {"in_use", "ioctl_free", "delete", "unlink"}

\* Thread t starts a call on chunk c, frees tells whether free_chunk, while
\* another thread frees a chunk and one of the two matters to the other: both
\* free, or both work on the same chunk.
NoteOverlap(t, c, frees) ==
    overlap' = (overlap \/ \E u \in Threads \ {t} :
                /\ call[u].pc # "idle"
                /\ Freeing(u) \/ frees
                /\ call[u].c = c \/ (Freeing(u) /\ frees))

\* The thread holds a pointer to memory that was given back with free(): what
\* it does next is undefined.  The model notes it and goes no further.
UseAfterFree(t) ==
    /\ uaf' = TRUE
    /\ Return(t)
    /\ UNCHANGED <<chunkList, chunk, issued, kernel, grants, overlap>>

-----------------------------------------------------------------------------
(* xib_umem_alloc_chunk                                                    *)

\* request_memory: the ioctl that makes the kernel set a chunk aside.
RequestMemory(t) ==
    /\ At(t, "idle")
    /\ issued + 1 \in Chunks
    /\ issued' = issued + 1
    /\ kernel' = kernel \cup {issued'}
    /\ call' = [call EXCEPT ![t] = [pc |-> "update_table", c |-> issued']]
    /\ UNCHANGED <<chunkList, chunk, grants, uaf, overlap>>

\* The new chunk is not linked behind the chunks that are there.
AppendAtHead(c) == /\ head' = c /\ tail' = c /\ UNCHANGED next

\* Links the chunk at the end of the list.
AppendToList(c) ==
    /\ head' = IF head = Null THEN c ELSE head
    /\ next' = IF head = Null THEN next ELSE [next EXCEPT ![tail] = c]
    /\ tail' = c

\* update_umem_table: the process's own record of the chunk.
UpdateUmemTable(t) ==
    LET c == call[t].c
    IN  /\ At(t, "update_table")
        /\ \/ IF head # Null /\ chunk[tail].state = "freed"
              THEN UseAfterFree(t)
              ELSE /\ chunk' = [chunk EXCEPT ![c] =
                            [state |-> "live", bmap |-> {}, free_blks |-> max_blks]]
                   /\ AppendToList(c)
                   /\ Return(t)
                   /\ UNCHANGED <<issued, kernel, grants, uaf, overlap>>
           \/ /\ MapMayFail
              /\ Return(t)
              /\ UNCHANGED <<chunkList, chunk, issued, kernel, grants, uaf, overlap>>

-----------------------------------------------------------------------------
(* xib_umem_alloc_mem                                                      *)

AllocMem(t, c, size) ==
    /\ At(t, "idle")
    /\ c \in Listed
    /\ call' = [call EXCEPT ![t] = [pc |-> "reserve", c |-> c, size |-> size]]
    /\ NoteOverlap(t, c, FALSE)
    /\ UNCHANGED <<chunkList, chunk, issued, kernel, grants, uaf>>

\* reserve_mem_blocks and the checks around it, under the mutex
ReserveMemBlocks(t) ==
    LET c == call[t].c
        blk_cnt == SIZE_TO_BLOCKS(call[t].size, BlkSize)
        bit_num == find_zero_bits(chunk[c].bmap, blk_cnt, max_blks)
    IN  /\ At(t, "reserve")
        /\ IF chunk[c].state = "freed" THEN UseAfterFree(t)
           ELSE /\ Return(t)
                /\ IF chunk_has_mem(c, blk_cnt) /\ bit_num < max_blks
                   THEN /\ chunk' = [chunk EXCEPT
                                ![c].bmap = set_bit_map(@, bit_num, blk_cnt),
                                ![c].free_blks = @ - blk_cnt]
                        /\ grants' = grants \cup
                             {[c |-> c, ofs |-> bit_num * BlkSize,
                               size |-> call[t].size]}
                   ELSE UNCHANGED <<chunk, grants>>
                /\ UNCHANGED <<chunkList, issued, kernel, uaf, overlap>>

-----------------------------------------------------------------------------
(* xib_umem_free_mem                                                       *)

\* The application gives a piece of memory back once.
FreeMem(t, g) ==
    /\ At(t, "idle")
    /\ \A u \in Threads : call[u].pc = "clear" => call[u].g # g
    /\ g.c \in Listed
    /\ is_vaddr_within_range(g.ofs, g.size)
    /\ call' = [call EXCEPT ![t] = [pc |-> "clear", c |-> g.c, g |-> g]]
    /\ NoteOverlap(t, g.c, FALSE)
    /\ UNCHANGED <<chunkList, chunk, issued, kernel, grants, uaf>>

\* The chunk with the blocks of g given back
BlocksReleased(c, g) ==
    [chunk[c] EXCEPT !.bmap = clear_bit_map(@, SIZE_TO_BLOCKS(g.ofs, BlkSize),
                                            SIZE_TO_BLOCKS(g.size, BlkSize)),
                     !.free_blks = @ + SIZE_TO_BLOCKS(g.size, BlkSize)]

ClearMemBlocks(t) ==
    LET c == call[t].c
    IN  /\ At(t, "clear")
        /\ IF chunk[c].state = "freed" THEN UseAfterFree(t)
           ELSE /\ chunk' = [chunk EXCEPT ![c] = BlocksReleased(c, call[t].g)]
                /\ grants' = grants \ {call[t].g}
                /\ Return(t)
                /\ UNCHANGED <<chunkList, issued, kernel, uaf, overlap>>

-----------------------------------------------------------------------------
(* xib_umem_free_chunk                                                     *)

FreeChunk(t, c) ==
    /\ At(t, "idle")
    /\ c \in Listed
    /\ call' = [call EXCEPT ![t] = [pc |-> "in_use", c |-> c]]
    /\ NoteOverlap(t, c, TRUE)
    /\ UNCHANGED <<chunkList, chunk, issued, kernel, grants, uaf>>

\* The check is skipped.
NoInUseCheck(t) ==
    /\ At(t, "in_use")
    /\ Goto(t, "ioctl_free")
    /\ UNCHANGED <<chunkList, chunk, issued, kernel, grants, uaf, overlap>>

\* "Chunk is being in use. Can't be freed", decided without the mutex
CheckInUse(t) ==
    LET c == call[t].c
    IN  /\ At(t, "in_use")
        /\ IF chunk[c].state = "freed" THEN UseAfterFree(t)
           ELSE /\ IF is_chunk_in_use(c) THEN Return(t) ELSE Goto(t, "ioctl_free")
                /\ UNCHANGED <<chunkList, chunk, issued, kernel, grants, uaf, overlap>>

\* XMM_FREE_OPC: the kernel takes the memory back.  The ioctl reports success
\* even when the kernel has no such chunk.
IoctlFree(t) ==
    /\ At(t, "ioctl_free")
    /\ kernel' = kernel \ {call[t].c}
    /\ Goto(t, "delete")
    /\ UNCHANGED <<chunkList, chunk, issued, grants, uaf, overlap>>

\* delete_chunk reads the head of the list before it takes the mutex.
ReadListHead(t) ==
    LET c == call[t].c
    IN  /\ At(t, "delete")
        /\ IF chunk[c].state = "freed" THEN UseAfterFree(t)
           ELSE /\ IF head = Null THEN Return(t)
                   ELSE call' = [call EXCEPT ![t] =
                                    [pc |-> "unlink", c |-> c, iter |-> head]]
                /\ UNCHANGED <<chunkList, chunk, issued, kernel, grants, uaf, overlap>>

Prev(c) == CHOOSE d \in Listed : next[d] = c

\* Takes chunk c out of the list: the head, the link before it, the tail.
Unlink(c) ==
    /\ head' = IF c = head THEN next[c] ELSE head
    /\ next' = IF c = head THEN next ELSE [next EXCEPT ![Prev(c)] = next[c]]
    /\ tail' = CASE c = head /\ next[c] = Null -> Null
                 [] c # head /\ c = tail       -> Prev(c)
                 [] OTHER                      -> tail

\* The rest of delete_chunk, under the mutex: the walk starts where the head was.
DeleteChunk(t) ==
    LET c == call[t].c
    IN  /\ At(t, "unlink")
        /\ IF chunk[call[t].iter].state = "freed" \/ chunk[c].state = "freed"
           THEN UseAfterFree(t)
           ELSE /\ IF c \in Listed
                   THEN /\ Unlink(c)
                        /\ chunk' = [chunk EXCEPT ![c].state = "freed"]
                   ELSE UNCHANGED <<chunkList, chunk>>
                /\ Return(t)
                /\ UNCHANGED <<issued, kernel, grants, uaf, overlap>>

-----------------------------------------------------------------------------
UmmNext ==
    \E t \in Threads :
        \/ RequestMemory(t) \/ UpdateUmemTable(t)
        \/ \E c \in Chunks : \E size \in MemSizes : AllocMem(t, c, size)
        \/ ReserveMemBlocks(t)
        \/ \E g \in grants : FreeMem(t, g)
        \/ ClearMemBlocks(t)
        \/ \E c \in Chunks : FreeChunk(t, c)
        \/ CheckInUse(t) \/ IoctlFree(t) \/ ReadListHead(t) \/ DeleteChunk(t)

UmmSpec == UmmInit /\ [][UmmNext]_ummVars

-----------------------------------------------------------------------------
(* Properties                                                              *)

Calls ==
    [pc : {"idle"}]
    \cup [pc : {"update_table", "in_use", "ioctl_free", "delete"}, c : Chunks]
    \cup [pc : {"reserve"}, c : Chunks, size : MemSizes]
    \cup [pc : {"clear"}, c : Chunks, g : grants]
    \cup [pc : {"unlink"}, c : Chunks, iter : Chunks]

\* The fields of the context and of its chunks hold values of their C types: no
\* count of free blocks ever wraps below 0 or grows past max_blks.
UmmTypeOK ==
    /\ {head, tail} \subseteq Chunks \cup {Null}
    /\ next \in [Chunks -> Chunks \cup {Null}]
    /\ chunk \in [Chunks -> [state : {"none", "live", "freed"},
                             bmap : SUBSET (0 .. max_blks + BITS_IN_INT),
                             free_blks : 0 .. max_blks]]
    /\ issued \in 0 .. Cardinality(Chunks)
    /\ kernel \subseteq Chunks
    /\ grants \subseteq [c : Chunks, ofs : Nat, size : MemSizes]
    /\ call \in [Threads -> Calls]
    /\ {uaf, overlap} \subseteq BOOLEAN

BlocksOf(g) == Run(SIZE_TO_BLOCKS(g.ofs, BlkSize), SIZE_TO_BLOCKS(g.size, BlkSize))

\* xib_umem_alloc_mem: two pieces of memory the application holds at the same
\* time never share an address, whichever threads asked for them and wherever
\* in the bit map they were found.
GrantsDisjoint ==
    \A g, h \in grants :
        g # h /\ g.c = h.c =>
            (g.ofs .. g.ofs + g.size - 1) \cap (h.ofs .. h.ofs + h.size - 1) = {}

\* The bit map holds exactly the blocks of the memory the application has, and
\* free_blks, on which chunk_has_mem and is_chunk_in_use decide, counts the rest.
BlockCountExact ==
    \A c \in Chunks : chunk[c].state = "live" =>
        /\ chunk[c].bmap = UNION {BlocksOf(g) : g \in {h \in grants : h.c = c}}
        /\ chunk[c].free_blks = max_blks - Cardinality(chunk[c].bmap)

\* Memory given out by xib_umem_alloc_mem lies inside its chunk, so that
\* xib_umem_free_mem never answers "Given VA & size are not in the chunk's
\* range" (umm.c:329) to the one it was given to.
GrantInsideChunk == \A g \in grants : is_vaddr_within_range(g.ofs, g.size)

\* delete_chunk and update_umem_table keep the list whole: every chunk
\* xib_umem_alloc_chunk returned is found again until it is freed, no freed one
\* is on the list, and ctx->prev points at its last element.
ListWhole ==
    /\ Listed = {c \in Chunks : chunk[c].state = "live"}
    /\ (head = Null) <=> (tail = Null)
    /\ head # Null => tail \in Listed /\ next[tail] = Null

\* No thread works on a chunk after its free() in delete_chunk, as long as two
\* calls of free_chunk do not overlap in time, nor one with another call on the
\* same chunk: other threads may allocate chunks, and memory of other chunks.
NoUseAfterFree == uaf => overlap

\* "Chunk is being in use. Can't be freed" (umm.c:165): the kernel never gets
\* back a chunk of which some thread still holds memory, under the same proviso
\* (the check is made without the mutex).
InUseChunkStays == overlap \/ \A g \in grants : g.c \in kernel
=============================================================================
