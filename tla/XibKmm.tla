------------------------------- MODULE XibKmm -------------------------------
(***************************************************************************)
(* The kernel memory manager (recipes-modules/xib-kmm/files/xib_kmm.c):    *)
(* one memory region from which chunks are handed to user processes        *)
(* through /dev/xib_kmm0 and to other kernel modules by direct calls, and  *)
(* the count of open files on which the release of everything hangs.       *)
(*                                                                         *)
(* alloc_mem and free_mem run under mm_list_lock from end to end: each is  *)
(* one step.  file_open_cnt is a plain int that open and close change      *)
(* without a lock: each read and each write of it is a step of its own.     *)
(***************************************************************************)
EXTENDS Integers, FiniteSetsExt, SequencesExt

CONSTANTS
    Procs,          \* processes that use the device file
    Kern,           \* the kernel modules that call xib_kmm_alloc_mem
    Base, Size,     \* the region: base_addr and size
    PageSize,
    Sizes,          \* the byte counts asked for
    WordMod,        \* the modulus of unsigned arithmetic, 2^64 for addresses
    IdMod,          \* 2^24 in the code, the number of chunk ids
    MaxAllocs       \* bound: allocations in a behaviour

Holders == Procs \cup {Kern}

ASSUME KmmAssumption ==
    /\ {Size, PageSize, WordMod, IdMod} \subseteq Nat \ {0}
    /\ {Base, MaxAllocs} \subseteq Nat
    /\ Base % PageSize = 0 /\ Size % PageSize = 0
    /\ 2 * (Base + Size) < WordMod
    /\ Sizes \subseteq Nat \ {0}
    /\ Kern \notin Procs

VARIABLES
    chunk_list,     \* node->chunk_list: the chunks, in list order
    available_size, max_chunk,      \* fields of the node
    file_open_cnt,
    file,           \* each process: closed, opening, open, closing or released
    loaded,         \* the value of file_open_cnt a CPU in open or close has read
    held,           \* the chunk ids each holder was given and has not freed
    refused,        \* the size of the request alloc_mem has just refused, or 0
    hole,           \* history: the first chunk was freed and others are left
    clash           \* history: two CPUs were in open or close at the same time

vars == <<chunk_list, available_size, max_chunk, file_open_cnt, file, loaded,
          held, refused, hole, clash>>

Sub(a, b) == (a - b) % WordMod

Init == /\ chunk_list = <<>>
        /\ available_size = Size /\ max_chunk = 1
        /\ file_open_cnt = 0
        /\ file = [p \in Procs |-> "closed"]
        /\ loaded = [p \in Procs |-> 0]
        /\ held = [h \in Holders |-> {}]
        /\ refused = 0
        /\ hole = FALSE /\ clash = FALSE

-----------------------------------------------------------------------------
(* alloc_mem and free_mem                                                  *)

\* xib_kmm_alloc_mem rounds up to pages, as xib_umem_alloc_chunk does for a process.
RoundToPage(size) ==
    IF size % PageSize # 0 THEN size - (size % PageSize) + PageSize ELSE size

End(c) == c.start + c.size

\* The chunk that follows is taken to begin at the end of the region.
RoomToTheEnd(k) ==
    IF k = 0 THEN Sub(chunk_list[1].start, Base)
    ELSE Sub(Base + Size, End(chunk_list[k]))

\* The room alloc_mem sees after the k-th chunk of the list.  Before the first
\* it is what lies between the base and that chunk, after the last what is left
\* of the region.
Room(k) ==
    CASE k = 0               -> Sub(chunk_list[1].start, Base)
      [] k \in 1 .. Len(chunk_list) - 1
                             -> Sub(chunk_list[k + 1].start, End(chunk_list[k]))
      [] k = Len(chunk_list) -> Sub(Base + Size, End(chunk_list[k]))

\* The places in the list where a chunk of this size goes.
Fits(size) == {k \in 0 .. Len(chunk_list) : Room(k) >= size}

\* Where a chunk put after the k-th starts.  Before the first chunk the code
\* takes that chunk's own start address, not the base.
StartAt(k) == IF k = 0 THEN chunk_list[1].start ELSE End(chunk_list[k])

\* The id of the next chunk: a counter cut to its low 24 bits
ChunkId == max_chunk % IdMod

Grant(h, size, k, start) ==
    /\ chunk_list' = InsertAt(chunk_list, k + 1,
                              [start |-> start, size |-> size, id |-> ChunkId])
    /\ held' = [held EXCEPT ![h] = @ \cup {ChunkId}]
    /\ max_chunk' = max_chunk + 1
    /\ available_size' = available_size - size
    /\ refused' = 0

TooLarge(size) == size > available_size

alloc_mem(h, size) ==
    /\ IF TooLarge(size)
          \/ (chunk_list # <<>> /\ Fits(size) = {})
       THEN /\ refused' = size
            /\ UNCHANGED <<chunk_list, held, max_chunk, available_size>>
       ELSE IF chunk_list = <<>> THEN Grant(h, size, 0, Base)
       ELSE LET k == Min(Fits(size)) IN Grant(h, size, k, StartAt(k))
    /\ UNCHANGED <<file_open_cnt, file, loaded, hole, clash>>

Positions(id) == {k \in 1 .. Len(chunk_list) : chunk_list[k].id = id}

\* The free space keeps its value when a chunk comes back.
FreeForgetsSize(h, id) ==
    /\ IF Positions(id) = {} THEN UNCHANGED <<chunk_list, available_size, hole>>
       ELSE LET k == Min(Positions(id))
            IN  /\ chunk_list' = RemoveAt(chunk_list, k)
                /\ hole' = (chunk_list' # <<>> /\ (hole \/ k = 1))
                /\ UNCHANGED available_size
    /\ held' = [held EXCEPT ![h] = @ \ {id}]
    /\ refused' = 0
    /\ UNCHANGED <<max_chunk, file_open_cnt, file, loaded, clash>>

\* An id the list does not have is an error nobody acts on: the ioctl drops it.
free_mem(h, id) ==
    /\ IF Positions(id) = {} THEN UNCHANGED <<chunk_list, available_size, hole>>
       ELSE LET k == Min(Positions(id))
            IN  /\ chunk_list' = RemoveAt(chunk_list, k)
                /\ hole' = (chunk_list' # <<>> /\ (hole \/ k = 1))
                /\ available_size' = available_size + chunk_list[k].size
    /\ held' = [held EXCEPT ![h] = @ \ {id}]
    /\ refused' = 0
    /\ UNCHANGED <<max_chunk, file_open_cnt, file, loaded, clash>>

-----------------------------------------------------------------------------
(* Who calls them                                                          *)

Callers == {Kern} \cup {p \in Procs : file[p] = "open"}

\* xib_ioctl, XMM_ALLOC_OPC, and xib_kmm_alloc_mem
Alloc(h, size) ==
    /\ h \in Callers
    /\ max_chunk <= MaxAllocs
    /\ alloc_mem(h, RoundToPage(size))

\* xib_ioctl, XMM_FREE_OPC, and xib_kmm_free_mem
Free(h, id) ==
    /\ id \in held[h]
    /\ h \in Callers
    /\ free_mem(h, id)

-----------------------------------------------------------------------------
(* Opening and closing the device file                                     *)

InCount == {p \in Procs : file[p] \in {"opening", "closing", "released"}}

\* xib_open and xib_close read file_open_cnt ...
EnterCount(p, from, to) ==
    /\ file[p] = from
    /\ file' = [file EXCEPT ![p] = to]
    /\ loaded' = [loaded EXCEPT ![p] = file_open_cnt]
    /\ clash' = (clash \/ InCount # {})
    /\ UNCHANGED <<chunk_list, available_size, max_chunk, file_open_cnt, held,
                   refused, hole>>

OpenEnter(p) == EnterCount(p, "closed", "opening")

CloseEnter(p) == EnterCount(p, "open", "closing")

\* ... and write it back.
StoreCount(p, from, to, cnt) ==
    /\ file[p] = from
    /\ file_open_cnt' = cnt
    /\ file' = [file EXCEPT ![p] = to]
    /\ loaded' = [loaded EXCEPT ![p] = 0]
    /\ UNCHANGED <<chunk_list, available_size, max_chunk, held, refused, hole, clash>>

xib_open(p) == StoreCount(p, "opening", "open", (loaded[p] + 1) % WordMod)

CloseStore(p) == StoreCount(p, "closing", "released", Sub(loaded[p], 1))

\* The bytes the chunks of a list take, added up along the list.
TotalSize(list) ==
    LET sum[k \in 0 .. Len(list)] ==
            IF k = 0 THEN 0 ELSE sum[k - 1] + list[k].size
    IN  sum[Len(list)]

\* All the chunks of the region go, whoever holds them.
FreeEveryChunk ==
    /\ chunk_list' = <<>>
    /\ hole' = FALSE
    /\ available_size' = available_size + TotalSize(chunk_list)

\* Every close frees all the chunks.
CloseAlwaysSweeps(p) ==
    /\ file[p] = "released"
    /\ file' = [file EXCEPT ![p] = "closed"]
    /\ held' = [held EXCEPT ![p] = {}]
    /\ FreeEveryChunk
    /\ refused' = 0
    /\ UNCHANGED <<max_chunk, file_open_cnt, loaded, clash>>

\* The rest of xib_close: the count is read again, and the close that finds 0
\* frees the chunks of every holder, the kernel modules' too.  Any other close
\* frees nothing, also not the chunks of the process that closes.
xib_close(p) ==
    /\ file[p] = "released"
    /\ file' = [file EXCEPT ![p] = "closed"]
    /\ held' = [held EXCEPT ![p] = {}]
    /\ IF file_open_cnt = 0 THEN FreeEveryChunk
       ELSE UNCHANGED <<chunk_list, available_size, hole>>
    /\ refused' = 0
    /\ UNCHANGED <<max_chunk, file_open_cnt, loaded, clash>>

-----------------------------------------------------------------------------
Next ==
    \/ \E h \in Holders :
        \/ \E size \in Sizes : Alloc(h, size)
        \/ \E id \in held[h] : Free(h, id)
    \/ \E p \in Procs :
        \/ OpenEnter(p) \/ xib_open(p)
        \/ CloseEnter(p) \/ CloseStore(p) \/ xib_close(p)

Spec == Init /\ [][Next]_vars

-----------------------------------------------------------------------------
(* Properties                                                              *)

\* The fields hold values of their C types; in particular the unsigned
\* available_size never wraps below 0 and never exceeds the region.
TypeOK ==
    /\ chunk_list \in Seq([start : Nat, size : Nat, id : 0 .. IdMod - 1])
    /\ available_size \in 0 .. Size
    /\ max_chunk \in 1 .. MaxAllocs + 1
    /\ file_open_cnt \in 0 .. WordMod - 1
    /\ file \in [Procs -> {"closed", "opening", "open", "closing", "released"}]
    /\ loaded \in [Procs -> 0 .. WordMod - 1]
    /\ held \in [Holders -> SUBSET (0 .. IdMod - 1)]
    /\ refused \in Nat
    /\ {hole, clash} \subseteq BOOLEAN

ListIndices == DOMAIN chunk_list

\* available_size, on which alloc_mem turns requests away, is the region's size
\* less the sizes of the chunks on the list, through every allocation, free of a
\* chunk that may be gone, and release of everything at the last close.
AvailableExact == available_size + TotalSize(chunk_list) = Size

\* A chunk id names one chunk and belongs to one holder: free_mem, which takes
\* the first chunk with the id, never takes somebody else's.
IdNamesOneChunk ==
    /\ \A j, k \in ListIndices : chunk_list[j].id = chunk_list[k].id => j = k
    /\ \A g, h \in Holders : g # h => held[g] \cap held[h] = {}

\* A chunk stays on the list while the process it was given to has the device
\* file open and has not freed it: no other process's close takes it away, as
\* long as no two processes open or close the file at the same time (the count
\* of open files is changed without a lock).
OpenFileKeepsChunks ==
    ~clash => \A p \in Procs : file[p] = "open" =>
                \A id \in held[p] : Positions(id) # {}

\* The chunks lie in the region, on page borders, in the order of the list, and
\* no two of them share an address, as long as the first chunk is not freed
\* before the others (the code misplaces what it puts before the first chunk).
ChunksDisjoint ==
    ~hole => \A k \in ListIndices :
        /\ chunk_list[k].start % PageSize = 0
        /\ Base <= chunk_list[k].start /\ End(chunk_list[k]) <= Base + Size
        /\ k > 1 => End(chunk_list[k - 1]) <= chunk_list[k].start

FreeAddr(a) == \A k \in ListIndices :
                    a < chunk_list[k].start \/ a >= End(chunk_list[k])

\* "A chunk cannot be allotted for the requested memory" (xib_kmm.c:296) is said
\* only when no stretch of that many free bytes is left in the region, under the
\* same proviso.
RefusedOnlyWhenNoRoom ==
    refused # 0 /\ ~hole => \A a \in Base .. Base + Size - refused :
                        \E b \in a .. a + refused - 1 : ~FreeAddr(b)
=============================================================================
