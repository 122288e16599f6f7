------------------------------ MODULE XibBram ------------------------------
(***************************************************************************)
(* The block RAM manager of the driver (mem.c): xib_alloc_coherent with    *)
(* its fall back to DMA memory, and xib_free_coherent, which finds out     *)
(* from the address where a buffer belongs.                                *)
(*                                                                         *)
(* The memory is counted in small units from 0, the base.  The free list   *)
(* is kept sorted by address; a caller frees the size it asked for, which  *)
(* may be less than the block it was given.  mem.c takes no lock: a call   *)
(* may sleep in its kzalloc, between what it looked up and what it does to *)
(* the lists, and another call may come in between.                        *)
(***************************************************************************)
EXTENDS Integers, Sequences, FiniteSetsExt

CONSTANTS
    Caller,        \* threads that may be inside the manager
    tot_mem,       \* size of the block RAM
    Sizes,         \* the sizes asked for
    Round,             \* sizes are rounded up to it (256 bytes)
    BRAM_ALLOC_UNIT,   \* a smaller rest of a block is not split off (4096 bytes)
    DmaAddrs,      \* where DMA memory may start
    MaxGrants      \* bound: buffers in use

VARIABLES
    mem_free,      \* sequence of [phy_addr, blk_size]
    mem_alloc,     \* the blocks given out
    free_mem,
    grants,        \* what the callers hold: [addr, size, from]
    call,          \* what each caller has under way
    lost,          \* history: rests of blocks, which nobody frees
    spoilt         \* history: the lists may be wrong from here on

vars == <<mem_free, mem_alloc, free_mem, grants, call, lost, spoilt>>

Blk(addr, size) == [phy_addr |-> addr, blk_size |-> size]
End(b) == b.phy_addr + b.blk_size
Units(from, size) == from .. from + size - 1
Grant(addr, size, from) == [addr |-> addr, size |-> size, from |-> from]
Idle == [op |-> "idle"]

\* xib_bram_init, xib_ext_ddr_init: the whole memory is freed into the manager.
Init == /\ mem_free = <<Blk(0, tot_mem)>> /\ mem_alloc = {}
        /\ free_mem = tot_mem /\ grants = {}
        /\ call = [c \in Caller |-> Idle] /\ lost = {} /\ spoilt = FALSE

round_up(size) == ((size + Round - 1) \div Round) * Round

mgr_has_memory(size) == free_mem >= round_up(size)

\* Blocks of the list that are large enough.
Fits(size) == {k \in DOMAIN mem_free : mem_free[k].blk_size >= round_up(size)}

\* Caller c enters the manager.  The lists have no lock: with another call
\* under way, nothing is claimed of them any more, and the model lets no
\* further call begin.
Enter(c) == /\ call[c] = Idle /\ ~spoilt
            /\ spoilt' = \E d \in Caller : call[d] # Idle

\* Bound: buffers in use or asked for.
Room == Cardinality(grants) + Cardinality({c \in Caller : call[c] # Idle}) < MaxGrants

\* alloc_mem up to its kzalloc: the first block that fits.
AllocFind(c, size) ==
    /\ Enter(c) /\ Room
    /\ mgr_has_memory(size) /\ Fits(size) # {}
    /\ call' = [call EXCEPT ![c] =
                   [op |-> "alloc", size |-> size, next |-> mem_free[Min(Fits(size))]]]
    /\ UNCHANGED <<mem_free, mem_alloc, free_mem, grants, lost>>

\* What a request takes of block b: a rest that is too small goes with it.
Taken(b, size) ==
    IF b.blk_size - round_up(size) >= BRAM_ALLOC_UNIT THEN round_up(size) ELSE b.blk_size

\* The free list without what the request takes of block k.
Without(k, size) ==
    LET b == mem_free[k]
        n == Taken(b, size)
    IN  IF n < b.blk_size
          THEN [mem_free EXCEPT ![k] = Blk(b.phy_addr + n, b.blk_size - n)]
          ELSE SubSeq(mem_free, 1, k - 1) \o SubSeq(mem_free, k + 1, Len(mem_free))

\* The rest of alloc_mem: the block that was found is cut or taken as a whole.
\* If another call has changed the list since, the entry may be another one or
\* freed memory: the same address goes out again, whatever the lists become.
alloc_mem(c) ==
    LET b    == call[c].next
        take == Taken(b, call[c].size)
    IN
    /\ call[c].op = "alloc"
    /\ \/ \E k \in DOMAIN mem_free :
             mem_free[k] = b /\ mem_free' = Without(k, call[c].size)
       \/ (\A k \in DOMAIN mem_free : mem_free[k] # b) /\ UNCHANGED mem_free
    /\ mem_alloc' = mem_alloc \cup {Blk(b.phy_addr, take)}
    /\ free_mem' = free_mem - take
    /\ grants' = grants \cup {Grant(b.phy_addr, call[c].size, "bram")}
    /\ call' = [call EXCEPT ![c] = Idle]
    /\ UNCHANGED <<lost, spoilt>>

\* DMA memory that nobody has.
dma_alloc_coherent(size) ==
    \E addr \in DmaAddrs :
        /\ \A g \in grants : g.addr # addr
        /\ grants' = grants \cup {Grant(addr, size, "dma")}

\* The manager has no block: the memory comes from dma_alloc_coherent.
Fallback(c, size) ==
    /\ Enter(c) /\ Room
    /\ ~(mgr_has_memory(size) /\ Fits(size) # {})
    /\ dma_alloc_coherent(size)
    /\ UNCHANGED <<mem_free, mem_alloc, free_mem, call, lost>>

\* So it does when the kzalloc of alloc_mem fails.
AllocFails(c) ==
    /\ call[c].op = "alloc" /\ dma_alloc_coherent(call[c].size)
    /\ call' = [call EXCEPT ![c] = Idle]
    /\ UNCHANGED <<mem_free, mem_alloc, free_mem, lost, spoilt>>
-----------------------------------------------------------------------------
\* Faulty form: a block that ends where the freed one begins is not looked at
\* again, but the freed one is dropped.
MergeDrops(addr, size) == mem_free

\* Where is_mem_overlapped stops in the list.
Stops(addr, size) ==
    {k \in DOMAIN mem_free : addr < mem_free[k].phy_addr \/ addr = mem_free[k].phy_addr + size}

\* Entry k took the freed block in; it may now touch the next one.
Joined(list, k) ==
    IF k < Len(list) /\ End(list[k]) = list[k + 1].phy_addr
      THEN [SubSeq(list, 1, k) EXCEPT ![k].blk_size = @ + list[k + 1].blk_size]
             \o SubSeq(list, k + 2, Len(list))
      ELSE list

\* is_mem_overlapped and the insertion of free_mem_alloc.  A freed block is
\* joined to an entry before it if its own size, not that of the entry, is the
\* distance between them.  (An overlap with an entry is told beforehand; the
\* code may find it after it has joined, in a list that is already wrong.)
FreeInto(addr, size) ==
    LET k == Min(Stops(addr, size))
        b == mem_free[k]
    IN
    IF Stops(addr, size) = {} THEN Append(mem_free, Blk(addr, size))
    ELSE IF addr > b.phy_addr
      THEN Joined([mem_free EXCEPT ![k].blk_size = @ + size], k)
    ELSE IF addr + size = b.phy_addr
      THEN Joined([mem_free EXCEPT ![k] = Blk(addr, b.blk_size + size)], k)
      ELSE SubSeq(mem_free, 1, k - 1) \o <<Blk(addr, size)>>
             \o SubSeq(mem_free, k, Len(mem_free))

\* The entry the freed block is joined to does not end where the block begins.
JoinsApart(addr, size) ==
    \E k \in Stops(addr, size) :
        addr > mem_free[k].phy_addr /\ mem_free[k].blk_size # size

Hit(b, addr) == b.phy_addr <= addr /\ addr < End(b)

\* is_mgr_addr_block: the end belongs to it.
is_mgr_addr_block(addr) == 0 <= addr /\ addr <= tot_mem

\* xib_free_coherent for an address of the manager: free_mem_alloc up to its
\* kzalloc.  DMA memory that begins at the end is taken for block RAM.
FreeBegin(c, g) ==
    /\ call[c] = Idle /\ ~spoilt
    /\ g \in grants /\ is_mgr_addr_block(g.addr)
    /\ spoilt' = (g.from = "dma" \/ \E d \in Caller : call[d] # Idle)
    /\ grants' = grants \ {g}
    /\ IF tot_mem < free_mem + g.size
         THEN UNCHANGED call
         ELSE call' = [call EXCEPT ![c] = [op |-> "free", grant |-> g]]
    /\ UNCHANGED <<mem_free, mem_alloc, free_mem, lost>>

\* The rest of free_mem_alloc.
free_mem_alloc(c) ==
    LET g == call[c].grant IN
    /\ call[c].op = "free"
    /\ call' = [call EXCEPT ![c] = Idle]
    /\ IF \E k \in DOMAIN mem_free : Hit(mem_free[k], g.addr)
         THEN UNCHANGED <<mem_free, mem_alloc, free_mem, lost, spoilt>>
         ELSE /\ mem_free' = FreeInto(g.addr, g.size)
              /\ free_mem' = free_mem + g.size
              /\ mem_alloc' = {b \in mem_alloc : b.phy_addr # g.addr}
              /\ lost' = lost \cup ((UNION {Units(b.phy_addr, b.blk_size) :
                                       b \in mem_alloc \ mem_alloc'}) \ Units(g.addr, g.size))
              /\ spoilt' = (spoilt \/ JoinsApart(g.addr, g.size))
    /\ UNCHANGED grants

\* The kzalloc of free_mem_alloc fails: the block stays in the table for good.
FreeFails(c) ==
    /\ call[c].op = "free"
    /\ call' = [call EXCEPT ![c] = Idle]
    /\ UNCHANGED <<mem_free, mem_alloc, free_mem, grants, lost, spoilt>>

\* For any other address: dma_free_coherent.
FreeDma(g) ==
    /\ g \in grants /\ ~is_mgr_addr_block(g.addr)
    /\ grants' = grants \ {g}
    /\ UNCHANGED <<mem_free, mem_alloc, free_mem, call, lost, spoilt>>

Next == \/ \E c \in Caller : \E size \in Sizes : AllocFind(c, size) \/ Fallback(c, size)
        \/ \E c \in Caller : alloc_mem(c) \/ AllocFails(c) \/ free_mem_alloc(c) \/ FreeFails(c)
        \/ \E c \in Caller : \E g \in grants : FreeBegin(c, g)
        \/ \E g \in grants : FreeDma(g)

Spec == Init /\ [][Next]_vars
-----------------------------------------------------------------------------
FreeUnits == UNION {Units(mem_free[k].phy_addr, mem_free[k].blk_size) : k \in DOMAIN mem_free}
AllocUnits == UNION {Units(b.phy_addr, b.blk_size) : b \in mem_alloc}

\* Block RAM is not given out twice, and what is free is what the free list
\* and free_mem say: the buffers in use are disjoint and inside the blocks of
\* the allocation table, the free list holds all but these blocks and the
\* rests that were never freed, and free_mem is its size.  It is claimed for
\* any sizes, until a freed block is joined to an entry that does not touch it
\* (mem.c:131), DMA memory at the end is freed into the manager, or two calls
\* overlap.
BramExact ==
    ~spoilt =>
        /\ \A g, h \in grants : g # h => g.from = "dma" \/ h.from = "dma"
             \/ Units(g.addr, g.size) \cap Units(h.addr, h.size) = {}
        /\ \A g \in grants : g.from = "bram" => Units(g.addr, g.size) \subseteq AllocUnits
        /\ FreeUnits = (0 .. tot_mem - 1) \ (AllocUnits \cup lost)
        /\ \A i, j \in DOMAIN mem_free : i < j => End(mem_free[i]) <= mem_free[j].phy_addr
        /\ free_mem = Cardinality(FreeUnits)
=============================================================================
