------------------------------- MODULE XibMr --------------------------------
(***************************************************************************)
(* Protection domains and memory regions.  A memory region takes the first *)
(* free index of mr_map, and the table of the hardware has one entry per   *)
(* index; its key is the index with 8 random bits below it.  A protection  *)
(* domain takes a number of pd_map.                                        *)
(*                                                                         *)
(* Consumers register and deregister from several threads (xib_reg_mr,     *)
(* xib_reg_user_mr, xib_alloc_mr with xib_map_mr_sge, xib_get_dma_mr,      *)
(* xib_dereg_mr, xib_kdereg_mr); a peer invalidates keys, which the        *)
(* interrupt of the notification DMA carries out (xrnic_unreg_mr); and the *)
(* handshake driver moves regions to the BRAM (hw_hs_mr_rebase).           *)
(***************************************************************************)
EXTENDS Integers, FiniteSets

CONSTANTS
    Mr,          \* the region objects of the consumers
    Pd,          \* the protection domains of the consumers
    MaxCount,    \* bits of each bitmap
    Discipline   \* what consumers and peers respect, see Calm below

VARIABLES
    mr_map, pd_map,   \* the identifiers taken
    lock,             \* the holder of xib->lock and the bitmap it loaded
    pds,              \* Pd -> [pc, pdn]
    mrs,              \* Mr -> [pc, type, pd, idx, base]
    entry,            \* index -> what the hardware holds: region, pd, base
    noti              \* invalidations on their way: the region and its index

vars == <<mr_map, pd_map, lock, pds, mrs, entry, noti>>

Ids == 0 .. MaxCount - 1
None == -1
Free == [by |-> None, map |-> {}]
NoMr == [pc |-> "none", type |-> "user", pd |-> None, idx |-> 0, base |-> "ram"]
NoEntry == [mr |-> None, pdn |-> None, base |-> "ram"]

Init ==
    /\ mr_map = {} /\ pd_map = {} /\ lock = Free
    /\ pds = [p \in Pd |-> [pc |-> "none", pdn |-> None]]
    /\ mrs = [m \in Mr |-> NoMr]
    /\ entry = [i \in Ids |-> NoEntry]
    /\ noti = {}

(* "once": a region a peer invalidated is not deregistered again.          *)
(* "dma_last": a DMA region is released only while index 0 is free.        *)
(* "forget": a region whose mapping failed is not deregistered, and none    *)
(* that a peer is invalidating is mapped anew.                              *)
(* "own_key": the handshake driver is given the key of a live region.       *)
Calm(d, cond) == d \in Discipline => cond

\* find_first_zero_bit over the bitmap; MaxCount if there is none.
FirstZero(map) ==
    CHOOSE i \in 0 .. MaxCount :
        /\ i \notin map
        /\ \A j \in Ids \ map : i <= j
-----------------------------------------------------------------------------
(* Protection domains *)

\* xib_alloc_pd takes a number under the lock.
AllocPd(p) ==
    /\ pds[p].pc = "none" /\ lock = Free /\ FirstZero(pd_map) \in Ids
    /\ pd_map' = pd_map \cup {FirstZero(pd_map)}
    /\ pds' = [pds EXCEPT ![p] = [pc |-> "copy", pdn |-> FirstZero(pd_map)]]
    /\ UNCHANGED <<mr_map, lock, mrs, entry, noti>>

\* The number is copied to user space, or the copy fails and it is released.
AllocPdDone(p) ==
    /\ pds[p].pc = "copy"
    /\ pds' = [pds EXCEPT ![p].pc = "live"]
    /\ UNCHANGED <<mr_map, pd_map, lock, mrs, entry, noti>>

AllocPdFails(p) ==
    /\ pds[p].pc = "copy" /\ lock = Free
    /\ pd_map' = pd_map \ {pds[p].pdn}
    /\ pds' = [pds EXCEPT ![p] = [pc |-> "none", pdn |-> None]]
    /\ UNCHANGED <<mr_map, lock, mrs, entry, noti>>

\* xib_dealloc_pd, which the core calls once no region uses the domain.
DeallocPd(p) ==
    /\ pds[p].pc = "live" /\ \A m \in Mr : mrs[m].pd # p
    /\ pd_map' = pd_map \ {pds[p].pdn}
    /\ pds' = [pds EXCEPT ![p] = [pc |-> "none", pdn |-> None]]
    /\ UNCHANGED <<mr_map, lock, mrs, entry, noti>>
-----------------------------------------------------------------------------
(* Registration *)

\* spin_lock_bh(&xib->lock) can be taken.
LockFree == lock = Free

\* A registration takes the lock and reads the word of the bitmap.
TakesIndex(m, p, type) ==
    /\ mrs[m].pc = "none" /\ pds[p].pc = "live" /\ LockFree
    /\ FirstZero(mr_map) \in Ids
    /\ lock' = [by |-> m, map |-> mr_map]
    /\ mrs' = [mrs EXCEPT ![m] = [NoMr EXCEPT !.pc = "load", !.type = type, !.pd = p]]
    /\ UNCHANGED <<mr_map, pd_map, pds, entry, noti>>

\* A region of the kernel, and one of a process whose page was pinned: they go
\* on to program the entry.
xib_reg_mr(m, p) == TakesIndex(m, p, "reg")
xib_reg_user_mr(m, p) == TakesIndex(m, p, "reg")

\* A region that xib_map_mr_sge programs later.
xib_alloc_mr(m, p) == TakesIndex(m, p, "fast")

\* __set_bit writes the word back with the bit set: a bit that
\* xrnic_unreg_mr cleared in between is set again.
RegStore(m) ==
    /\ mrs[m].pc = "load" /\ lock.by = m
    /\ mr_map' = lock.map \cup {FirstZero(lock.map)}
    /\ mrs' = [mrs EXCEPT ![m].pc = IF mrs[m].type = "fast" THEN "unmapped"
                                    ELSE "program",
                          ![m].idx = FirstZero(lock.map)]
    /\ lock' = Free
    /\ UNCHANGED <<pd_map, pds, entry, noti>>

\* xrnic_reg_mr writes the entry of the index; it cannot fail.
xrnic_reg_mr(m) ==
    /\ entry' = [entry EXCEPT ![mrs[m].idx] =
                   [mr |-> m, pdn |-> pds[mrs[m].pd].pdn, base |-> "ram"]]
    /\ mrs' = [mrs EXCEPT ![m].pc = "live", ![m].base = "ram"]
    /\ UNCHANGED <<mr_map, pd_map, lock, pds, noti>>

RegProgram(m) == mrs[m].pc = "program" /\ xrnic_reg_mr(m)

\* xib_map_mr_sge programs the entry of a region of xib_alloc_mr.
MapMrSge(m) ==
    /\ mrs[m].pc \in {"unmapped", "live"} /\ mrs[m].type = "fast"
    /\ Calm("forget", \A n \in noti : n.mr # m)
    /\ xrnic_reg_mr(m)

\* A scatter list of several entries: the index is released and the region
\* freed, though the consumer keeps its pointer.
MapMrSgeFails(m) ==
    /\ mrs[m].pc \in {"unmapped", "live"} /\ mrs[m].type = "fast" /\ LockFree
    /\ Calm("forget", \A n \in noti : n.mr # m)
    /\ mr_map' = mr_map \ {mrs[m].idx}
    /\ mrs' = [mrs EXCEPT ![m].pc = "freed"]
    /\ UNCHANGED <<pd_map, lock, pds, entry, noti>>

\* xib_get_dma_mr: no index is taken, mr_idx stays 0.
GetDmaMr(m, p) ==
    /\ mrs[m].pc = "none" /\ pds[p].pc = "live"
    /\ mrs' = [mrs EXCEPT ![m] = [NoMr EXCEPT !.pc = "live", !.type = "dma", !.pd = p]]
    /\ UNCHANGED <<mr_map, pd_map, lock, pds, entry, noti>>
-----------------------------------------------------------------------------
(* The end of a region *)

\* Faulty form: the bit above the region's index is cleared.
ReleasesNext(m) == {mrs[m].idx + 1}

\* The bit that goes with a region, whatever its type.
Releases(m) == {mrs[m].idx}

\* xib_dereg_mr and xib_kdereg_mr: only the index is released; the entry of
\* the hardware stays.  A "gone" region was invalidated before.
DeregMr(m) ==
    /\ mrs[m].pc \in {"unmapped", "live", "gone", "freed"} /\ LockFree
    /\ Calm("once", mrs[m].pc # "gone" /\ \A n \in noti : n.mr # m)
    /\ Calm("forget", mrs[m].pc # "freed")
    /\ Calm("dma_last", mrs[m].type = "dma" => 0 \notin mr_map)
    /\ mr_map' = mr_map \ Releases(m)
    /\ mrs' = [mrs EXCEPT ![m] = NoMr]
    /\ UNCHANGED <<pd_map, lock, pds, entry, noti>>

\* A peer sends with invalidate for the key of a region, and the notification
\* is queued to the DMA.
HwInvalidate(m) ==
    /\ mrs[m].pc = "live" /\ mrs[m].type # "dma" /\ \A n \in noti : n.mr # m
    /\ noti' = noti \cup {[mr |-> m, idx |-> mrs[m].idx]}
    /\ UNCHANGED <<mr_map, pd_map, lock, pds, mrs, entry>>

\* Faulty form: the index is released and the entry kept.
KeepsEntry(i) == entry

\* xrnic_unreg_mr withdraws the entry of an index ...
Cleared(i) == [entry EXCEPT ![i] = NoEntry]

\* ... and releases the index, without the lock; the interrupt looks at the
\* index only.
AxidmaInvalidate(n) ==
    /\ n \in noti
    /\ noti' = noti \ {n}
    /\ entry' = Cleared(n.idx)
    /\ mr_map' = mr_map \ {n.idx}
    /\ mrs' = [mrs EXCEPT ![n.mr].pc =
                 IF @ = "live" /\ mrs[n.mr].idx = n.idx THEN "gone" ELSE @]
    /\ UNCHANGED <<pd_map, lock, pds>>

\* The consumer drops a region that was taken from it, without a call.
Drop(m) ==
    /\ mrs[m].pc \in {"gone", "freed"} /\ \A n \in noti : n.mr # m
    /\ mrs' = [mrs EXCEPT ![m] = NoMr]
    /\ UNCHANGED <<mr_map, pd_map, lock, pds, entry, noti>>

\* hw_hs_mr_rebase: the base of the entry the key names is rewritten; the key
\* given was that of region m when it was read, with index i.
hw_hs_mr_rebase(m, i) ==
    /\ Calm("own_key", mrs[m].pc = "live" /\ mrs[m].type # "dma" /\ mrs[m].idx = i)
    /\ entry' = [entry EXCEPT ![i].base = "bram"]
    /\ mrs' = [mrs EXCEPT ![m].base = "bram"]
    /\ UNCHANGED <<mr_map, pd_map, lock, pds, noti>>
-----------------------------------------------------------------------------
Next ==
    \/ \E p \in Pd : AllocPd(p) \/ AllocPdDone(p) \/ AllocPdFails(p) \/ DeallocPd(p)
    \/ \E m \in Mr, p \in Pd :
          \/ xib_reg_mr(m, p) \/ xib_reg_user_mr(m, p) \/ xib_alloc_mr(m, p)
          \/ GetDmaMr(m, p)
    \/ \E m \in Mr :
          \/ RegStore(m) \/ RegProgram(m) \/ MapMrSge(m) \/ MapMrSgeFails(m)
          \/ DeregMr(m) \/ HwInvalidate(m) \/ Drop(m)
          \/ \E i \in Ids : hw_hs_mr_rebase(m, i)
    \/ \E n \in noti : AxidmaInvalidate(n)

Spec == Init /\ [][Next]_vars
-----------------------------------------------------------------------------
Held(m) == mrs[m].pc \in {"program", "unmapped", "live"} /\ mrs[m].type # "dma"

\* No two regions that are in use share an index of mr_map, whichever of the
\* registration, deregistration and invalidation paths run against each other.
IndexNamesOneMr ==
    \A m, n \in Mr : m # n /\ Held(m) /\ Held(n) => mrs[m].idx # mrs[n].idx

\* The hardware entry of a region in use is its own: its protection domain's
\* number, and the memory it was registered or rebased to.  A peer with its
\* key reaches that memory and no other.
EntryIsOwners ==
    \A m \in Mr : mrs[m].pc = "live" /\ mrs[m].type # "dma" =>
        entry[mrs[m].idx] =
            [mr |-> m, pdn |-> pds[mrs[m].pd].pdn, base |-> mrs[m].base]

\* A key that was invalidated gives no access: the entry it names no longer
\* holds the region, whatever was registered there since.
InvalidatedIsCleared ==
    \A m \in Mr : mrs[m].pc = "gone" => entry[mrs[m].idx].mr # m
=============================================================================
