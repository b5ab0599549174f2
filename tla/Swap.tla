-------------------------------- MODULE Swap --------------------------------
(***************************************************************************)
(* Swapping of src/kernal/mm/swap.c over the page tables of                *)
(* src/kernal/mm/paging.c, and the page-fault handler.  Pages are 4 KB     *)
(* pages of the kernel heap's range, the only ones the handler can serve   *)
(* as nothing sets the current process.  What a page holds is the number   *)
(* of the write that filled it.                                            *)
(*                                                                         *)
(* The file has no caller.  Here workers do what its comments describe:    *)
(* one page is swapped by one of them at a time, and swap_in is given the  *)
(* slot that the table names for the page.                                 *)
(***************************************************************************)
EXTENDS Integers, Sequences, FiniteSets, Functions, FiniteSetsExt

CONSTANTS
  Pages,      \* virtual pages
  FrameSet,   \* frames of the allocator
  SlotCount,  \* swap_slot_count
  LookupSize, \* SWAP_LOOKUP_SIZE
  Workers,    \* tasks that swap
  MaxWrites   \* bound: writes to pages

None   == "none"
Slots  == 0 .. SlotCount - 1
Writes == 0 .. MaxWrites

ASSUME SwapAssumption ==
  /\ IsFiniteSet(Pages) /\ IsFiniteSet(FrameSet) /\ None \notin Pages \cup FrameSet
  /\ SlotCount \in Nat \ {0} /\ LookupSize \in Nat \ {0} /\ MaxWrites \in Nat

VARIABLES
  pte,         \* the frame a page is mapped to, or None
  mem,         \* what a frame holds
  freeFrames,  \* frames pmm_alloc_page can give
  slot_bitmap, \* slots taken
  disk,        \* what a slot holds
  lookup,      \* the table: page (or None) and slot (or -1)
  worker,      \* what each worker is in: op, page, frame, slot
  writes,      \* writes so far
  last,        \* ghost: the last write to a page
  disturbed,   \* ghost: pages ever touched between a swap_out and the swap_in
  dropped_out  \* ghost: pages the table had no entry for

swapVars == <<pte, mem, freeFrames, slot_bitmap, disk, lookup, worker, writes, last,
              disturbed, dropped_out>>

Idle == [op |-> "idle", page |-> None, frame |-> None, slot |-> -1]
Ops  == {"idle", "write", "unmap", "note", "read", "forget"}

SwapTypeOK ==
  /\ pte \in [Pages -> FrameSet \cup {None}]
  /\ mem \in [FrameSet -> Writes] /\ disk \in [Slots -> Writes]
  /\ freeFrames \subseteq FrameSet /\ slot_bitmap \subseteq Slots
  /\ lookup \in [1 .. LookupSize -> [virt : Pages \cup {None}, slot : Slots \cup {-1}]]
  /\ worker \in [Workers -> [op : Ops, page : Pages \cup {None},
                             frame : FrameSet \cup {None}, slot : Slots \cup {-1}]]
  /\ writes \in Writes /\ last \in [Pages -> Writes]
  /\ disturbed \subseteq Pages /\ dropped_out \subseteq Pages

(* swap_init, after the pages were mapped                                  *)
SwapInit ==
  /\ pte \in [Pages -> FrameSet] /\ IsInjective(pte)
  /\ mem = [f \in FrameSet |-> 0]
  /\ freeFrames = FrameSet \ Range(pte)
  /\ slot_bitmap = {}
  /\ disk = [s \in Slots |-> 0]
  /\ lookup = [i \in 1 .. LookupSize |-> [virt |-> None, slot |-> -1]]
  /\ worker = [w \in Workers |-> Idle]
  /\ writes = 0
  /\ last = [v \in Pages |-> 0]
  /\ disturbed = {} /\ dropped_out = {}

-----------------------------------------------------------------------------
(* The table: an entry keeps its page for good                             *)

Places(v)     == {i \in 1 .. LookupSize : lookup[i].virt \in {None, v}}
LookupSet(v, s) ==
  IF Places(v) = {} THEN lookup ELSE [lookup EXCEPT ![Min(Places(v))] = [virt |-> v, slot |-> s]]

LookupGet(v) ==
  LET here == {i \in 1 .. LookupSize : lookup[i].virt = v}
  IN IF here = {} THEN -1 ELSE lookup[Min(here)].slot

Busy(v) == \E w \in Workers : worker[w].page = v

-----------------------------------------------------------------------------
(* swap_out: the frame, then a slot, under the lock                        *)
SwapOut(w, v) ==
  /\ worker[w].op = "idle" /\ ~Busy(v)
  /\ pte[v] # None
  /\ Slots \ slot_bitmap # {}
  /\ LET s == Min(Slots \ slot_bitmap)
     IN /\ slot_bitmap' = slot_bitmap \cup {s}
        /\ worker' = [worker EXCEPT ![w] = [op |-> "write", page |-> v, frame |-> pte[v], slot |-> s]]
  /\ UNCHANGED <<pte, mem, freeFrames, disk, lookup, writes, last, disturbed, dropped_out>>

(* ide_write; then the page is unmapped and the frame freed                *)
Written(w) ==
  /\ worker[w].op = "write"
  /\ disk' = [disk EXCEPT ![worker[w].slot] = mem[worker[w].frame]]
  /\ worker' = [worker EXCEPT ![w].op = "unmap"]
  /\ UNCHANGED <<pte, mem, freeFrames, slot_bitmap, lookup, writes, last, disturbed, dropped_out>>

WriteFails(w) ==
  /\ worker[w].op = "write"
  /\ slot_bitmap' = slot_bitmap \ {worker[w].slot}
  /\ worker' = [worker EXCEPT ![w] = Idle]
  /\ UNCHANGED <<pte, mem, freeFrames, disk, lookup, writes, last, disturbed, dropped_out>>

Unmap(w) ==
  /\ worker[w].op = "unmap"
  /\ pte' = [pte EXCEPT ![worker[w].page] = None]
  /\ freeFrames' = freeFrames \cup {worker[w].frame}
  /\ worker' = [worker EXCEPT ![w].op = "note"]
  /\ UNCHANGED <<mem, slot_bitmap, disk, lookup, writes, last, disturbed, dropped_out>>

(* the table learns the slot, under the lock                               *)
Note(w) ==
  /\ worker[w].op = "note"
  /\ lookup' = LookupSet(worker[w].page, worker[w].slot)
  /\ dropped_out' = IF Places(worker[w].page) = {} THEN dropped_out \cup {worker[w].page}
                    ELSE dropped_out
  /\ worker' = [worker EXCEPT ![w] = Idle]
  /\ UNCHANGED <<pte, mem, freeFrames, slot_bitmap, disk, writes, last, disturbed>>

(* swap_in: a frame                                                        *)
SwapIn(w, v) ==
  /\ worker[w].op = "idle" /\ ~Busy(v)
  /\ LookupGet(v) >= 0
  /\ \E f \in freeFrames :
       /\ freeFrames' = freeFrames \ {f}
       /\ worker' = [worker EXCEPT ![w] = [op |-> "read", page |-> v, frame |-> f, slot |-> LookupGet(v)]]
  /\ UNCHANGED <<pte, mem, slot_bitmap, disk, lookup, writes, last, disturbed, dropped_out>>

(* ide_read; the page is mapped to the frame                               *)
ReadIn(w) ==
  /\ worker[w].op = "read"
  /\ mem' = [mem EXCEPT ![worker[w].frame] = disk[worker[w].slot]]
  /\ pte' = [pte EXCEPT ![worker[w].page] = worker[w].frame]
  /\ worker' = [worker EXCEPT ![w].op = "forget"]
  /\ UNCHANGED <<freeFrames, slot_bitmap, disk, lookup, writes, last, disturbed, dropped_out>>

ReadFails(w) ==
  /\ worker[w].op = "read"
  /\ freeFrames' = freeFrames \cup {worker[w].frame}
  /\ worker' = [worker EXCEPT ![w] = Idle]
  /\ UNCHANGED <<pte, mem, slot_bitmap, disk, lookup, writes, last, disturbed, dropped_out>>

(* Mutant: the entry of the page goes on naming the slot.                  *)
ForgetKeeps(w) ==
  /\ worker[w].op = "forget"
  /\ slot_bitmap' = slot_bitmap \ {worker[w].slot}
  /\ worker' = [worker EXCEPT ![w] = Idle]
  /\ UNCHANGED <<pte, mem, freeFrames, disk, lookup, writes, last, disturbed, dropped_out>>

(* the slot is given back and the entry cleared, under the lock            *)
Forget(w) ==
  /\ worker[w].op = "forget"
  /\ slot_bitmap' = slot_bitmap \ {worker[w].slot}
  /\ lookup' = LookupSet(worker[w].page, -1)
  /\ worker' = [worker EXCEPT ![w] = Idle]
  /\ UNCHANGED <<pte, mem, freeFrames, disk, writes, last, disturbed, dropped_out>>

-----------------------------------------------------------------------------
(* Tasks write to pages.  One that is not mapped faults: the handler gives *)
(* it a frame and does not look for it in the swap.                        *)
Away(v) == \E w \in Workers : worker[w].page = v /\ worker[w].op # "forget"

Write(v) ==
  /\ writes < MaxWrites /\ pte[v] # None
  /\ writes' = writes + 1
  /\ last' = [last EXCEPT ![v] = writes']
  /\ mem' = [mem EXCEPT ![pte[v]] = writes']
  /\ disturbed' = IF Away(v) THEN disturbed \cup {v} ELSE disturbed
  /\ UNCHANGED <<pte, freeFrames, slot_bitmap, disk, lookup, worker, dropped_out>>

PageFault(v) ==
  /\ pte[v] = None
  /\ \E f \in freeFrames :
       /\ freeFrames' = freeFrames \ {f}
       /\ pte' = [pte EXCEPT ![v] = f]
  /\ disturbed' = disturbed \cup {v}
  /\ UNCHANGED <<mem, slot_bitmap, disk, lookup, worker, writes, last, dropped_out>>

SwapStep(w) ==
  \/ \E v \in Pages : SwapOut(w, v) \/ SwapIn(w, v)
  \/ Written(w) \/ WriteFails(w) \/ Unmap(w) \/ Note(w)
  \/ ReadIn(w) \/ ReadFails(w) \/ Forget(w)

SwapNext ==
  \/ \E w \in Workers : SwapStep(w)
  \/ \E v \in Pages : Write(v) \/ PageFault(v)

-----------------------------------------------------------------------------
(* A page that nobody touches while it is away, and that the table had an  *)
(* entry for, keeps what was written to it: it is in a frame of its own or *)
(* in the slot that the table, or the worker that moves it, names, and     *)
(* that slot is nobody else's, whatever the disk refuses in between.       *)
Where(v) ==
  LET w == CHOOSE w \in Workers : worker[w].page = v
  IN IF Busy(v) /\ worker[w].slot >= 0 THEN worker[w].slot ELSE LookupGet(v)

Safe == Pages \ (disturbed \cup dropped_out)

SwapKeepsPages ==
  \A v \in Safe :
    /\ IF pte[v] # None THEN mem[pte[v]] = last[v]
       ELSE /\ Where(v) \in slot_bitmap
            /\ disk[Where(v)] = last[v]
            /\ \A u \in Safe \ {v} : pte[u] = None => Where(u) # Where(v)
    /\ pte[v] # None => \A u \in Pages \ {v} : pte[u] # pte[v]

=============================================================================
