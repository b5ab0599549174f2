------------------------------- MODULE KHeap -------------------------------
(***************************************************************************)
(* The kernel heap of src/kernal/mm/heap.c: a list of blocks in ascending  *)
(* order, first fit, split on allocation, merged on release.  Addresses    *)
(* and sizes count units of eight bytes from KHEAP_START.                  *)
(*                                                                         *)
(* The file has no lock; the calls of this model follow one another.       *)
(*                                                                         *)
(* The leak table at the end is that of callers which are compiled with    *)
(* HEAP_LEAK_DETECT; it takes the addresses of blocks as the list may give *)
(* them.                                                                   *)
(***************************************************************************)
EXTENDS Integers, Sequences, FiniteSets, SequencesExt, FiniteSetsExt

CONSTANTS
  HDR,        \* sizeof(heap_block_t)
  MINSPLIT,   \* HEAP_MIN_SPLIT
  PAGE,       \* PAGE_SIZE
  FirstPages, \* pages heap_init maps
  MaxPages,   \* pages up to KHEAP_MAX
  Requests,   \* the sizes callers ask for, already aligned
  LEAKSLOTS,  \* LEAK_TABLE_SIZE
  Blocks      \* addresses of the blocks of tracked callers

ASSUME KHeapAssumption ==
  /\ HDR \in Nat \ {0} /\ MINSPLIT \in Nat \ {0}
  /\ PAGE \in Nat /\ PAGE > HDR
  /\ FirstPages \in Nat \ {0} /\ MaxPages \in Nat /\ FirstPages <= MaxPages
  /\ Requests \subseteq Nat \ {0} /\ LEAKSLOTS \in Nat \ {0} /\ Blocks \subseteq Nat

VARIABLES
  heap,  \* blocks: the list from heap_head; brk: heap_brk, of which
         \* total_bytes is the distance from the start; used: used_bytes
  live,  \* ghost: what callers hold, and what they asked for
  held,  \* ghost: the blocks of tracked callers
  leaks  \* slots: the addresses in leak_table; next: leak_count as an index;
         \* ghosts: a slot was overwritten, a block moved in krealloc

heapVars == <<heap, live>>
leakVars == <<held, leaks>>

NoBlock == -1
LeakSlots == 0 .. LEAKSLOTS - 1
End(b)  == b.at + HDR + b.size

HeapTypeOK ==
  /\ heap.blocks \in Seq([at : Nat, size : Nat, free : BOOLEAN])
  /\ heap.brk \in {p * PAGE : p \in FirstPages .. MaxPages}
  /\ heap.used \in 0 .. heap.brk
  /\ live \subseteq [at : Nat, want : Requests]

Block(at, size) == [at |-> at, size |-> size, free |-> TRUE]

HeapInit ==
  /\ heap = [blocks |-> <<Block(0, FirstPages * PAGE - HDR)>>, brk |-> FirstPages * PAGE, used |-> 0]
  /\ live = {}

(* Mutant: the rest of the block is not made shorter by its header.        *)
SplitLong(bs, i, s) ==
  LET b == bs[i]
  IN IF b.size < s + HDR + MINSPLIT THEN bs
     ELSE [InsertAt(bs, i + 1, Block(b.at + HDR + s, b.size - s)) EXCEPT ![i].size = s]

(* heap_split                                                              *)
Split(bs, i, s) ==
  LET b == bs[i]
  IN IF b.size < s + HDR + MINSPLIT THEN bs
     ELSE [InsertAt(bs, i + 1, Block(b.at + HDR + s, b.size - s - HDR)) EXCEPT ![i].size = s]

Fits(bs, s) == {i \in DOMAIN bs : bs[i].free /\ bs[i].size >= s}

(* the first block that fits                                               *)
Take(h, s) ==
  LET i  == Min(Fits(h.blocks, s))
      bs == [Split(h.blocks, i, s) EXCEPT ![i].free = FALSE]
  IN [at |-> bs[i].at, heap |-> [h EXCEPT !.blocks = bs, !.used = @ + bs[i].size]]

(* heap_grow asks for one page after the other; what it got before it      *)
(* fails stays mapped, in no block.                                        *)
PagesFor(s) == (Max({HDR + s, PAGE}) + PAGE - 1) \div PAGE

Grown(h, s, pages) ==
  [h EXCEPT !.brk = @ + pages * PAGE,
            !.blocks = IF pages = PagesFor(s) THEN Append(@, Block(h.brk, pages * PAGE - HDR)) ELSE @]

(* heap_alloc_raw: the ways it may come out, by the frames there are       *)
Alloc(h, s) ==
  IF Fits(h.blocks, s) # {} THEN {Take(h, s)}
  ELSE {LET g == Grown(h, s, got)
        IN IF got = PagesFor(s) THEN Take(g, s) ELSE [at |-> NoBlock, heap |-> g] :
          got \in 0 .. Min({PagesFor(s), MaxPages - h.brk \div PAGE})}

(* heap_free_raw: neighbours in the list are merged, whatever lies between *)
Merge(bs, b) ==
  IF bs # <<>> /\ Last(bs).free /\ b.free
  THEN [bs EXCEPT ![Len(bs)].size = @ + HDR + b.size]
  ELSE Append(bs, b)

Free(h, at) ==
  LET i  == CHOOSE i \in DOMAIN h.blocks : h.blocks[i].at = at
      bs == [h.blocks EXCEPT ![i].free = TRUE]
  IN [h EXCEPT !.blocks = FoldLeft(Merge, <<>>, bs), !.used = @ - h.blocks[i].size]

-----------------------------------------------------------------------------
Kmalloc(s) ==
  \E r \in Alloc(heap, s) :
    /\ heap' = r.heap
    /\ live' = IF r.at = NoBlock THEN live ELSE live \cup {[at |-> r.at, want |-> s]}

Kfree(l) ==
  /\ heap' = Free(heap, l.at)
  /\ live' = live \ {l}

(* krealloc: a block that is large enough stays, although more was asked   *)
(* for; without memory the old one does.                                   *)
Krealloc(l, s) ==
  LET b == CHOOSE b \in ToSet(heap.blocks) : b.at = l.at
  IN IF b.size >= s
     THEN live' = (live \ {l}) \cup {[l EXCEPT !.want = s]} /\ UNCHANGED heap
     ELSE \E r \in Alloc(heap, s) :
            IF r.at = NoBlock
            THEN heap' = r.heap /\ UNCHANGED live
            ELSE /\ heap' = Free(r.heap, l.at)
                 /\ live' = (live \ {l}) \cup {[at |-> r.at, want |-> s]}

HeapNext ==
  \/ \E s \in Requests : Kmalloc(s)
  \/ \E l \in live : Kfree(l) \/ \E s \in Requests : Krealloc(l, s)

-----------------------------------------------------------------------------
(* Blocks never overlap and never leave the mapped pages, whatever was     *)
(* split, merged or mapped in vain; what a caller holds is a used block    *)
(* as large as it asked for, no block is used by nobody, and used_bytes    *)
(* counts them.                                                            *)
HeapDisjoint ==
  LET bs   == heap.blocks
      used == {b \in ToSet(bs) : ~b.free}
  IN /\ \A i \in 1 .. Len(bs) - 1 : End(bs[i]) <= bs[i + 1].at
     /\ End(Last(bs)) <= heap.brk
     /\ {b.at : b \in used} = {l.at : l \in live}
     /\ \A l \in live, b \in used : b.at = l.at => b.size >= l.want
     /\ Cardinality(used) = Cardinality(live)
     /\ heap.used = FoldLeft(LAMBDA n, b : IF b.free THEN n ELSE n + b.size, 0, bs)

-----------------------------------------------------------------------------
(* The leak table.                                                         *)

LeakInit ==
  /\ held = {}
  /\ leaks = [slots |-> [i \in LeakSlots |-> NoBlock], next |-> 0, overwritten |-> FALSE, moved |-> FALSE]

(* leak_record: the first free slot, or the one at leak_count              *)
Recorded(at) ==
  LET vacant == {i \in LeakSlots : leaks.slots[i] = NoBlock}
  IN IF vacant # {} THEN [leaks EXCEPT !.slots[Min(vacant)] = at]
     ELSE [leaks EXCEPT !.slots[leaks.next] = at, !.next = (@ + 1) % LEAKSLOTS, !.overwritten = TRUE]

(* leak_unrecord: the first slot that has the address                      *)
Unrecorded(at) ==
  LET same == {i \in LeakSlots : leaks.slots[i] = at}
  IN IF same = {} THEN leaks ELSE [leaks EXCEPT !.slots[Min(same)] = NoBlock]

TrackedAlloc(at) == held' = held \cup {at} /\ leaks' = Recorded(at)
TrackedFree(at)  == held' = held \ {at} /\ leaks' = Unrecorded(at)

(* heap.c itself is not tracked, and so a krealloc that moves is not       *)
UntrackedMove(from, to) == held' = (held \ {from}) \cup {to} /\ leaks' = [leaks EXCEPT !.moved = TRUE]

LeakNext ==
  \/ \E at \in Blocks \ held : TrackedAlloc(at) \/ \E from \in held : UntrackedMove(from, at)
  \/ \E at \in held : TrackedFree(at)

(* heap_leak_report names the blocks that callers hold and no others, each *)
(* once; those are all there are if none was overwritten in a full table.  *)
(* A block that krealloc moved is the exception: its old address stays in  *)
(* the table and its new one never gets there.                             *)
LeaksListed ==
  LET listed == {i \in LeakSlots : leaks.slots[i] # NoBlock}
  IN ~leaks.moved =>
       /\ {leaks.slots[i] : i \in listed} \subseteq held
       /\ \A i, j \in listed : leaks.slots[i] = leaks.slots[j] => i = j
       /\ ~leaks.overwritten => Cardinality(listed) = Cardinality(held)

=============================================================================
