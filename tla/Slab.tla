-------------------------------- MODULE Slab --------------------------------
(***************************************************************************)
(* One cache of src/kernal/mm/slab.c.  A slab is in one of three lists; an *)
(* object is told by its slab and its slot.  All of slab_alloc and         *)
(* slab_free runs with interrupts off.  Nothing destroys a cache.          *)
(***************************************************************************)
EXTENDS Integers, Sequences, FiniteSets, SequencesExt

CONSTANTS
  Slabs,  \* the slabs that pmm_alloc_pages can give
  Objs    \* objs_per_slab

(* slab_cache_create puts at least two objects of up to 8 KB into a slab.  *)
(* With one, slab_alloc would leave an empty slab in its list.             *)
ASSUME SlabAssumption == IsFiniteSet(Slabs) /\ Objs \in Nat \ {0, 1}

VARIABLE
  slab  \* full, partial, empty: the three lists from their heads;
        \* slots: freelist of each slab, first free slot first

Objects  == Slabs \X (1 .. Objs)
NoObject == <<>>
Listed(k) == k.full \o k.partial \o k.empty

SlabTypeOK ==
  slab \in [full : Seq(Slabs), partial : Seq(Slabs), empty : Seq(Slabs),
            slots : [Slabs -> Seq(1 .. Objs)]]

SlabInit ==
  slab = [full |-> <<>>, partial |-> <<>>, empty |-> <<>>, slots |-> [s \in Slabs |-> <<>>]]

(* Mutant: a slab that was full stays in the list of full ones.            *)
WithoutKeepsFull(k, s) ==
  [k EXCEPT !.partial = RemoveFirst(@, s), !.empty = RemoveFirst(@, s)]

(* a slab leaves the list it is in                                         *)
Without(k, s) ==
  [k EXCEPT !.full = RemoveFirst(@, s), !.partial = RemoveFirst(@, s), !.empty = RemoveFirst(@, s)]

(* and goes to the head of the one it belongs to                           *)
Listing(k, s) ==
  LET n == Len(k.slots[s])
  IN CASE n = 0    -> [k EXCEPT !.full = <<s>> \o @]
       [] n = Objs -> [k EXCEPT !.empty = <<s>> \o @]
       [] OTHER    -> [k EXCEPT !.partial = <<s>> \o @]

(* slab_alloc: the slab to take from.  slab_new links the slots in order;  *)
(* heap or pages may be missing.                                           *)
NewSlabs(k) ==
  {[k EXCEPT !.slots[s] = [i \in 1 .. Objs |-> i], !.empty = <<s>>] : s \in Slabs \ ToSet(Listed(k))}

TakeFrom(k, s) ==
  [slab   |-> Listing([Without(k, s) EXCEPT !.slots[s] = Tail(@)], s),
   object |-> <<s, Head(k.slots[s])>>]

(* the ways it may come out                                                *)
SlabAlloc(k) ==
  CASE k.partial # <<>> -> {TakeFrom(k, Head(k.partial))}
    [] k.partial = <<>> /\ k.empty # <<>> -> {TakeFrom(k, Head(k.empty))}
    [] OTHER -> {TakeFrom(n, Head(n.empty)) : n \in NewSlabs(k)}
                \cup {[slab |-> k, object |-> NoObject]}

SlabFree(k, o) ==
  Listing([Without(k, o[1]) EXCEPT !.slots[o[1]] = <<o[2]>> \o @], o[1])

=============================================================================
