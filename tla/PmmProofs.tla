----------------------------- MODULE PmmProofs -----------------------------
(***************************************************************************)
(* The page allocator, for every memory map, size of memory and set of     *)
(* callers that do not interrupt each other (Preempt FALSE): a page has    *)
(* one owner, no page gets lost or appears from nowhere, the counter is    *)
(* right, and a call fails only when there is no run of the length it      *)
(* asks for.                                                               *)
(*                                                                         *)
(* The argument is a conservation law: at every moment the pages that were *)
(* free at boot are exactly those whose bit is clear, those that have an   *)
(* owner and those that the call in progress is handing over.              *)
(***************************************************************************)
EXTENDS Pmm, WellFoundedInduction, FiniteSetTheorems, TLAPS

Clear == Pages \ bits

(* Pages the call of u is handing over, between bitmap and owner.          *)
Transit(u) ==
  IF pc[u] = "count" THEN RunOf(u)
  ELSE IF pc[u] \in {"test", "clear"} THEN {pos[u]}
  ELSE IF pc[u] \in {"testRun", "clearRun"} THEN pos[u] .. pos[u] + n[u] - 1
  ELSE {}

Mine(u) == owned[u] \cup (Transit(u) \cap (bits \ {0}))

(* Calls do not interrupt each other.                                      *)
Sole == \A u, v \in Users : u # v => pc[u] = "idle" \/ pc[v] = "idle"

Disjoint == \A u, v \in Users : Transit(u) \cap owned[v] = {}

Conserved ==
  \A p \in Pages : p \in FreeAtBoot <=> (p \in Clear \/ \E u \in Users : p \in Mine(u))

(* The run in hand: the pages before the position are free, and no run of  *)
(* the wanted length begins before it.                                     *)
Scanning(u) ==
  /\ n[u] >= 1
  /\ len[u] < n[u]
  /\ len[u] < pos[u]
  /\ pos[u] - len[u] .. pos[u] - 1 \subseteq Clear
  /\ \A p \in 1 .. Total : p < pos[u] - len[u] => ~ (p .. p + n[u] - 1 \subseteq Clear)

Register(u) ==
  /\ pc[u] = "idle" => len[u] = 0
  /\ pc[u] = "scan" => Scanning(u)
  /\ pc[u] = "take" => pos[u] \in Clear \ {0}
  /\ pc[u] = "takeRun" => n[u] >= 1 /\ RunOf(u) \subseteq Clear \ {0}
  /\ pc[u] = "count" => n[u] >= 1 /\ RunOf(u) \subseteq bits \ {0}
  /\ pc[u] \in {"clear", "clearRun"} => pos[u] \in bits \ {0}
  /\ pc[u] \in {"take", "clear", "clearRun"} => snap[u] = bits \cap Word(pos[u])
  /\ pc[u] \in {"testRun", "clearRun"} =>
       pos[u] + n[u] <= Total + 1 /\ len[u] + n[u] <= MaxRun
  /\ pc[u] = "clearRun" => n[u] >= 1

(* What the counter lacks while a call holds it in a register.             *)
Counted(u) ==
  IF pc[u] = "count"
  THEN cached[u] = free /\ Cardinality(Clear) = free - n[u]
  ELSE IF pc[u] \in {"testRun", "clearRun"}
  THEN cached[u] = Cardinality(Clear) /\ free = cached[u] - len[u]
  ELSE free = Cardinality(Clear)

Counts ==
  /\ CountIsRight
  /\ \A u \in Users : pc[u] # "idle" => Counted(u)

(* The inductive invariant.                                                *)
IInv ==
  /\ TypeOK
  /\ Sole
  /\ OneOwner
  /\ Disjoint
  /\ Conserved
  /\ \A u \in Users : Register(u)
  /\ Counts
-----------------------------------------------------------------------------
(* The memory map *)

(* A bounded set of naturals has a largest element.                        *)
LEMMA Largest ==
  ASSUME NEW N \in Nat, NEW S \in SUBSET (0 .. N), S # {}
  PROVE  \E e \in S : \A f \in S : f <= e
<1> DEFINE T == {N - e : e \in S}
<1> DEFINE R == {ss \in Nat \X Nat : ss[1] < ss[2]}
<1>1. IsWellFoundedOn(R, Nat)
  BY NatLessThanWellFounded DEF OpToRel
<1>2. T \subseteq Nat /\ T # {}
  <2>1. PICK e \in S : TRUE
    OBVIOUS
  <2>2. N - e \in T
    BY <2>1
  <2>3. T \subseteq Nat
    OBVIOUS
  <2> QED BY <2>2, <2>3
<1>3. PICK x \in T : \A y \in T : ~ (<<y, x>> \in R)
  <2> HIDE DEF T, R
  <2> QED BY <1>1, <1>2, WFMin
<1>4. PICK e \in S : x = N - e
  OBVIOUS
<1>5. \A f \in S : ~ (N - f < N - e)
  <2> SUFFICES ASSUME NEW f \in S PROVE ~ (N - f < N - e)
    OBVIOUS
  <2>1. ~ (<<N - f, x>> \in R)
    BY <1>3
  <2> QED BY <2>1, <1>4
<1> QED
  BY <1>5

(* Aligning an address gives an address.                                   *)
LEMMA Aligned ==
  ASSUME PmmAssumption, NEW x \in Nat
  PROVE  AlignUp(x) \in Nat /\ AlignDown(x) \in Nat
<1>1. \A y \in Nat : y - (y % PAGE) \in Nat
  <2> SUFFICES ASSUME NEW y \in Nat PROVE y - (y % PAGE) \in Nat
    OBVIOUS
  <2>1. PAGE \in Nat \ {0}
    BY DEF PmmAssumption
  <2>2. y = PAGE * (y \div PAGE) + (y % PAGE) /\ y \div PAGE \in Nat
    BY <2>1
  <2>3. PAGE * (y \div PAGE) \in Nat /\ y % PAGE \in Nat
    BY <2>1, <2>2
  <2> QED BY <2>2, <2>3
<1>2. (x + PAGE - 1) % ADDRS \in Nat
  BY DEF PmmAssumption
<1> QED
  BY <1>1, <1>2 DEF AlignUp, AlignDown

(* The end of memory is found whatever the map says.                       *)
LEMMA BootFacts ==
  ASSUME PmmAssumption, MapsAssumption, map \in Maps
  PROVE  Total \in Nat /\ FreeAtBoot \subseteq Pages \ {0}
<1>1. MemBytes \in Nat
  <2> DEFINE ends == {Clamp(r.addr + r.size) : r \in {s \in map.regions : s.avail}} \ {0}
  <2> DEFINE top == IF map.mmap /\ ends # {} THEN CHOOSE e \in ends : \A f \in ends : f <= e
                    ELSE (MEG + map.upper) % ADDRS
  <2>1. ends \subseteq 0 .. ADDRS - 1
    BY DEF PmmAssumption, MapsAssumption, Clamp, Least
  <2>2. ADDRS - 1 \in Nat /\ (MEG + map.upper) % ADDRS \in Nat
    BY DEF PmmAssumption, MapsAssumption
  <2> HIDE DEF ends
  <2>3. ends # {} => \E e \in ends : \A f \in ends : f <= e
    BY <2>1, <2>2, Largest
  <2>4. top \in Nat
    <3>1. CASE map.mmap /\ ends # {}
      <4>1. \E g \in ends : \A f \in ends : f <= g
        BY <2>3, <3>1
      <4>2. (CHOOSE e \in ends : \A f \in ends : f <= e) \in ends
        BY <4>1
      <4>3. top \in ends
        BY <4>2, <3>1, Zenon
      <4> HIDE DEF top
      <4> QED
        BY <4>3, <2>1, <2>2
    <3>2. CASE ~ (map.mmap /\ ends # {})
      BY <3>2, <2>2
    <3> QED
      BY <3>1, <3>2
  <2>5. Least(top, LIMIT) \in Nat
    <3> HIDE DEF top
    <3> QED BY <2>4 DEF Least, PmmAssumption
  <2> QED
    BY <2>5 DEF MemBytes, ends
<1>2. Total \in Nat
  <2>1. AlignUp(MemBytes) \in Nat /\ PAGE \in Nat \ {0}
    BY <1>1, Aligned DEF PmmAssumption
  <2> QED
    BY <2>1 DEF Total
<1>3. 0 \in Pages => 0 \in KernelPages
  <2>1. PAGE \div PAGE = 1 /\ 0 \div PAGE = 0
    BY DEF PmmAssumption
  <2>2. 0 \in Pages => 0 \in Touched(0, PAGE)
    BY <2>1 DEF Touched
  <2> QED
    BY <2>2 DEF KernelPages
<1>4. FreeAtBoot \subseteq Pages
  BY DEF FreeAtBoot, Available, Whole
<1>5. 0 \notin FreeAtBoot
  BY <1>3, <1>4 DEF FreeAtBoot
<1> QED
  BY <1>2, <1>4, <1>5

(* Nothing changes the memory map.                                         *)
LEMMA MapStays ==
  ASSUME map' = map
  PROVE  /\ Total' = Total /\ Pages' = Pages /\ FreeAtBoot' = FreeAtBoot
         /\ KernelPages' = KernelPages
<1>1. MemBytes' = MemBytes
  BY DEF MemBytes
<1>2. Total' = Total
  BY <1>1 DEF Total
<1>3. Pages' = Pages
  BY <1>2 DEF Pages
<1>4. KernelPages' = KernelPages
  BY <1>2, <1>3 DEF KernelPages, Touched, BitmapBytes
<1>5. FreeAtBoot' = FreeAtBoot
  BY <1>1, <1>3, <1>4 DEF FreeAtBoot, Available, Whole
<1> QED
  BY <1>2, <1>3, <1>4, <1>5

-----------------------------------------------------------------------------
(* One step of one caller *)

(* Nobody but u does anything.                                             *)
Others(u) ==
  /\ map' = map
  /\ \A v \in Users \ {u} : pc[v] = "idle" /\ pc'[v] = "idle" /\ owned'[v] = owned[v] /\ len'[v] = len[v]

(* The step of u moves pages only between the bitmap and u's own books.    *)
Balanced(u) ==
  /\ bits' \subseteq Pages
  /\ Clear' \cup Mine(u)' = Clear \cup Mine(u)
  /\ owned'[u] \subseteq bits'
  /\ Transit(u)' \cap owned'[u] = {}
  /\ \A v \in Users \ {u} :
       owned[v] \subseteq bits' /\ owned[v] \cap (owned'[u] \cup Transit(u)') = {}

(* Ownership and conservation follow from what u's step does to its own    *)
(* books.                                                                  *)
LEMMA BalancedKeeps ==
  ASSUME NEW u \in Users, Others(u), Balanced(u), OneOwner, Disjoint, Conserved
  PROVE  OneOwner' /\ Disjoint' /\ Conserved'
<1>0. Pages' = Pages /\ FreeAtBoot' = FreeAtBoot
  BY MapStays DEF Others
<1>1. \A v \in Users \ {u} : Transit(v) = {} /\ Transit(v)' = {}
  BY DEF Others, Transit
<1>2. \A v \in Users \ {u} : Mine(v)' = owned[v] /\ Mine(v) = owned[v]
  BY <1>1 DEF Mine, Others
<1>3. OneOwner'
  BY DEF OneOwner, Balanced, Others
<1>4. Disjoint'
  BY <1>1 DEF Disjoint, Balanced, Others
<1>5. Conserved'
  <2> SUFFICES ASSUME NEW p \in Pages
               PROVE  p \in FreeAtBoot <=> (p \in Clear' \/ \E v \in Users : p \in Mine(v)')
    BY <1>0 DEF Conserved
  <2>1. p \in FreeAtBoot <=> (p \in Clear \/ \E v \in Users : p \in Mine(v))
    BY DEF Conserved
  <2>2. (\E v \in Users : p \in Mine(v)) <=> (p \in Mine(u) \/ \E v \in Users \ {u} : p \in owned[v])
    BY <1>2
  <2>3. (\E v \in Users : p \in Mine(v)') <=> (p \in Mine(u)' \/ \E v \in Users \ {u} : p \in owned[v])
    BY <1>2
  <2>4. (p \in Clear \/ p \in Mine(u)) <=> (p \in Clear' \/ p \in Mine(u)')
    BY DEF Balanced
  <2> QED
    BY <2>1, <2>2, <2>3, <2>4
<1> QED
  BY <1>3, <1>4, <1>5

(* What has to be shown of a step of u.                                    *)
LEMMA StepKeeps ==
  ASSUME IInv, NEW u \in Users, Others(u), Balanced(u), TypeOK', Register(u)', Counted(u)'
  PROVE  IInv'
<1>1. OneOwner' /\ Disjoint' /\ Conserved'
  BY BalancedKeeps DEF IInv
<1>2. Sole'
  BY DEF Sole, Others
<1>3. \A v \in Users : Register(v)'
  <2> SUFFICES ASSUME NEW v \in Users \ {u} PROVE Register(v)'
    OBVIOUS
  <2> QED BY DEF Register, Others, IInv
<1>4. Counts'
  BY DEF Counts, CountIsRight, Quiet, Counted, Others, Clear
<1> QED
  BY <1>1, <1>2, <1>3, <1>4 DEF IInv

(* The bitmap is finite, whatever the machine.                             *)
LEMMA Sizes ==
  ASSUME IInv
  PROVE  /\ Total \in Nat /\ MaxRun \in Nat /\ 0 \in 0 .. Total
         /\ FreeAtBoot \subseteq Pages \ {0}
         /\ Pages = 0 .. Total - 1
         /\ IsFiniteSet(Pages) /\ Cardinality(Pages) = Total
         /\ IsFiniteSet(Clear) /\ Cardinality(Clear) \in 0 .. Total
<1>1. Total \in Nat /\ FreeAtBoot \subseteq Pages \ {0} /\ MaxRun \in Nat
  BY BootFacts, PmmAssumption, MapsAssumption DEF IInv, TypeOK, PmmAssumption
<1>2. Pages = 0 .. Total - 1
  BY DEF Pages
<1>3. IsFiniteSet(Pages) /\ Cardinality(Pages) = Total
  BY <1>1, <1>2, FS_Interval
<1>4. Clear \in SUBSET Pages
  BY DEF Clear
<1>5. IsFiniteSet(Clear) /\ Cardinality(Clear) <= Total
  BY <1>3, <1>4, FS_Subset
<1>6. Cardinality(Clear) \in Nat
  BY <1>5, FS_CardinalityType
<1> QED
  BY <1>1, <1>2, <1>3, <1>5, <1>6

(* What the invariant says of the one caller that acts.                    *)
LEMMA ActorFacts ==
  ASSUME IInv, NEW u \in Users, \A v \in Users \ {u} : pc[v] = "idle"
  PROVE  /\ Register(u) /\ Counted(u)
         /\ bits \subseteq Pages /\ owned[u] \subseteq bits
         /\ \A v \in Users : 0 \notin owned[v]
         /\ Transit(u) \cap owned[u] = {}
         /\ \A v \in Users \ {u} :
              owned[v] \subseteq bits /\ owned[v] \cap (owned[u] \cup Transit(u)) = {}
<1>1. Counted(u)
  BY DEF IInv, Counts, CountIsRight, Quiet, Counted, Clear
<1>2. \A v \in Users : 0 \notin owned[v]
  <2>1. \A v \in Users : owned[v] \subseteq Pages
    BY DEF IInv, TypeOK
  <2> QED
    BY <2>1, Sizes DEF IInv, Conserved, Mine
<1> QED
  BY <1>1, <1>2 DEF IInv, OneOwner, Disjoint, TypeOK

(* pmm_alloc_page and pmm_alloc_pages begin with an empty run.             *)
LEMMA AllocKeeps ==
  ASSUME IInv, ~Preempt, NEW u \in Users, NEW count \in 1 .. MaxRun, Alloc(u, count)
  PROVE  IInv'
<1>1. Others(u)
  BY DEF Alloc, MayStart, Goto, Others, IInv, TypeOK
<1>2. /\ Total \in Nat /\ MaxRun \in Nat
      /\ Pages' = Pages /\ Total' = Total /\ Clear' = Clear
  BY <1>1, Sizes, MapStays DEF Others, Clear, Alloc
<1>3. TypeOK'
  BY <1>2 DEF Alloc, Goto, IInv, TypeOK, Places
<1>4. Register(u) /\ Counted(u)
  BY <1>1, ActorFacts DEF Others
<1>5. pc[u] = "idle" /\ pc'[u] = "scan" /\ pos'[u] = 1 /\ n'[u] = count /\ len'[u] = 0
  BY <1>4 DEF Alloc, MayStart, Goto, Register, IInv, TypeOK
<1>6. Register(u)'
  BY <1>5, <1>2 DEF Register, Scanning
<1>7. Counted(u)'
  BY <1>4, <1>5, <1>2 DEF Counted, Alloc
<1>8. Balanced(u)
  <2>1. Transit(u) = {} /\ Transit(u)' = {}
    BY <1>5 DEF Transit
  <2> QED
    BY <2>1, <1>1, <1>2, ActorFacts DEF Balanced, Others, Mine, Alloc
<1> QED
  BY <1>1, <1>3, <1>6, <1>7, <1>8, StepKeeps

(* A used page ends the run, a free one lengthens it.                      *)
LEMMA ScanKeeps ==
  ASSUME IInv, Sole, NEW u \in Users, Scan(u)
  PROVE  IInv'
<1>1. Others(u)
  BY DEF Scan, PassUsed, PassFree, Sole, Others, IInv, TypeOK
<1>2. /\ Total \in Nat /\ MaxRun \in Nat
      /\ Pages' = Pages /\ Total' = Total /\ Clear' = Clear
      /\ Pages = 0 .. Total - 1
  BY <1>1, Sizes, MapStays DEF Others, Clear, Scan
<1>3. Register(u) /\ Counted(u)
  BY <1>1, ActorFacts DEF Others
<1>4. /\ pc[u] = "scan" /\ pc'[u] = "scan" /\ n'[u] = n[u] /\ pos'[u] = pos[u] + 1
      /\ pos[u] \in 1 .. Total - 1 /\ n[u] \in 1 .. MaxRun /\ len[u] \in 0 .. n[u] - 1
      /\ Scanning(u)
  BY <1>3, <1>2 DEF Scan, PassUsed, PassFree, Register, Scanning, IInv, TypeOK
<1>5. TypeOK' /\ Scanning(u)'
  <2>1. CASE PassUsed(u)
    <3>1. len'[u] = 0 /\ pos[u] \notin Clear
      BY <2>1, <1>4 DEF PassUsed, IInv, TypeOK, Clear
    <3>2. TypeOK'
      BY <2>1, <1>2, <1>4 DEF Scan, PassUsed, IInv, TypeOK
    <3>3. \A p \in 1 .. Total : p < pos[u] + 1 => ~ (p .. p + n[u] - 1 \subseteq Clear)
      <4> SUFFICES ASSUME NEW p \in 1 .. Total, p < pos[u] + 1, p >= pos[u] - len[u]
                   PROVE  pos[u] \in p .. p + n[u] - 1
        BY <3>1, <1>4 DEF Scanning
      <4> QED
        BY <1>4
    <3> QED
      BY <3>1, <3>2, <3>3, <1>2, <1>4 DEF Scanning
  <2>2. CASE PassFree(u)
    <3>1. len'[u] = len[u] + 1 /\ len[u] + 1 < n[u] /\ pos[u] \in Clear
      BY <2>2, <1>2, <1>4 DEF PassFree, IInv, TypeOK, Clear
    <3>2. TypeOK'
      BY <2>2, <1>2, <1>4 DEF Scan, PassFree, IInv, TypeOK
    <3>3. pos'[u] - len'[u] = pos[u] - len[u]
      BY <3>1, <1>4
    <3>4. pos[u] - len[u] .. pos[u] \subseteq Clear
      BY <3>1, <1>4 DEF Scanning
    <3> QED
      BY <3>1, <3>2, <3>3, <3>4, <1>2, <1>4, SMTT(30) DEF Scanning
  <2> QED
    BY <2>1, <2>2 DEF Scan
<1>6. Register(u)'
  BY <1>4, <1>5 DEF Register
<1>7. Counted(u)'
  BY <1>3, <1>4, <1>2 DEF Counted, Scan
<1>8. Balanced(u)
  <2>1. Transit(u) = {} /\ Transit(u)' = {}
    BY <1>4 DEF Transit
  <2> QED
    BY <2>1, <1>1, <1>2, ActorFacts DEF Balanced, Others, Mine, Scan
<1> QED
  BY <1>1, <1>5, <1>6, <1>7, <1>8, StepKeeps

(* A call that reaches the last page leaves everything as it was.          *)
LEMMA FailKeeps ==
  ASSUME IInv, Sole, NEW u \in Users, Fail(u)
  PROVE  IInv'
<1>1. Others(u)
  BY DEF Fail, Return, Goto, Sole, Others, IInv, TypeOK
<1>2. /\ Total \in Nat /\ MaxRun \in Nat
      /\ Pages' = Pages /\ Total' = Total /\ Clear' = Clear
  BY <1>1, Sizes, MapStays DEF Others, Clear, Fail
<1>3. Register(u) /\ Counted(u)
  BY <1>1, ActorFacts DEF Others
<1>4. TypeOK'
  BY <1>2 DEF Fail, Return, Goto, IInv, TypeOK, Places
<1>5. pc[u] = "scan" /\ pc'[u] = "idle" /\ len'[u] = 0
  BY DEF Fail, Return, Goto, IInv, TypeOK
<1>6. Register(u)'
  BY <1>5 DEF Register
<1>7. Counted(u)'
  BY <1>3, <1>5, <1>2 DEF Counted, Fail
<1>8. Balanced(u)
  <2>1. Transit(u) = {} /\ Transit(u)' = {}
    BY <1>5 DEF Transit
  <2> QED
    BY <2>1, <1>1, <1>2, ActorFacts DEF Balanced, Others, Mine, Fail
<1> QED
  BY <1>1, <1>4, <1>6, <1>7, <1>8, StepKeeps

(* The run is long enough: its pages are clear and in hand.                *)
LEMMA FindKeeps ==
  ASSUME IInv, Sole, NEW u \in Users, Find(u)
  PROVE  IInv'
<1>1. Others(u)
  BY DEF Find, Goto, Sole, Others, IInv, TypeOK
<1>2. /\ Total \in Nat /\ MaxRun \in Nat
      /\ Pages' = Pages /\ Total' = Total /\ Clear' = Clear
      /\ Pages = 0 .. Total - 1
  BY <1>1, Sizes, MapStays DEF Others, Clear, Find
<1>3. Register(u) /\ Counted(u)
  BY <1>1, ActorFacts DEF Others
<1>4. /\ pc[u] = "scan" /\ n'[u] = n[u] /\ pos'[u] = pos[u]
      /\ pos[u] \in 1 .. Total - 1 /\ n[u] \in 1 .. MaxRun /\ len[u] = n[u] - 1
      /\ Scanning(u) /\ pos[u] \in Clear \ {0}
      /\ snap'[u] = bits \cap Word(pos[u])
      /\ pc'[u] = IF n[u] = 1 THEN "take" ELSE "takeRun"
  <2>1. /\ pc[u] = "scan" /\ n'[u] = n[u] /\ pos'[u] = pos[u]
        /\ snap'[u] = bits \cap Word(pos[u])
    BY DEF Find, Goto, IInv, TypeOK
  <2>2. pc'[u] = IF n[u] = 1 THEN "take" ELSE "takeRun"
    BY DEF Find, Goto, IInv, TypeOK
  <2>3. Scanning(u)
    BY <2>1, <1>3 DEF Register
  <2>4. pos[u] \in 1 .. Total - 1 /\ n[u] \in 1 .. MaxRun /\ len[u] = n[u] - 1
    BY <2>3, <1>2 DEF Find, Scanning, IInv, TypeOK
  <2>5. pos[u] \in Clear \ {0}
    BY <2>4, <1>2 DEF Find, Clear
  <2> QED
    BY <2>1, <2>2, <2>3, <2>4, <2>5
<1>5. TypeOK'
  BY <1>2 DEF Find, Goto, IInv, TypeOK, Places
<1>6. RunOf(u)' \subseteq Clear \ {0}
  <2>1. RunOf(u)' = pos[u] - len[u] .. pos[u]
    BY <1>4 DEF RunOf
  <2>2. pos[u] - len[u] .. pos[u] - 1 \subseteq Clear /\ len[u] < pos[u]
    BY <1>4 DEF Scanning
  <2> QED
    BY <2>1, <2>2, <1>4
<1>7. Word(pos[u])' = Word(pos[u])
  BY <1>2, <1>4 DEF Word
<1>8. Register(u)'
  BY <1>2, <1>4, <1>6, <1>7 DEF Register, Find
<1>9. Counted(u)'
  BY <1>3, <1>4, <1>2 DEF Counted, Find
<1>10. Balanced(u)
  <2>1. Transit(u) = {} /\ Transit(u)' = {}
    BY <1>4 DEF Transit
  <2> QED
    BY <2>1, <1>1, <1>2, ActorFacts DEF Balanced, Others, Mine, Find
<1> QED
  BY <1>1, <1>5, <1>8, <1>9, <1>10, StepKeeps

(* pmm_alloc_page marks a clear page and gives it away.                    *)
LEMMA TakeKeeps ==
  ASSUME IInv, Sole, NEW u \in Users, Take(u)
  PROVE  IInv'
<1>1. Others(u)
  BY DEF Take, Return, Goto, Sole, Others, IInv, TypeOK
<1>2. /\ Total \in Nat /\ MaxRun \in Nat /\ Pages' = Pages /\ Total' = Total
      /\ IsFiniteSet(Clear) /\ Cardinality(Clear) \in 0 .. Total
  BY <1>1, Sizes, MapStays DEF Others
<1>3. Register(u) /\ Counted(u)
  BY <1>1, ActorFacts DEF Others
<1>4. /\ pc[u] = "take" /\ pc'[u] = "idle" /\ len'[u] = 0
      /\ pos[u] \in Clear \ {0}
      /\ snap[u] = bits \cap Word(pos[u])
      /\ owned'[u] = owned[u] \cup {pos[u]}
  BY <1>3 DEF Take, Return, Goto, Register, IInv, TypeOK
<1>5. bits' = bits \cup {pos[u]}
  BY <1>4 DEF Take
<1>6. Clear' = Clear \ {pos[u]}
  BY <1>2, <1>5 DEF Clear
<1>7. Cardinality(Clear') = Cardinality(Clear) - 1 /\ Cardinality(Clear') \in Nat
  BY <1>2, <1>4, <1>6, FS_RemoveElement, FS_CardinalityType
<1>8. free = Cardinality(Clear)
  BY <1>3, <1>4 DEF Counted
<1>9. TypeOK'
  <2>1. free' \in 0 .. Total
    BY <1>2, <1>7, <1>8 DEF Take
  <2>2. bits' \subseteq Pages /\ owned' \in [Users -> SUBSET Pages]
    BY <1>4, <1>5 DEF Take, Clear, IInv, TypeOK
  <2> QED
    BY <2>1, <2>2, <1>2 DEF Take, Return, Goto, IInv, TypeOK, Places
<1>10. Register(u)'
  BY <1>4 DEF Register
<1>11. Counted(u)'
  BY <1>4, <1>7, <1>8 DEF Counted, Take
<1>12. Balanced(u)
  <2>1. Transit(u) = {} /\ Transit(u)' = {}
    BY <1>4 DEF Transit
  <2> QED
    BY <2>1, <1>1, <1>2, <1>4, <1>5, <1>6, ActorFacts DEF Balanced, Others, Mine, Clear
<1> QED
  BY <1>1, <1>9, <1>10, <1>11, <1>12, StepKeeps

(* pmm_alloc_pages marks the pages of the run, which are all clear.        *)
LEMMA TakeRunKeeps ==
  ASSUME IInv, Sole, NEW u \in Users, TakeRun(u)
  PROVE  IInv'
<1>1. Others(u)
  BY DEF TakeRun, Goto, Sole, Others, IInv, TypeOK
<1>2. /\ Total \in Nat /\ MaxRun \in Nat /\ Pages' = Pages /\ Total' = Total
      /\ IsFiniteSet(Clear)
  BY <1>1, Sizes, MapStays DEF Others
<1>3. Register(u) /\ Counted(u)
  BY <1>1, ActorFacts DEF Others
<1>4. /\ pc[u] = "takeRun" /\ pc'[u] = "count"
      /\ n'[u] = n[u] /\ pos'[u] = pos[u] /\ len'[u] = len[u] /\ owned'[u] = owned[u]
      /\ cached'[u] = free /\ free' = free
  BY DEF TakeRun, Goto, IInv, TypeOK
<1>5. RunOf(u) \subseteq Clear \ {0} /\ n[u] >= 1 /\ n[u] \in Nat /\ pos[u] \in Nat
  BY <1>3, <1>4, <1>2 DEF Register, IInv, TypeOK
<1>6. RunOf(u)' = RunOf(u)
  BY <1>4 DEF RunOf
<1>7. bits' = bits \cup RunOf(u) /\ Clear' = Clear \ RunOf(u)
  BY <1>2 DEF TakeRun, Clear
<1>8. Cardinality(Clear') = Cardinality(Clear) - n[u]
  <2>1. Cardinality(RunOf(u)) = n[u]
    BY <1>5, FS_Interval, SMTT(30) DEF RunOf
  <2>2. Clear \cap RunOf(u) = RunOf(u)
    BY <1>5
  <2> QED
    BY <2>1, <2>2, <1>2, <1>7, FS_Difference
<1>9. TypeOK'
  <2>1. bits' \subseteq Pages
    BY <1>5, <1>7 DEF Clear, IInv, TypeOK
  <2> QED
    BY <2>1, <1>2 DEF TakeRun, Goto, IInv, TypeOK, Places
<1>10. Register(u)'
  BY <1>4, <1>5, <1>6, <1>7 DEF Register
<1>11. Counted(u)'
  BY <1>3, <1>4, <1>8 DEF Counted
<1>12. Balanced(u)
  <2>1. Transit(u) = {} /\ Transit(u)' = RunOf(u)
    BY <1>4, <1>6 DEF Transit
  <2> QED
    BY <2>1, <1>1, <1>2, <1>4, <1>5, <1>7, ActorFacts DEF Balanced, Others, Mine, Clear
<1> QED
  BY <1>1, <1>9, <1>10, <1>11, <1>12, StepKeeps

(* It gives them away and subtracts them from the counter.                 *)
LEMMA CountRunKeeps ==
  ASSUME IInv, Sole, NEW u \in Users, CountRun(u)
  PROVE  IInv'
<1>1. Others(u)
  BY DEF CountRun, Return, Goto, Sole, Others, IInv, TypeOK
<1>2. /\ Total \in Nat /\ MaxRun \in Nat /\ Pages' = Pages /\ Total' = Total /\ Clear' = Clear
      /\ Cardinality(Clear) \in 0 .. Total
  BY <1>1, Sizes, MapStays DEF Others, CountRun, Clear
<1>3. Register(u) /\ Counted(u)
  BY <1>1, ActorFacts DEF Others
<1>4. /\ pc[u] = "count" /\ pc'[u] = "idle" /\ len'[u] = 0
      /\ RunOf(u) \subseteq bits \ {0}
      /\ owned'[u] = owned[u] \cup RunOf(u)
  BY <1>3 DEF CountRun, Return, Goto, Register, IInv, TypeOK
<1>5. free' = Cardinality(Clear)
  BY <1>3, <1>4 DEF CountRun, Counted
<1>6. TypeOK'
  <2>1. owned' \in [Users -> SUBSET Pages]
    BY <1>4 DEF CountRun, IInv, TypeOK
  <2> QED
    BY <2>1, <1>2, <1>5 DEF CountRun, Return, Goto, IInv, TypeOK, Places
<1>7. Register(u)'
  BY <1>4 DEF Register
<1>8. Counted(u)'
  BY <1>4, <1>2, <1>5 DEF Counted
<1>9. Balanced(u)
  <2>1. Transit(u) = RunOf(u) /\ Transit(u)' = {}
    BY <1>4 DEF Transit
  <2>2. bits' = bits
    BY DEF CountRun
  <2> QED
    BY <2>1, <2>2, <1>1, <1>2, <1>4, ActorFacts DEF Balanced, Others, Mine
<1> QED
  BY <1>1, <1>6, <1>7, <1>8, <1>9, StepKeeps

-----------------------------------------------------------------------------
(* Releasing *)

(* What may be released has no other owner, and is u's own if it is a page *)
(* in use.                                                                 *)
LEMMA ReleasableFacts ==
  ASSUME IInv, NEW u \in Users, \A v \in Users \ {u} : pc[v] = "idle",
         NEW p \in Releasable(u)
  PROVE  /\ p \in 0 .. Total
         /\ p \in bits \ {0} => p \in owned[u]
         /\ \A v \in Users \ {u} : p \notin owned[v]
<1>1. Total \in Nat /\ Pages = 0 .. Total - 1
  BY Sizes
<1>2. \A v \in Users : owned[v] \subseteq bits /\ 0 \notin owned[v] /\ bits \subseteq Pages
  BY ActorFacts DEF IInv, OneOwner
<1>3. p \in 0 .. Total
  BY <1>1, <1>2 DEF Releasable
<1>4. \A v \in Users \ {u} : p \notin owned[v]
  <2>1. CASE p \in owned[u]
    BY <2>1, ActorFacts
  <2>2. CASE p \in (Pages \ bits) \cup {0, Total}
    BY <2>2, <1>1, <1>2
  <2> QED
    BY <2>1, <2>2 DEF Releasable
<1> QED
  BY <1>1, <1>2, <1>3, <1>4 DEF Releasable

(* A page that is released passes from its owner to the call.              *)
LEMMA ReleaseOneKeeps ==
  ASSUME IInv, ~Preempt, NEW u \in Users, NEW p \in Releasable(u), ReleaseOne(u, p)
  PROVE  IInv'
<1>1. Others(u)
  BY DEF ReleaseOne, MayStart, Goto, Others, IInv, TypeOK
<1>2. /\ Total \in Nat /\ MaxRun \in Nat /\ Pages' = Pages /\ Total' = Total /\ Clear' = Clear
  BY <1>1, Sizes, MapStays DEF Others, ReleaseOne, Clear
<1>3. Register(u) /\ Counted(u)
  BY <1>1, ActorFacts DEF Others
<1>4. /\ p \in 0 .. Total
      /\ p \in bits \ {0} => p \in owned[u]
      /\ \A v \in Users \ {u} : p \notin owned[v]
  BY <1>1, ReleasableFacts DEF Others
<1>5. /\ pc[u] = "idle" /\ pc'[u] = "test" /\ pos'[u] = p /\ bits' = bits
      /\ owned'[u] = owned[u] \ {p}
  BY DEF ReleaseOne, MayStart, Goto, IInv, TypeOK
<1>6. TypeOK'
  BY <1>2, <1>4 DEF ReleaseOne, MayStart, Goto, IInv, TypeOK, Places
<1>7. Register(u)'
  BY <1>5 DEF Register
<1>8. Counted(u)'
  BY <1>2, <1>3, <1>5 DEF Counted, ReleaseOne
<1>9. Balanced(u)
  <2>1. Transit(u) = {} /\ Transit(u)' = {p}
    BY <1>5 DEF Transit
  <2>2. Mine(u) = owned[u] /\ Mine(u)' = (owned[u] \ {p}) \cup ({p} \cap (bits \ {0}))
    BY <2>1, <1>5 DEF Mine
  <2>3. Mine(u) = Mine(u)'
    BY <2>2, <1>1, <1>4, ActorFacts DEF Others
  <2> QED
    BY <2>1, <2>3, <1>1, <1>2, <1>4, <1>5, ActorFacts DEF Balanced, Others
<1> QED
  BY <1>1, <1>6, <1>7, <1>8, <1>9, StepKeeps

(* A run of pages does, too.                                               *)
LEMMA ReleaseRunKeeps ==
  ASSUME IInv, ~Preempt, NEW u \in Users, NEW p \in Releasable(u), NEW count \in 2 .. MaxRun,
         p .. p + count - 1 \subseteq Releasable(u), ReleaseRun(u, p, count)
  PROVE  IInv'
<1> DEFINE R == p .. p + count - 1
<1>1. Others(u)
  BY DEF ReleaseRun, MayStart, Goto, Others, IInv, TypeOK
<1>2. /\ Total \in Nat /\ MaxRun \in Nat /\ Pages' = Pages /\ Total' = Total /\ Clear' = Clear
  BY <1>1, Sizes, MapStays DEF Others, ReleaseRun, Clear
<1>3. Register(u) /\ Counted(u)
  BY <1>1, ActorFacts DEF Others
<1>4. \A q \in R : /\ q \in 0 .. Total
                   /\ q \in bits \ {0} => q \in owned[u]
                   /\ \A v \in Users \ {u} : q \notin owned[v]
  BY <1>1, ReleasableFacts DEF Others
<1>5. /\ pc[u] = "idle" /\ pc'[u] = "testRun" /\ pos'[u] = p /\ bits' = bits
      /\ n'[u] = count /\ len'[u] = len[u] /\ cached'[u] = free /\ free' = free
      /\ owned'[u] = owned[u] \ R
  BY DEF ReleaseRun, MayStart, Goto, IInv, TypeOK
<1>6. p \in 0 .. Total /\ p + count - 1 \in 0 .. Total /\ len[u] = 0 /\ count \in 2 .. MaxRun
  <2>1. p \in 0 .. Total
    BY <1>1, ReleasableFacts DEF Others
  <2>2. p + count - 1 \in R
    BY <2>1, <1>2
  <2> QED
    BY <2>1, <2>2, <1>3, <1>4, <1>5 DEF Register
<1>7. TypeOK'
  <2>1. owned' \in [Users -> SUBSET Pages]
    BY DEF ReleaseRun, IInv, TypeOK
  <2> QED
    BY <2>1, <1>2, <1>6 DEF ReleaseRun, MayStart, Goto, IInv, TypeOK, Places
<1>8. Register(u)'
  BY <1>2, <1>5, <1>6 DEF Register
<1>9. Counted(u)'
  <2>1. free = Cardinality(Clear)
    BY <1>3, <1>5 DEF Counted
  <2>2. cached'[u] = Cardinality(Clear)' /\ free' = cached'[u] - len'[u]
    BY <2>1, <1>2, <1>5, <1>6 DEF IInv, TypeOK
  <2> QED
    BY <2>2, <1>5 DEF Counted
<1>10. Balanced(u)
  <2>1. Transit(u) = {} /\ Transit(u)' = R
    BY <1>5 DEF Transit
  <2> HIDE DEF R
  <2>2. Mine(u) = owned[u] /\ Mine(u)' = (owned[u] \ R) \cup (R \cap (bits \ {0}))
    BY <2>1, <1>5 DEF Mine
  <2>3. Mine(u) = Mine(u)'
    <3>1. owned[u] \subseteq bits \ {0}
      BY <1>1, ActorFacts DEF Others
    <3> QED
      BY <2>2, <3>1, <1>4
  <2> QED
    BY <2>1, <2>3, <1>1, <1>2, <1>4, <1>5, ActorFacts DEF Balanced, Others
<1> QED
  BY <1>1, <1>7, <1>8, <1>9, <1>10, StepKeeps

(* Testing a bit that is set fetches its word.                             *)
LEMMA TestKeeps ==
  ASSUME IInv, Sole, NEW u \in Users, Test(u)
  PROVE  IInv'
<1>1. Others(u)
  BY DEF Test, Testing, Goto, Sole, Others, IInv, TypeOK
<1>2. /\ Total \in Nat /\ MaxRun \in Nat /\ Pages' = Pages /\ Total' = Total /\ Clear' = Clear
  BY <1>1, Sizes, MapStays DEF Others, Test, Clear
<1>3. Register(u) /\ Counted(u)
  BY <1>1, ActorFacts DEF Others
<1>4. /\ pos'[u] = pos[u] /\ n'[u] = n[u] /\ len'[u] = len[u] /\ cached'[u] = cached[u]
      /\ bits' = bits /\ free' = free /\ owned'[u] = owned[u]
      /\ pos[u] \in bits \ {0}
      /\ snap'[u] = bits \cap Word(pos[u])
  BY DEF Test, IInv, TypeOK
<1>5. \/ pc[u] = "test" /\ pc'[u] = "clear"
      \/ pc[u] = "testRun" /\ n[u] >= 1 /\ pc'[u] = "clearRun"
  BY <1>2 DEF Test, Testing, Goto, IInv, TypeOK
<1>6. TypeOK'
  BY <1>2 DEF Test, Goto, IInv, TypeOK, Places
<1>7. Word(pos[u])' = Word(pos[u])
  BY <1>2, <1>4 DEF Word
<1>8. Register(u)'
  BY <1>2, <1>3, <1>4, <1>5, <1>7 DEF Register
<1>9. Counted(u)'
  BY <1>2, <1>3, <1>4, <1>5 DEF Counted
<1>10. Balanced(u)
  <2>1. Transit(u)' = Transit(u)
    BY <1>4, <1>5 DEF Transit
  <2>2. Mine(u)' = Mine(u)
    BY <2>1, <1>4 DEF Mine
  <2> QED
    BY <2>1, <2>2, <1>1, <1>2, <1>4, ActorFacts DEF Balanced, Others
<1> QED
  BY <1>1, <1>6, <1>8, <1>9, <1>10, StepKeeps

(* A page released twice, page 0 and one beyond the memory are not counted.*)
LEMMA SkipOneKeeps ==
  ASSUME IInv, Sole, NEW u \in Users, SkipOne(u)
  PROVE  IInv'
<1>1. Others(u)
  BY DEF SkipOne, Return, Goto, Sole, Others, IInv, TypeOK
<1>2. /\ Total \in Nat /\ MaxRun \in Nat /\ Pages' = Pages /\ Total' = Total /\ Clear' = Clear
  BY <1>1, Sizes, MapStays DEF Others, SkipOne, Clear
<1>3. Register(u) /\ Counted(u)
  BY <1>1, ActorFacts DEF Others
<1>4. /\ pc[u] = "test" /\ pc'[u] = "idle" /\ len'[u] = 0 /\ bits' = bits /\ free' = free
      /\ owned'[u] = owned[u] /\ pos[u] \notin bits \ {0}
  BY DEF SkipOne, Return, Goto, IInv, TypeOK
<1>5. TypeOK'
  BY <1>2 DEF SkipOne, Return, Goto, IInv, TypeOK, Places
<1>6. Register(u)'
  BY <1>4 DEF Register
<1>7. Counted(u)'
  BY <1>2, <1>3, <1>4 DEF Counted
<1>8. Balanced(u)
  <2>1. Transit(u) = {pos[u]} /\ Transit(u)' = {}
    BY <1>4 DEF Transit
  <2>2. Mine(u)' = Mine(u)
    BY <2>1, <1>4 DEF Mine
  <2> QED
    BY <2>1, <2>2, <1>1, <1>2, <1>4, ActorFacts DEF Balanced, Others
<1> QED
  BY <1>1, <1>5, <1>6, <1>7, <1>8, StepKeeps

(* Clearing a bit in the word that was tested clears that bit only.        *)
LEMMA ClearedFacts ==
  ASSUME IInv, NEW u \in Users, map' = map, bits' = Cleared(u),
         pos[u] \in bits \ {0}, snap[u] = bits \cap Word(pos[u])
  PROVE  /\ bits' = bits \ {pos[u]}
         /\ Clear' = Clear \cup {pos[u]}
         /\ Cardinality(Clear') = Cardinality(Clear) + 1
         /\ Cardinality(Clear') \in 0 .. Total
<1>1. /\ Total \in Nat /\ Pages' = Pages /\ bits \subseteq Pages
      /\ IsFiniteSet(Pages) /\ Cardinality(Pages) = Total /\ IsFiniteSet(Clear)
  BY Sizes, MapStays DEF IInv, TypeOK
<1>2. pos[u] \in Word(pos[u])
  BY <1>1 DEF Word
<1>3. bits' = bits \ {pos[u]}
  BY <1>2 DEF Cleared
<1>4. Clear' = Clear \cup {pos[u]} /\ pos[u] \notin Clear
  BY <1>1, <1>3 DEF Clear
<1>5. Cardinality(Clear') = Cardinality(Clear) + 1
  BY <1>1, <1>4, FS_AddElement
<1>6. Clear' \in SUBSET Pages
  BY <1>1 DEF Clear
<1>7. Cardinality(Clear') <= Total /\ IsFiniteSet(Clear')
  BY <1>1, <1>6, FS_Subset
<1>8. Cardinality(Clear') \in Nat
  BY <1>7, FS_CardinalityType
<1> QED
  BY <1>1, <1>3, <1>4, <1>5, <1>7, <1>8

(* Nor are they inside a run.                                              *)
LEMMA SkipInRunKeeps ==
  ASSUME IInv, Sole, NEW u \in Users, SkipInRun(u)
  PROVE  IInv'
<1>1. Others(u)
  BY DEF SkipInRun, Sole, Others, IInv, TypeOK
<1>2. /\ Total \in Nat /\ MaxRun \in Nat /\ Pages' = Pages /\ Total' = Total /\ Clear' = Clear
  BY <1>1, Sizes, MapStays DEF Others, SkipInRun, Clear
<1>3. Register(u) /\ Counted(u)
  BY <1>1, ActorFacts DEF Others
<1>4. /\ pc[u] = "testRun" /\ pc'[u] = "testRun" /\ n[u] \in 1 .. MaxRun /\ n'[u] = n[u] - 1
      /\ pos'[u] = pos[u] + 1 /\ pos[u] \in Nat /\ len'[u] = len[u] /\ len[u] \in Nat
      /\ bits' = bits /\ free' = free /\ owned'[u] = owned[u] /\ cached'[u] = cached[u]
      /\ pos[u] \notin bits \ {0}
  BY <1>2 DEF SkipInRun, IInv, TypeOK
<1>5. pos[u] + n[u] <= Total + 1 /\ len[u] + n[u] <= MaxRun
  BY <1>3, <1>4 DEF Register
<1>6. TypeOK'
  BY <1>2, <1>4, <1>5 DEF SkipInRun, IInv, TypeOK
<1>7. Register(u)'
  BY <1>2, <1>4, <1>5 DEF Register
<1>8. Counted(u)'
  BY <1>2, <1>3, <1>4 DEF Counted
<1>9. Balanced(u)
  <2>1. Transit(u) = pos[u] .. pos[u] + n[u] - 1 /\ Transit(u)' = pos[u] + 1 .. pos[u] + n[u] - 1
    BY <1>4 DEF Transit
  <2>2. Transit(u) = Transit(u)' \cup {pos[u]}
    BY <2>1, <1>4
  <2>3. Mine(u)' = Mine(u)
    BY <2>2, <1>4 DEF Mine
  <2> QED
    BY <2>2, <2>3, <1>1, <1>2, <1>4, ActorFacts DEF Balanced, Others
<1> QED
  BY <1>1, <1>6, <1>7, <1>8, <1>9, StepKeeps

(* A bit that is set is cleared and counted.                               *)
LEMMA ClearOneKeeps ==
  ASSUME IInv, Sole, NEW u \in Users, ClearOne(u)
  PROVE  IInv'
<1>1. Others(u)
  BY DEF ClearOne, Return, Goto, Sole, Others, IInv, TypeOK
<1>2. /\ Total \in Nat /\ MaxRun \in Nat /\ Pages' = Pages /\ Total' = Total
  BY <1>1, Sizes, MapStays DEF Others
<1>3. Register(u) /\ Counted(u)
  BY <1>1, ActorFacts DEF Others
<1>4. /\ pc[u] = "clear" /\ pc'[u] = "idle" /\ len'[u] = 0
      /\ owned'[u] = owned[u] /\ pos[u] \in bits \ {0}
      /\ snap[u] = bits \cap Word(pos[u])
  BY <1>3 DEF ClearOne, Return, Goto, Register, IInv, TypeOK
<1>5. /\ bits' = bits \ {pos[u]} /\ Clear' = Clear \cup {pos[u]}
      /\ Cardinality(Clear') = Cardinality(Clear) + 1 /\ Cardinality(Clear') \in 0 .. Total
  BY <1>1, <1>4, ClearedFacts DEF ClearOne, Others
<1>6. free' = Cardinality(Clear')
  BY <1>3, <1>4, <1>5 DEF ClearOne, Counted
<1>7. TypeOK'
  <2>1. bits' \subseteq Pages
    BY <1>5 DEF IInv, TypeOK
  <2> QED
    BY <2>1, <1>2, <1>5, <1>6 DEF ClearOne, Return, Goto, IInv, TypeOK, Places
<1>8. Register(u)'
  BY <1>4 DEF Register
<1>9. Counted(u)'
  BY <1>4, <1>6 DEF Counted
<1>10. Balanced(u)
  <2>1. Transit(u) = {pos[u]} /\ Transit(u)' = {}
    BY <1>4 DEF Transit
  <2>2. Clear' \cup Mine(u)' = Clear \cup Mine(u)
    BY <2>1, <1>4, <1>5 DEF Mine
  <2> QED
    BY <2>1, <2>2, <1>1, <1>2, <1>4, <1>5, <1>7, ActorFacts DEF Balanced, Others, TypeOK
<1> QED
  BY <1>1, <1>7, <1>8, <1>9, <1>10, StepKeeps

(* Inside a run it is counted in the register.                             *)
LEMMA ClearInRunKeeps ==
  ASSUME IInv, Sole, NEW u \in Users, ClearInRun(u)
  PROVE  IInv'
<1>1. Others(u)
  BY DEF ClearInRun, Goto, Sole, Others, IInv, TypeOK
<1>2. /\ Total \in Nat /\ MaxRun \in Nat /\ Pages' = Pages /\ Total' = Total
  BY <1>1, Sizes, MapStays DEF Others
<1>3. Register(u) /\ Counted(u)
  BY <1>1, ActorFacts DEF Others
<1>4. /\ pc[u] = "clearRun" /\ pc'[u] = "testRun" /\ n[u] \in 1 .. MaxRun /\ n'[u] = n[u] - 1
      /\ pos'[u] = pos[u] + 1 /\ pos[u] \in Nat /\ len'[u] = len[u] + 1 /\ len[u] \in Nat
      /\ free' = free /\ owned'[u] = owned[u] /\ cached'[u] = cached[u] + 1
      /\ pos[u] \in bits \ {0} /\ snap[u] = bits \cap Word(pos[u])
      /\ pos[u] + n[u] <= Total + 1 /\ len[u] + n[u] <= MaxRun
  <2>1. /\ pc[u] = "clearRun" /\ pc'[u] = "testRun" /\ n'[u] = n[u] - 1
        /\ pos'[u] = pos[u] + 1 /\ len'[u] = len[u] + 1
        /\ free' = free /\ owned'[u] = owned[u] /\ cached'[u] = cached[u] + 1
    BY DEF ClearInRun, Goto, IInv, TypeOK
  <2>2. n[u] \in 0 .. MaxRun /\ pos[u] \in Nat /\ len[u] \in Nat
    BY <1>2 DEF IInv, TypeOK
  <2> QED
    BY <2>1, <2>2, <1>2, <1>3 DEF Register
<1>5. /\ bits' = bits \ {pos[u]} /\ Clear' = Clear \cup {pos[u]}
      /\ Cardinality(Clear') = Cardinality(Clear) + 1 /\ Cardinality(Clear') \in 0 .. Total
  BY <1>1, <1>4, ClearedFacts DEF ClearInRun, Others
<1>6. cached[u] = Cardinality(Clear) /\ free = cached[u] - len[u]
  BY <1>3, <1>4 DEF Counted
<1>7. TypeOK'
  <2>1. bits' \subseteq Pages
    BY <1>5 DEF IInv, TypeOK
  <2>2. cached[u] + 1 \in 0 .. Total /\ len[u] + 1 \in 0 .. MaxRun
        /\ pos[u] + 1 \in 0 .. Total + 1 /\ n[u] - 1 \in 0 .. MaxRun
    BY <1>2, <1>4, <1>5, <1>6
  <2> QED
    BY <2>1, <2>2, <1>2 DEF ClearInRun, Goto, IInv, TypeOK, Places
<1>8. Register(u)'
  BY <1>2, <1>4 DEF Register
<1>9. Counted(u)'
  <2>1. cached'[u] = Cardinality(Clear') /\ free' = cached'[u] - len'[u]
    BY <1>2, <1>4, <1>5, <1>6 DEF IInv, TypeOK
  <2> QED
    BY <2>1, <1>4 DEF Counted
<1>10. Balanced(u)
  <2>1. Transit(u) = pos[u] .. pos[u] + n[u] - 1 /\ Transit(u)' = pos[u] + 1 .. pos[u] + n[u] - 1
    BY <1>4 DEF Transit
  <2>2. Transit(u) = Transit(u)' \cup {pos[u]}
    BY <2>1, <1>4
  <2>3. Clear' \cup Mine(u)' = Clear \cup Mine(u)
    BY <2>2, <1>4, <1>5 DEF Mine
  <2> QED
    BY <2>2, <2>3, <1>1, <1>2, <1>4, <1>5, <1>7, ActorFacts DEF Balanced, Others, TypeOK
<1> QED
  BY <1>1, <1>7, <1>8, <1>9, <1>10, StepKeeps

(* At its end the register holds the right number.                         *)
LEMMA EndRunKeeps ==
  ASSUME IInv, Sole, NEW u \in Users, EndRun(u)
  PROVE  IInv'
<1>1. Others(u)
  BY DEF EndRun, Return, Goto, Sole, Others, IInv, TypeOK
<1>2. /\ Total \in Nat /\ MaxRun \in Nat /\ Pages' = Pages /\ Total' = Total /\ Clear' = Clear
      /\ Cardinality(Clear) \in 0 .. Total
  BY <1>1, Sizes, MapStays DEF Others, EndRun, Clear
<1>3. Register(u) /\ Counted(u)
  BY <1>1, ActorFacts DEF Others
<1>4. /\ pc[u] = "testRun" /\ pc'[u] = "idle" /\ len'[u] = 0 /\ n[u] = 0 /\ bits' = bits
      /\ owned'[u] = owned[u] /\ pos[u] \in Nat /\ len[u] \in Nat
  BY <1>2 DEF EndRun, Return, Goto, IInv, TypeOK
<1>5. free' = Cardinality(Clear)
  <2>1. cached[u] = Cardinality(Clear) /\ free = cached[u] - len[u]
    BY <1>3, <1>4 DEF Counted
  <2> QED
    BY <2>1, <1>2, <1>4 DEF EndRun
<1>6. TypeOK'
  BY <1>2, <1>5 DEF EndRun, Return, Goto, IInv, TypeOK, Places
<1>7. Register(u)'
  BY <1>4 DEF Register
<1>8. Counted(u)'
  BY <1>2, <1>4, <1>5 DEF Counted
<1>9. Balanced(u)
  <2>1. Transit(u) = {} /\ Transit(u)' = {}
    BY <1>4 DEF Transit
  <2>2. Mine(u)' = Mine(u)
    BY <2>1, <1>4 DEF Mine
  <2> QED
    BY <2>1, <2>2, <1>1, <1>2, <1>4, ActorFacts DEF Balanced, Others
<1> QED
  BY <1>1, <1>6, <1>7, <1>8, <1>9, StepKeeps

-----------------------------------------------------------------------------
(* The invariant *)

(* pmm_init counts the bits that it clears.                                *)
LEMMA InitIInv ==
  Init => IInv
<1> SUFFICES ASSUME Init PROVE IInv
  OBVIOUS
<1>1. Total \in Nat /\ FreeAtBoot \subseteq Pages \ {0} /\ MaxRun \in Nat
  BY BootFacts, PmmAssumption, MapsAssumption DEF Init, PmmAssumption
<1>2. Clear = FreeAtBoot
  BY <1>1 DEF Clear, Init
<1>3. free = Cardinality(Clear)
  BY <1>2 DEF Init
<1>4. free \in 0 .. Total
  <2>1. IsFiniteSet(Pages) /\ Cardinality(Pages) = Total
    BY <1>1, FS_Interval DEF Pages
  <2>2. FreeAtBoot \in SUBSET Pages
    BY <1>1
  <2>3. IsFiniteSet(FreeAtBoot) /\ Cardinality(FreeAtBoot) <= Total
    BY <2>1, <2>2, FS_Subset
  <2>4. Cardinality(FreeAtBoot) \in Nat
    BY <2>3, FS_CardinalityType
  <2> QED
    BY <2>3, <2>4, <1>1, <1>2, <1>3
<1>5. TypeOK
  BY <1>1, <1>4 DEF Init, TypeOK, Places
<1>6. \A u \in Users : pc[u] = "idle" /\ len[u] = 0 /\ owned[u] = {} /\ Transit(u) = {}
  BY DEF Init, Transit
<1>7. Sole /\ OneOwner /\ Disjoint
  BY <1>6 DEF Sole, OneOwner, Disjoint
<1>8. Conserved
  BY <1>2, <1>6 DEF Conserved, Mine
<1>9. \A u \in Users : Register(u)
  BY <1>6 DEF Register
<1>10. Counts
  BY <1>3, <1>6 DEF Counts, CountIsRight, Clear
<1> QED
  BY <1>5, <1>7, <1>8, <1>9, <1>10 DEF IInv

(* A stuttering step preserves the invariant.                              *)
LEMMA StillIInv ==
  IInv /\ UNCHANGED vars => IInv'
<1> SUFFICES ASSUME IInv, UNCHANGED vars PROVE IInv'
  OBVIOUS
<1>1. /\ map' = map /\ bits' = bits /\ free' = free /\ pc' = pc /\ n' = n /\ pos' = pos
      /\ len' = len /\ snap' = snap /\ cached' = cached /\ owned' = owned
  BY DEF vars, regs
<1>2. Total' = Total /\ Pages' = Pages /\ FreeAtBoot' = FreeAtBoot /\ Clear' = Clear
  BY <1>1, MapStays DEF Clear
<1>3. TypeOK' /\ Sole' /\ OneOwner'
  BY <1>1, <1>2 DEF IInv, TypeOK, Sole, OneOwner
<1>4. \A u \in Users : Transit(u)' = Transit(u) /\ RunOf(u)' = RunOf(u) /\ Mine(u)' = Mine(u)
  BY <1>1 DEF Transit, RunOf, Mine
<1>5. Disjoint' /\ Conserved'
  BY <1>1, <1>2, <1>4 DEF IInv, Disjoint, Conserved
<1>6. \A u \in Users : Register(u)'
  <2> SUFFICES ASSUME NEW u \in Users PROVE Register(u)'
    OBVIOUS
  <2>1. Word(pos[u])' = Word(pos[u]) /\ Scanning(u)' = Scanning(u)
    BY <1>1, <1>2 DEF Word, Scanning
  <2> QED
    BY <2>1, <1>1, <1>2, <1>4 DEF IInv, Register
<1>7. Counts'
  BY <1>1, <1>2 DEF IInv, Counts, CountIsRight, Quiet, Counted
<1> QED
  BY <1>3, <1>5, <1>6, <1>7 DEF IInv

(* Every step of a call preserves the invariant.                           *)
LEMMA NextIInv ==
  ASSUME IInv, ~Preempt, Next
  PROVE  IInv'
<1> USE DEF IInv
<1>1. PICK u \in Users :
        \/ \E count \in 1 .. MaxRun : Alloc(u, count)
        \/ Scan(u) \/ Fail(u) \/ Find(u) \/ Take(u) \/ TakeRun(u) \/ CountRun(u)
        \/ \E p \in Releasable(u) : ReleaseOne(u, p)
        \/ \E p \in Releasable(u), count \in 2 .. MaxRun :
             p .. p + count - 1 \subseteq Releasable(u) /\ ReleaseRun(u, p, count)
        \/ Test(u) \/ SkipOne(u) \/ SkipInRun(u) \/ ClearOne(u) \/ ClearInRun(u) \/ EndRun(u)
  BY Zenon DEF Next
<1> HIDE DEF IInv
<1>2. Sole
  BY DEF IInv
<1>3. CASE \E count \in 1 .. MaxRun : Alloc(u, count)
  BY <1>3, AllocKeeps
<1>4. CASE Scan(u) \/ Fail(u) \/ Find(u) \/ Take(u) \/ TakeRun(u) \/ CountRun(u)
  BY <1>2, <1>4, ScanKeeps, FailKeeps, FindKeeps, TakeKeeps, TakeRunKeeps, CountRunKeeps
<1>5. CASE \E p \in Releasable(u) : ReleaseOne(u, p)
  BY <1>5, ReleaseOneKeeps
<1>6. CASE \E p \in Releasable(u), count \in 2 .. MaxRun :
             p .. p + count - 1 \subseteq Releasable(u) /\ ReleaseRun(u, p, count)
  BY <1>6, ReleaseRunKeeps
<1>7. CASE \/ Test(u) \/ SkipOne(u) \/ SkipInRun(u)
           \/ ClearOne(u) \/ ClearInRun(u) \/ EndRun(u)
  BY <1>2, <1>7, TestKeeps, SkipOneKeeps, SkipInRunKeeps, ClearOneKeeps, ClearInRunKeeps,
     EndRunKeeps
<1> QED
  BY <1>1, <1>3, <1>4, <1>5, <1>6, <1>7

(* The conservation law and what each call has in hand hold always,        *)
(* whatever the memory map, the size of memory and the number of callers,  *)
(* as long as a call is not interrupted by another.                        *)
THEOREM PmmInvariant ==
  ASSUME ~Preempt
  PROVE  Spec => []IInv
<1>1. Init => IInv
  BY InitIInv
<1>2. IInv /\ [Next]_vars => IInv'
  BY NextIInv, StillIInv
<1> QED
  BY <1>1, <1>2, PTL DEF Spec

(* Addresses and counters stay within the memory: free_pages never falls   *)
(* below 0 nor passes total_pages, which pmm_alloc_page and pmm_free_page  *)
(* do not check (phys_alloc.c:183-206).                                    *)
THEOREM PmmTypes ==
  ASSUME ~Preempt
  PROVE  Spec => []TypeOK
<1>1. IInv => TypeOK
  BY DEF IInv
<1> QED
  BY <1>1, PmmInvariant, PTL

(* pmm_alloc_page and pmm_alloc_pages never give away a page that has an   *)
(* owner, and pmm_free_page clears only the bit of the page it is given.   *)
THEOREM PmmOneOwner ==
  ASSUME ~Preempt
  PROVE  Spec => []OneOwner
<1>1. IInv => OneOwner
  BY DEF IInv
<1> QED
  BY <1>1, PmmInvariant, PTL

(* free_pages is the number of clear bits when no call is in progress: no  *)
(* page is counted twice, however often it is released.                    *)
THEOREM PmmCount ==
  ASSUME ~Preempt
  PROVE  Spec => []CountIsRight
<1>1. IInv => CountIsRight
  BY DEF IInv, Counts
<1> QED
  BY <1>1, PmmInvariant, PTL

(* With all calls over, a page that was free at boot is free or has an     *)
(* owner: no call loses a page.                                            *)
THEOREM PmmConserves ==
  ASSUME ~Preempt
  PROVE  Spec => []NothingLost
<1>1. IInv => NothingLost
  <2> SUFFICES ASSUME IInv, Quiet, NEW p \in FreeAtBoot
               PROVE  p \in (Pages \ bits) \cup UNION {owned[u] : u \in Users}
    BY DEF NothingLost
  <2>1. p \in Clear \/ \E u \in Users : p \in Mine(u)
    BY Sizes DEF IInv, Conserved
  <2>2. \A u \in Users : Mine(u) = owned[u]
    BY DEF Quiet, Mine, Transit
  <2> QED
    BY <2>1, <2>2 DEF Clear
<1> QED
  BY <1>1, PmmInvariant, PTL

(* pmm_alloc_pages returns 0 only when there is no run of that length: the *)
(* run it has in hand starts again right after a used page                 *)
(* (phys_alloc.c:217-234).                                                 *)
THEOREM PmmFails ==
  ASSUME ~Preempt
  PROVE  Spec => FailsOnlyWhenFull
<1> DEFINE A == \A u \in Users :
                  (pc[u] = "scan" /\ pc'[u] = "idle" /\ owned' = owned) =>
                    ~ \E p \in 1 .. Total - n[u] : p .. p + n[u] - 1 \subseteq Pages \ bits
<1>1. IInv /\ [Next]_vars => [A]_vars
  <2> SUFFICES ASSUME IInv, Next, NEW u \in Users, pc[u] = "scan", pc'[u] = "idle",
                      NEW p \in 1 .. Total - n[u]
               PROVE  ~ (p .. p + n[u] - 1 \subseteq Clear)
    BY DEF Clear
  <2>1. Fail(u)
    <3>1. pc \in [Users -> Places]
      BY DEF IInv, TypeOK
    <3>2. PICK v \in Users :
            \/ \E count \in 1 .. MaxRun : Alloc(v, count)
            \/ Scan(v) \/ Fail(v) \/ Find(v) \/ Take(v) \/ TakeRun(v) \/ CountRun(v)
            \/ \E q \in Releasable(v) : ReleaseOne(v, q)
            \/ \E q \in Releasable(v), count \in 2 .. MaxRun :
                 q .. q + count - 1 \subseteq Releasable(v) /\ ReleaseRun(v, q, count)
            \/ Test(v) \/ SkipOne(v) \/ SkipInRun(v) \/ ClearOne(v) \/ ClearInRun(v) \/ EndRun(v)
      BY Zenon DEF Next
    <3>3. CASE \/ \E count \in 1 .. MaxRun : Alloc(v, count)
               \/ \E q \in Releasable(v) : ReleaseOne(v, q)
               \/ \E q \in Releasable(v), count \in 2 .. MaxRun :
                    q .. q + count - 1 \subseteq Releasable(v) /\ ReleaseRun(v, q, count)
      BY <3>1, <3>3 DEF Alloc, ReleaseOne, ReleaseRun, MayStart, Goto
    <3>4. CASE Scan(v) \/ Find(v)
      BY <3>1, <3>4 DEF Scan, Find, Goto
    <3>5. CASE Take(v) \/ TakeRun(v) \/ CountRun(v)
      BY <3>1, <3>5 DEF Take, TakeRun, CountRun, Return, Goto
    <3>6. CASE \/ Test(v) \/ SkipOne(v) \/ SkipInRun(v)
               \/ ClearOne(v) \/ ClearInRun(v) \/ EndRun(v)
      BY <3>1, <3>6 DEF Test, Testing, SkipOne, SkipInRun, ClearOne, ClearInRun, EndRun,
                        Return, Goto
    <3>7. CASE Fail(v)
      BY <3>1, <3>7 DEF Fail, Return, Goto
    <3> QED
      BY <3>2, <3>3, <3>4, <3>5, <3>6, <3>7
  <2>2. Scanning(u) /\ pos[u] >= Total
    BY <2>1 DEF Fail, IInv, Register
  <2>3. n[u] \in Nat /\ len[u] \in Nat /\ pos[u] \in Nat /\ Total \in Nat
    BY Sizes DEF IInv, TypeOK
  <2>4. p \in 1 .. Total /\ p < pos[u] - len[u]
    BY <2>2, <2>3 DEF Scanning
  <2> QED
    BY <2>2, <2>4 DEF Scanning
<1>2. Spec => [][Next]_vars
  BY PTL DEF Spec
<1> QED
  BY <1>1, <1>2, PmmInvariant, PTL DEF FailsOnlyWhenFull

-----------------------------------------------------------------------------
(* Memory that is not there *)

(* Rounding, where the sum does not leave the 32 bits.                     *)
LEMMA Rounded ==
  ASSUME PmmAssumption, NEW x \in Nat
  PROVE  /\ AlignDown(x) = PAGE * (x \div PAGE) /\ AlignDown(x) <= x
         /\ x + PAGE - 1 < ADDRS => \E k \in Nat : AlignUp(x) = PAGE * k /\ PAGE * k >= x
<1>0. PAGE \in Nat \ {0} /\ ADDRS \in Nat
  BY DEF PmmAssumption
<1>1. \A y \in Nat : /\ y - (y % PAGE) = PAGE * (y \div PAGE) /\ y \div PAGE \in Nat
                     /\ y % PAGE \in 0 .. PAGE - 1
  BY <1>0
<1>2. AlignDown(x) = PAGE * (x \div PAGE) /\ AlignDown(x) <= x
  <2>1. x - (x % PAGE) = PAGE * (x \div PAGE) /\ x % PAGE \in 0 .. PAGE - 1
    BY <1>1
  <2>2. AlignDown(x) = x - (x % PAGE)
    BY DEF AlignDown
  <2> QED
    BY <2>1, <2>2
<1>3. ASSUME x + PAGE - 1 < ADDRS
      PROVE  \E k \in Nat : AlignUp(x) = PAGE * k /\ PAGE * k >= x
  <2> DEFINE y == x + PAGE - 1
  <2>1. y \in Nat /\ y % ADDRS = y
    BY <1>0, <1>3
  <2> HIDE DEF y
  <2>2. AlignUp(x) = y - (y % PAGE)
    BY <2>1 DEF AlignUp, y
  <2>3. y - (y % PAGE) >= x
    BY <1>0, <1>1, <2>1, SMTT(30) DEF y
  <2> QED
    BY <1>1, <2>1, <2>2, <2>3
<1> QED
  BY <1>2, <1>3

(* Multiples of the page size and pages correspond.                        *)
LEMMA PageOf ==
  ASSUME PmmAssumption, NEW k \in Nat, NEW p \in Nat
  PROVE  /\ (PAGE * k) \div PAGE = k
         /\ k <= p => PAGE * k <= p * PAGE
<1>0. PAGE \in Nat \ {0}
  BY DEF PmmAssumption
<1>1. (PAGE * k) \div PAGE = k
  BY <1>0
<1>2. ASSUME k <= p PROVE PAGE * k <= p * PAGE
  <2>1. p - k \in Nat
    BY <1>2
  <2>2. PAGE * (p - k) \in Nat
    BY <1>0, <2>1
  <2>3. PAGE * (p - k) = p * PAGE - PAGE * k
    BY <1>0
  <2> QED
    BY <1>0, <2>2, <2>3
<1> QED
  BY <1>1, <1>2

(* No available memory begins in the last page of the address space or     *)
(* beyond it.                                                              *)
LowMemory ==
  \A m \in Maps : \A r \in m.regions : r.avail => r.addr + PAGE <= ADDRS

(* A page that a region gives lies in the region.                          *)
LEMMA AvailableWithin ==
  ASSUME PmmAssumption, MapsAssumption, LowMemory, map \in Maps,
         NEW r \in map.regions, NEW p \in Available(r), Total \in Nat
  PROVE  Within(p, r)
<1> DEFINE start == AlignUp(Clamp(r.addr))
<1> DEFINE last == Clamp(r.addr + r.size)
<1> DEFINE end == AlignDown(last)
<1>0. PAGE \in Nat \ {0} /\ ADDRS \in Nat /\ r.addr \in Nat /\ r.size \in Nat /\ p \in Nat
  BY DEF PmmAssumption, MapsAssumption, Available, Whole, Pages
<1>1. r.avail /\ end > start /\ AlignUp(start) \div PAGE <= p /\ p < AlignDown(end) \div PAGE
  BY DEF Available, Whole
<1>2. r.addr + PAGE <= ADDRS
  BY <1>1 DEF LowMemory
<1>3. Clamp(r.addr) = r.addr /\ last \in Nat /\ last <= r.addr + r.size /\ last < ADDRS
  BY <1>0, <1>2 DEF Clamp, Least
<1> HIDE DEF last
<1>4. end = PAGE * (last \div PAGE) /\ end <= last /\ last \div PAGE \in Nat
  <2>1. end = PAGE * (last \div PAGE) /\ end <= last
    BY <1>3, Rounded, PmmAssumption
  <2>2. last \div PAGE \in Nat
    BY <1>0, <1>3
  <2> QED
    BY <2>1, <2>2
<1>5. PICK k \in Nat : start = PAGE * k /\ PAGE * k >= r.addr
  <2>1. r.addr + PAGE - 1 < ADDRS
    BY <1>0, <1>2
  <2>2. start = AlignUp(r.addr)
    BY <1>3
  <2> HIDE DEF start
  <2> QED
    BY <2>1, <2>2, <1>0, Rounded, PmmAssumption
<1> HIDE DEF start, end
<1>6. AlignDown(end) \div PAGE = last \div PAGE
  <2>1. AlignDown(end) = PAGE * (end \div PAGE)
    BY <1>0, <1>4, Rounded
  <2>2. end \div PAGE = last \div PAGE
    BY <1>4, PageOf
  <2> QED
    BY <2>1, <2>2, <1>4, PageOf
<1>7. (p + 1) * PAGE <= r.addr + r.size
  <2>1. p + 1 <= last \div PAGE
    BY <1>0, <1>1, <1>4, <1>6
  <2>2. PAGE * (p + 1) <= (last \div PAGE) * PAGE
    BY <2>1, <1>0, <1>4, PageOf
  <2>3. PAGE * (p + 1) = (p + 1) * PAGE /\ (last \div PAGE) * PAGE = end /\ PAGE * (p + 1) \in Nat
    BY <1>0, <1>4
  <2> QED
    BY <2>2, <2>3, <1>0, <1>3, <1>4
<1>8. r.addr <= p * PAGE
  <2>1. start + PAGE - 1 < ADDRS
    <3>1. k < last \div PAGE
      <4>1. SUFFICES ASSUME last \div PAGE <= k PROVE FALSE
        BY <1>4
      <4>2. PAGE * (last \div PAGE) <= k * PAGE
        BY <4>1, <1>4, PageOf
      <4> QED
        BY <4>2, <1>0, <1>1, <1>4, <1>5
    <3>2. PAGE * (k + 1) <= (last \div PAGE) * PAGE
      BY <3>1, <1>4, PageOf
    <3>3. PAGE * (k + 1) = start + PAGE /\ (last \div PAGE) * PAGE = end /\ start \in Nat
      BY <1>0, <1>4, <1>5
    <3> QED
      BY <3>2, <3>3, <1>0, <1>3, <1>4
  <2>2. start \in Nat
    BY <1>0, <1>5
  <2>3. PICK j \in Nat : AlignUp(start) = PAGE * j /\ PAGE * j >= start
    BY <2>1, <2>2, Rounded
  <2>4. j <= p
    BY <2>3, <1>0, <1>1, PageOf
  <2>5. PAGE * j <= p * PAGE
    BY <2>4, <1>0, PageOf
  <2> QED
    BY <2>3, <2>5, <1>0, <1>5
<1> QED
  BY <1>1, <1>7, <1>8 DEF Within

(* On a machine whose available memory begins below the last page of the   *)
(* 32-bit address space, a page that is handed out lies within an available*)
(* region and is not part of the kernel.  The hypothesis is needed:        *)
(* pmm_high shows what the alignment at phys_alloc.c:107-114 does without it.*)
THEOREM PmmOnlyAvailable ==
  ASSUME ~Preempt, LowMemory
  PROVE  Spec => []OnlyAvailable
<1>1. IInv => OnlyAvailable
  <2> SUFFICES ASSUME IInv, map.mmap, NEW u \in Users, NEW p \in owned[u]
               PROVE  p \notin KernelPages /\ \E r \in map.regions : Within(p, r)
    BY DEF OnlyAvailable
  <2>1. p \in FreeAtBoot
    <3>1. p \in Pages
      BY DEF IInv, TypeOK
    <3> QED
      BY <3>1 DEF IInv, Conserved, Mine
  <2>2. p \notin KernelPages
    BY <2>1 DEF FreeAtBoot
  <2>3. PICK r \in map.regions : p \in Available(r)
    BY <2>1 DEF FreeAtBoot
  <2>4. Within(p, r)
    BY <2>3, AvailableWithin, Sizes, PmmAssumption, MapsAssumption DEF IInv, TypeOK
  <2> QED
    BY <2>2, <2>4
<1> QED
  BY <1>1, PmmInvariant, PTL
=============================================================================
