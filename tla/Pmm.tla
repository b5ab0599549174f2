-------------------------------- MODULE Pmm --------------------------------
(***************************************************************************)
(* The physical page allocator of src/kernal/mm/phys_alloc.c: pmm_init on  *)
(* the boot loader's memory map, and allocation and release of one page or *)
(* of a run of pages.                                                      *)
(*                                                                         *)
(* Nothing in it is locked.  The bits of WORD pages share a word, and the  *)
(* build (src/kernal/kernel.asm:2571-2592, :2619-2631) keeps the word it   *)
(* tested in a register and stores the changed copy back, so testing a bit *)
(* and writing its word are two steps.  pmm_alloc_pages ORs its bits into  *)
(* memory, and both multi-page calls hold free_pages in a register from    *)
(* their marking to their end (kernel.asm:2668-2681, :2716-2742).          *)
(*                                                                         *)
(* With Preempt FALSE a call is not interrupted by another one, as during  *)
(* boot (kernel.c:445 enables interrupts last).                            *)
(***************************************************************************)
EXTENDS Integers, FiniteSets

CONSTANTS
  Users,     \* tasks and interrupt handlers that call the allocator
  Preempt,   \* whether a call may be interrupted by another
  ADDRS,     \* 2^32
  PAGE,      \* PAGE_SIZE
  LIMIT,     \* PHYS_MEM_MAX
  MEG,       \* 0x100000
  WORD,      \* pages to a word of the bitmap: 32
  KernStart, KernEnd,  \* _kernel_start, _kernel_end
  MaxRun,    \* bound: pages of one call
  Maps       \* the memory maps a machine may have

ASSUME PmmAssumption ==
  /\ Preempt \in BOOLEAN
  /\ PAGE \in Nat \ {0}
  /\ WORD \in Nat \ {0}
  /\ {ADDRS, LIMIT, MEG, KernStart, KernEnd, MaxRun} \subseteq Nat
  /\ LIMIT + PAGE < ADDRS
  /\ IsFiniteSet(Users)

(* Addresses and sizes of a memory map are 64-bit numbers.                 *)
ASSUME MapsAssumption ==
  \A m \in Maps :
    /\ m.upper \in Nat
    /\ \A r \in m.regions : r.addr \in Nat /\ r.size \in Nat

VARIABLES
  map,     \* the multiboot information
  bits,    \* the pages whose bit is set
  free,    \* free_pages
  pc,      \* where each user is
  n,       \* pages its call is about
  pos,     \* the page it looks at
  len,     \* run_len
  snap,    \* the word it has in a register
  cached,  \* free_pages in a register
  owned    \* ghost: the pages a user was given and has not released

regs == <<n, pos, len, snap, cached>>
vars == <<map, bits, free, pc, regs, owned>>

-----------------------------------------------------------------------------
(* pmm_init *)

Least(a, b) == IF a < b THEN a ELSE b

(* ALIGN_UP in 32 bits, ALIGN_DOWN                                         *)
AlignUp(x)   == LET y == (x + PAGE - 1) % ADDRS IN y - (y % PAGE)
AlignDown(x) == x - (x % PAGE)

(* A 64-bit address as 32 bits: clamped.                                   *)
Clamp(x) == Least(x, ADDRS - 1)

(* The highest available byte, else what mem_upper says; capped.           *)
MemBytes ==
  LET ends == {Clamp(r.addr + r.size) : r \in {s \in map.regions : s.avail}} \ {0}
      top  == IF map.mmap /\ ends # {} THEN CHOOSE e \in ends : \A f \in ends : f <= e
              ELSE (MEG + map.upper) % ADDRS
  IN  Least(top, LIMIT)

Total == AlignUp(MemBytes) \div PAGE
Pages == 0 .. Total - 1

(* pmm_mark_free, pmm_mark_used: the pages of a range of addresses.        *)
Whole(start, end)   == {p \in Pages : AlignUp(start) \div PAGE <= p /\ p < AlignDown(end) \div PAGE}
Touched(start, end) == {p \in Pages : start \div PAGE <= p /\ p < end \div PAGE}

(* Mutant: the end is aligned outward.                                     *)
AvailableOutward(r) ==
  LET start == AlignUp(Clamp(r.addr))
      end   == AlignUp(Clamp(r.addr + r.size))
  IN  IF r.avail /\ end > start THEN Whole(start, end) ELSE {}

(* The pages a region of the map gives.                                    *)
Available(r) ==
  LET start == AlignUp(Clamp(r.addr))
      end   == AlignDown(Clamp(r.addr + r.size))
  IN  IF r.avail /\ end > start THEN Whole(start, end) ELSE {}

BitmapBytes == AlignUp((Total + 7) \div 8)

(* Page 0, the kernel image and the bitmap behind it.                      *)
KernelPages ==
  Touched(0, PAGE) \cup Touched(AlignDown(KernStart), AlignUp(KernEnd))
    \cup Touched(AlignDown(KernEnd), AlignUp(KernEnd + BitmapBytes))

FreeAtBoot ==
  (IF map.mmap THEN UNION {Available(r) : r \in map.regions}
   ELSE Whole(PAGE, map.lower) \cup Whole(MEG, MemBytes)) \ KernelPages

Init ==
  /\ map \in Maps
  /\ bits = Pages \ FreeAtBoot
  /\ free = Cardinality(FreeAtBoot)
  /\ pc = [u \in Users |-> "idle"]
  /\ n = [u \in Users |-> 0]
  /\ pos = [u \in Users |-> 0]
  /\ len = [u \in Users |-> 0]
  /\ snap = [u \in Users |-> {}]
  /\ cached = [u \in Users |-> 0]
  /\ owned = [u \in Users |-> {}]

-----------------------------------------------------------------------------
(* Calls *)

Word(p) == {q \in Pages : q \div WORD = p \div WORD}

Goto(u, place) == pc' = [pc EXCEPT ![u] = place]

(* The registers of a call that is over mean nothing.                      *)
Return(u) ==
  /\ Goto(u, "idle")
  /\ n' = [n EXCEPT ![u] = 0]
  /\ pos' = [pos EXCEPT ![u] = 0]
  /\ len' = [len EXCEPT ![u] = 0]
  /\ snap' = [snap EXCEPT ![u] = {}]
  /\ cached' = [cached EXCEPT ![u] = 0]

MayStart(u) ==
  /\ pc[u] = "idle"
  /\ Preempt \/ \A v \in Users : pc[v] = "idle"

(* pmm_alloc_page, pmm_alloc_pages: from page 1 on.                        *)
Alloc(u, count) ==
  /\ MayStart(u)
  /\ n' = [n EXCEPT ![u] = count]
  /\ pos' = [pos EXCEPT ![u] = 1]
  /\ Goto(u, "scan")
  /\ UNCHANGED <<map, bits, free, len, snap, cached, owned>>

(* Mutant: a used page does not end the run.                               *)
PassOver(u) ==
  /\ pos[u] \in bits
  /\ pos' = [pos EXCEPT ![u] = @ + 1]
  /\ UNCHANGED <<n, len, snap, cached>>

PassUsed(u) ==
  /\ pos[u] \in bits
  /\ pos' = [pos EXCEPT ![u] = @ + 1]
  /\ len' = [len EXCEPT ![u] = 0]
  /\ UNCHANGED <<n, snap, cached>>

PassFree(u) ==
  /\ pos[u] \notin bits
  /\ len[u] + 1 < n[u]
  /\ pos' = [pos EXCEPT ![u] = @ + 1]
  /\ len' = [len EXCEPT ![u] = @ + 1]
  /\ UNCHANGED <<n, snap, cached>>

Scan(u) ==
  /\ pc[u] = "scan"
  /\ pos[u] < Total
  /\ PassUsed(u) \/ PassFree(u)
  /\ UNCHANGED <<map, bits, free, pc, owned>>

(* Mutant: the last page is not looked at.                                 *)
FailEarly(u) ==
  /\ pc[u] = "scan"
  /\ pos[u] >= Total - 1
  /\ Return(u)
  /\ UNCHANGED <<map, bits, free, owned>>

Fail(u) ==
  /\ pc[u] = "scan"
  /\ pos[u] >= Total
  /\ Return(u)
  /\ UNCHANGED <<map, bits, free, owned>>

(* The bit that is tested last is clear: the word stays in the register.   *)
Find(u) ==
  /\ pc[u] = "scan"
  /\ pos[u] < Total
  /\ pos[u] \notin bits
  /\ len[u] + 1 = n[u]
  /\ snap' = [snap EXCEPT ![u] = bits \cap Word(pos[u])]
  /\ Goto(u, IF n[u] = 1 THEN "take" ELSE "takeRun")
  /\ UNCHANGED <<map, bits, free, n, pos, len, cached, owned>>

Take(u) ==
  /\ pc[u] = "take"
  /\ bits' = (bits \ Word(pos[u])) \cup snap[u] \cup {pos[u]}
  /\ free' = free - 1
  /\ owned' = [owned EXCEPT ![u] = @ \cup {pos[u]}]
  /\ Return(u)
  /\ UNCHANGED map

RunOf(u) == pos[u] - n[u] + 1 .. pos[u]

(* Mutant: the last page of the run is not marked.                         *)
TakeRunShort(u) ==
  /\ pc[u] = "takeRun"
  /\ cached' = [cached EXCEPT ![u] = free]
  /\ bits' = bits \cup (RunOf(u) \ {pos[u]})
  /\ Goto(u, "count")
  /\ UNCHANGED <<map, free, n, pos, len, snap, owned>>

TakeRun(u) ==
  /\ pc[u] = "takeRun"
  /\ cached' = [cached EXCEPT ![u] = free]
  /\ bits' = bits \cup RunOf(u)
  /\ Goto(u, "count")
  /\ UNCHANGED <<map, free, n, pos, len, snap, owned>>

CountRun(u) ==
  /\ pc[u] = "count"
  /\ free' = cached[u] - n[u]
  /\ owned' = [owned EXCEPT ![u] = @ \cup RunOf(u)]
  /\ Return(u)
  /\ UNCHANGED <<map, bits>>

-----------------------------------------------------------------------------
(* Releasing pages *)

(* What a caller may pass: a page it owns; one that is free (a second      *)
(* release); 0, which a failed allocation returns; one beyond the memory.  *)
Releasable(u) == owned[u] \cup (Pages \ bits) \cup {0, Total}

ReleaseOne(u, p) ==
  /\ MayStart(u)
  /\ owned' = [owned EXCEPT ![u] = @ \ {p}]
  /\ pos' = [pos EXCEPT ![u] = p]
  /\ Goto(u, "test")
  /\ UNCHANGED <<map, bits, free, n, len, snap, cached>>

(* Mutant: one page too few.                                               *)
ReleaseRunShort(u, p, count) ==
  /\ MayStart(u)
  /\ owned' = [owned EXCEPT ![u] = @ \ (p .. p + count - 1)]
  /\ n' = [n EXCEPT ![u] = count - 1]
  /\ pos' = [pos EXCEPT ![u] = p]
  /\ cached' = [cached EXCEPT ![u] = free]
  /\ Goto(u, "testRun")
  /\ UNCHANGED <<map, bits, free, len, snap>>

ReleaseRun(u, p, count) ==
  /\ MayStart(u)
  /\ owned' = [owned EXCEPT ![u] = @ \ (p .. p + count - 1)]
  /\ n' = [n EXCEPT ![u] = count]
  /\ pos' = [pos EXCEPT ![u] = p]
  /\ cached' = [cached EXCEPT ![u] = free]
  /\ Goto(u, "testRun")
  /\ UNCHANGED <<map, bits, free, len, snap>>

Testing(u) == pc[u] = "test" \/ (pc[u] = "testRun" /\ n[u] > 0)

(* Mutant: the bit is not looked at.                                       *)
TestBlind(u) ==
  /\ Testing(u)
  /\ pos[u] \in Pages \ {0}
  /\ snap' = [snap EXCEPT ![u] = bits \cap Word(pos[u])]
  /\ Goto(u, IF pc[u] = "test" THEN "clear" ELSE "clearRun")
  /\ UNCHANGED <<map, bits, free, n, pos, len, cached, owned>>

(* The bit is set: the word stays in the register.                         *)
Test(u) ==
  /\ Testing(u)
  /\ pos[u] \in bits \ {0}
  /\ snap' = [snap EXCEPT ![u] = bits \cap Word(pos[u])]
  /\ Goto(u, IF pc[u] = "test" THEN "clear" ELSE "clearRun")
  /\ UNCHANGED <<map, bits, free, n, pos, len, cached, owned>>

(* It is clear already, or there is no such page: nothing is done for it.  *)
SkipOne(u) ==
  /\ pc[u] = "test"
  /\ pos[u] \notin bits \ {0}
  /\ Return(u)
  /\ UNCHANGED <<map, bits, free, owned>>

SkipInRun(u) ==
  /\ pc[u] = "testRun" /\ n[u] > 0
  /\ pos[u] \notin bits \ {0}
  /\ n' = [n EXCEPT ![u] = @ - 1]
  /\ pos' = [pos EXCEPT ![u] = @ + 1]
  /\ UNCHANGED <<map, bits, free, pc, len, snap, cached, owned>>

Cleared(u) == (bits \ Word(pos[u])) \cup (snap[u] \ {pos[u]})

ClearOne(u) ==
  /\ pc[u] = "clear"
  /\ bits' = Cleared(u)
  /\ free' = free + 1
  /\ Return(u)
  /\ UNCHANGED <<map, owned>>

ClearInRun(u) ==
  /\ pc[u] = "clearRun"
  /\ bits' = Cleared(u)
  /\ n' = [n EXCEPT ![u] = @ - 1]
  /\ pos' = [pos EXCEPT ![u] = @ + 1]
  /\ len' = [len EXCEPT ![u] = @ + 1]
  /\ cached' = [cached EXCEPT ![u] = @ + 1]
  /\ Goto(u, "testRun")
  /\ UNCHANGED <<map, free, snap, owned>>

(* The register goes to free_pages if any page was released.               *)
EndRun(u) ==
  /\ pc[u] = "testRun" /\ n[u] = 0
  /\ free' = IF len[u] > 0 THEN cached[u] ELSE free
  /\ Return(u)
  /\ UNCHANGED <<map, bits, owned>>

Next ==
  \E u \in Users :
    \/ \E count \in 1 .. MaxRun : Alloc(u, count)
    \/ Scan(u) \/ Fail(u) \/ Find(u) \/ Take(u) \/ TakeRun(u) \/ CountRun(u)
    \/ \E p \in Releasable(u) : ReleaseOne(u, p)
    \/ \E p \in Releasable(u), count \in 2 .. MaxRun :
         p .. p + count - 1 \subseteq Releasable(u) /\ ReleaseRun(u, p, count)
    \/ Test(u) \/ SkipOne(u) \/ SkipInRun(u) \/ ClearOne(u) \/ ClearInRun(u) \/ EndRun(u)

Spec == Init /\ [][Next]_vars

-----------------------------------------------------------------------------
(* Properties *)

Places == {"idle", "scan", "take", "takeRun", "count", "test", "testRun", "clear", "clearRun"}

TypeOK ==
  /\ map \in Maps
  /\ bits \subseteq Pages
  /\ free \in 0 .. Total
  /\ pc \in [Users -> Places]
  /\ n \in [Users -> 0 .. MaxRun]
  /\ pos \in [Users -> 0 .. Total + 1]
  /\ len \in [Users -> 0 .. MaxRun]
  /\ snap \in [Users -> SUBSET Pages]
  /\ cached \in [Users -> 0 .. Total]
  /\ owned \in [Users -> SUBSET Pages]

Quiet == \A u \in Users : pc[u] = "idle"

(* free_pages, which the memory statistics and the debug shell report, is  *)
(* the number of clear bits whenever no call is in progress.               *)
CountIsRight == Quiet => free = Cardinality(Pages \ bits)

(* A page has one owner, and its bit stays set as long as it has one.      *)
OneOwner ==
  /\ \A u \in Users : owned[u] \subseteq bits
  /\ \A u, v \in Users : u # v => owned[u] \cap owned[v] = {}

(* No bit is lost: with all calls over, a page the boot loader made        *)
(* available is free or has an owner.                                      *)
NothingLost == Quiet => FreeAtBoot \subseteq (Pages \ bits) \cup UNION {owned[u] : u \in Users}

(* A call for a run only fails when there is none.                         *)
FailsOnlyWhenFull ==
  [][\A u \in Users :
       (pc[u] = "scan" /\ pc'[u] = "idle" /\ owned' = owned) =>
         ~ \E p \in 1 .. Total - n[u] : p .. p + n[u] - 1 \subseteq Pages \ bits]_vars

(* mm.h:44: pmm_init "marks all pages as reserved, then sets free pages    *)
(* according to the multiboot memory map".  So a page that is not within   *)
(* an available region, or is part of the kernel, is never handed out.     *)
Within(p, r) == r.avail /\ r.addr <= p * PAGE /\ (p + 1) * PAGE <= r.addr + r.size

OnlyAvailable ==
  map.mmap => \A u \in Users : \A p \in owned[u] :
    p \notin KernelPages /\ \E r \in map.regions : Within(p, r)
=============================================================================
