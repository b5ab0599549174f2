---------------------------- MODULE MemoryProofs ----------------------------
(***************************************************************************)
(* Theorems about what the kernel keeps in memory and on disks.  A page    *)
(* that nobody touches while it is swapped keeps what was written to it;   *)
(* the blocks of the heap stay apart and what is used is what callers      *)
(* hold; the objects of the slab cache are those of areas; the page tables *)
(* map each page to a frame of its own; the debugger's commands are those  *)
(* the stub runs.  At the end all parts of Memory are put together.        *)
(***************************************************************************)
EXTENDS Memory, FileProofs

-----------------------------------------------------------------------------
(* Sequences                                                               *)

(* The sequence with an element put in at a place.                         *)
PutIn(s, i, e) == SubSeq(s, 1, i - 1) \o <<e>> \o SubSeq(s, i, Len(s))

LEMMA Inserting ==
  ASSUME NEW S, NEW s \in Seq(S), NEW e \in S, NEW i \in 1 .. Len(s) + 1
  PROVE  /\ PutIn(s, i, e) \in Seq(S) /\ Len(PutIn(s, i, e)) = Len(s) + 1
         /\ \A k \in 1 .. Len(s) + 1 :
              PutIn(s, i, e)[k] = IF k < i THEN s[k] ELSE IF k = i THEN e ELSE s[k - 1]
<1> DEFINE n == Len(s)
           a == SubSeq(s, 1, i - 1)
           b == SubSeq(s, i, n)
<1>1. n \in Nat /\ i \in Int /\ \A k \in 1 .. n : s[k] \in S
  BY LenProperties, ElementOfSeq
<1>2. /\ a \in Seq(S) /\ Len(a) = i - 1
      /\ \A k \in 1 .. i - 1 : a[k] = s[k]
  <2>1. 1 \in Int /\ i - 1 \in Int /\ \A k \in 1 .. i - 1 : s[k] \in S
    BY <1>1
  <2>2. /\ a \in Seq(S)
        /\ Len(a) = IF 1 <= i - 1 THEN i - 1 - 1 + 1 ELSE 0
        /\ \A k \in 1 .. i - 1 - 1 + 1 : a[k] = s[1 + k - 1]
    BY <2>1, SubSeqProperties
  <2> HIDE DEF a
  <2> QED
    BY <1>1, <2>2
<1>3. /\ b \in Seq(S) /\ Len(b) = n - i + 1
      /\ \A k \in 1 .. n - i + 1 : b[k] = s[k + i - 1]
  <2>1. n \in Int /\ i \in Int /\ \A k \in i .. n : s[k] \in S
    BY <1>1
  <2> HIDE DEF n
  <2>2. /\ b \in Seq(S)
        /\ Len(b) = IF i <= n THEN n - i + 1 ELSE 0
        /\ \A k \in 1 .. n - i + 1 : b[k] = s[i + k - 1]
    BY <2>1, SubSeqProperties
  <2> HIDE DEF b
  <2>3. i <= n + 1
    <3>1. Len(s) \in Nat /\ n = Len(s)
      BY LenProperties DEF n
    <3> QED
      BY <3>1
  <2>4. Len(b) = n - i + 1
    BY <2>1, <2>2, <2>3
  <2>5. ASSUME NEW k \in 1 .. n - i + 1 PROVE b[k] = s[k + i - 1]
    <3>1. i + k - 1 = k + i - 1
      BY <2>1
    <3> QED
      BY <2>2, <3>1
  <2> QED
    BY <2>2, <2>4, <2>5
<1> DEFINE c == a \o <<e>>
<1>4. <<e>> \in Seq(S) /\ Len(<<e>>) = 1 /\ <<e>>[1] = e
  OBVIOUS
<1> HIDE DEF n, a, b
<1>5. /\ c \in Seq(S) /\ Len(c) = i
      /\ \A k \in 1 .. i : c[k] = IF k < i THEN s[k] ELSE e
  <2>1. /\ c \in Seq(S) /\ Len(c) = Len(a) + 1
        /\ \A k \in 1 .. Len(a) + 1 : c[k] = IF k <= Len(a) THEN a[k] ELSE <<e>>[k - Len(a)]
    BY <1>2, <1>4, ConcatProperties
  <2> HIDE DEF c
  <2> QED
    BY <1>2, <1>4, <2>1
<1> HIDE DEF c
<1>6. /\ c \o b \in Seq(S) /\ Len(c \o b) = n + 1
      /\ \A k \in 1 .. n + 1 : (c \o b)[k] = IF k <= i THEN c[k] ELSE b[k - i]
  <2>1. /\ c \o b \in Seq(S) /\ Len(c \o b) = Len(c) + Len(b)
        /\ \A k \in 1 .. Len(c) + Len(b) : (c \o b)[k] = IF k <= Len(c) THEN c[k] ELSE b[k - Len(c)]
    BY <1>3, <1>5, ConcatProperties
  <2>2. Len(c) + Len(b) = n + 1
    BY <1>1, <1>3, <1>5
  <2> QED
    BY <1>5, <2>1, <2>2
<1>7. ASSUME NEW k \in 1 .. n + 1
      PROVE  (c \o b)[k] = IF k < i THEN s[k] ELSE IF k = i THEN e ELSE s[k - 1]
  <2>1. CASE k <= i
    BY <1>5, <1>6, <2>1
  <2>2. CASE k > i
    <3>1. k - i \in 1 .. n - i + 1 /\ k - i + i - 1 = k - 1
      BY <1>1, <2>2
    <3> QED
      BY <1>3, <1>6, <2>2, <3>1
  <2>3. k <= i \/ k > i
    BY <1>1
  <2> QED
    BY <2>1, <2>2, <2>3
<1> QED
  BY <1>6, <1>7 DEF a, b, c, n, PutIn

-----------------------------------------------------------------------------
(* Swapping *)

Rows == 1 .. LookupSize

(* The table: pages from its beginning, each once, and for each a slot of  *)
(* its own that is taken, or none.                                         *)
TableTrue ==
  /\ \A i, j \in Rows : i < j /\ lookup[i].virt = None => lookup[j].virt = None
  /\ \A i, j \in Rows : lookup[i].virt = lookup[j].virt /\ lookup[i].virt # None => i = j
  /\ \A i, j \in Rows : lookup[i].slot = lookup[j].slot /\ lookup[i].slot # -1 => i = j
  /\ \A i \in Rows : /\ lookup[i].virt = None => lookup[i].slot = -1
                     /\ lookup[i].slot # -1 => lookup[i].slot \in slot_bitmap

(* A worker that is in a call has a page, which no other worker has.       *)
WorkersApart ==
  /\ \A w \in Workers :
       IF worker[w].op = "idle" THEN worker[w].page = None
       ELSE worker[w].page \in Pages /\ worker[w].frame \in FrameSet /\ worker[w].slot \in Slots
  /\ \A w, x \in Workers : worker[w].page = worker[x].page /\ worker[w].page # None => w = x

(* A frame is free, or of one page, or of the worker that reads into it.   *)
FramesApart ==
  /\ \A u, v \in Pages : pte[u] = pte[v] /\ pte[u] # None => u = v
  /\ \A v \in Pages : pte[v] \notin freeFrames
  /\ \A w \in Workers :
       worker[w].op \in {"write", "unmap", "forget"} => pte[worker[w].page] = worker[w].frame
  /\ \A w \in Workers : worker[w].op = "read" =>
       /\ worker[w].frame \notin freeFrames
       /\ \A v \in Pages : pte[v] # worker[w].frame
       /\ \A x \in Workers : worker[x].op = "read" /\ worker[x].frame = worker[w].frame => x = w

(* The slot of a swap_out is in no row of the table yet and of no other    *)
(* worker; that of a swap_in is the one in the row of its page.            *)
SlotsApart ==
  /\ \A w \in Workers : worker[w].op \in {"write", "unmap", "note"} =>
       /\ worker[w].slot \in slot_bitmap
       /\ \A i \in Rows : lookup[i].slot # worker[w].slot
       /\ \A x \in Workers :
            worker[x].op \in {"write", "unmap", "note"} /\ worker[x].slot = worker[w].slot => x = w
  /\ \A w \in Workers : worker[w].op \in {"read", "forget"} =>
       \E i \in Rows : lookup[i].virt = worker[w].page /\ lookup[i].slot = worker[w].slot

(* What was last written to v is in its frame, on its way, or in the slot  *)
(* of its row, and a row with a slot means that the frame is gone, up to   *)
(* the end of swap_in.                                                     *)
Kept(v) ==
  /\ pte[v] # None => mem[pte[v]] = last[v]
  /\ \A w \in Workers : worker[w].page = v =>
       /\ worker[w].op \in {"unmap", "note"} => disk[worker[w].slot] = last[v]
       /\ worker[w].op \in {"note", "read"} => pte[v] = None
  /\ \A i \in Rows : lookup[i].virt = v /\ lookup[i].slot # -1 =>
       \/ /\ pte[v] = None /\ disk[lookup[i].slot] = last[v]
          /\ \A w \in Workers : worker[w].page = v => worker[w].op = "read"
       \/ \E w \in Workers : worker[w].page = v /\ worker[w].op = "forget"
  /\ pte[v] = None =>
       \/ \E w \in Workers : worker[w].page = v /\ worker[w].op = "note"
       \/ \E i \in Rows : lookup[i].virt = v /\ lookup[i].slot # -1

SwapInv ==
  /\ SwapTypeOK
  /\ TableTrue
  /\ WorkersApart
  /\ FramesApart
  /\ SlotsApart
  /\ \A v \in Safe : Kept(v)

LEMMA NoneApart ==
  /\ \A v \in Pages : v # None
  /\ \A f \in FrameSet : f # None
  /\ \A s \in Slots : s # -1
  /\ Rows \subseteq Nat
BY SwapAssumption DEF Slots, Rows

(* Once a row is there, it is the one the table answers with.              *)
LEMMA RowOf ==
  ASSUME TableTrue, NEW v \in Pages
  PROVE  /\ \A i \in Rows : lookup[i].virt = v => LookupGet(v) = lookup[i].slot
         /\ (\A i \in Rows : lookup[i].virt # v) => LookupGet(v) = -1
<1> DEFINE here == {i \in Rows : lookup[i].virt = v}
<1>1. v # None /\ Rows \subseteq Nat
  BY NoneApart
<1>2. ASSUME NEW i \in Rows, lookup[i].virt = v PROVE LookupGet(v) = lookup[i].slot
  <2>1. here # {} /\ here \subseteq Nat
    BY <1>1, <1>2
  <2>2. Min(here) \in here
    BY <2>1, MinFacts
  <2>3. Min(here) = i
    BY <1>1, <1>2, <2>2 DEF TableTrue
  <2>4. LookupGet(v) = lookup[Min(here)].slot
    BY <2>1 DEF LookupGet, Rows
  <2> QED
    BY <2>3, <2>4
<1>3. ASSUME \A i \in Rows : lookup[i].virt # v PROVE LookupGet(v) = -1
  BY <1>3 DEF LookupGet, Rows
<1> QED
  BY <1>2, <1>3

(* The row lookup_set writes to.                                           *)
LEMMA RowSet ==
  ASSUME TableTrue, NEW v \in Pages, Places(v) # {}
  PROVE  \E k \in Rows :
           /\ \A s : LookupSet(v, s) = [lookup EXCEPT ![k] = [virt |-> v, slot |-> s]]
           /\ lookup[k].virt \in {None, v}
           /\ \A j \in Rows : j < k => lookup[j].virt \notin {None, v}
           /\ \A j \in Rows : j # k => lookup[j].virt # v
<1> DEFINE k == Min(Places(v))
<1>1. v # None /\ Rows \subseteq Nat /\ LookupSize \in Nat
  BY NoneApart, SwapAssumption
<1>2. k \in Places(v) /\ \A j \in Places(v) : k <= j
  <2>1. Places(v) \subseteq Nat
    BY <1>1 DEF Places, Rows
  <2> QED
    BY <2>1, MinFacts
<1>3. \A s : LookupSet(v, s) = [lookup EXCEPT ![k] = [virt |-> v, slot |-> s]]
  BY DEF LookupSet
<1> HIDE DEF k
<1>4. k \in Rows /\ lookup[k].virt \in {None, v}
  BY <1>2 DEF Places, Rows
<1>5. \A j \in Rows : j < k => lookup[j].virt \notin {None, v}
  BY <1>1, <1>2, <1>4 DEF Places, Rows
<1>6. ASSUME NEW j \in Rows, j # k PROVE lookup[j].virt # v
  <2>1. CASE j < k
    BY <1>5, <2>1
  <2>2. CASE k < j
    BY <1>1, <1>4, <1>6, <2>2 DEF TableTrue
  <2> QED
    BY <1>1, <1>4, <1>6, <2>1, <2>2
<1> QED
  BY <1>3, <1>4, <1>5, <1>6

(* lookup_set keeps the table as it is to be, when the slot is new and     *)
(* those of other pages stay taken.                                        *)
LEMMA SetKeepsTable ==
  ASSUME TableTrue, DOMAIN lookup = Rows, NEW v \in Pages, NEW s,
         lookup' = LookupSet(v, s),
         s # -1 => s \in slot_bitmap' /\ \A i \in Rows : lookup[i].slot # s,
         \A i \in Rows : lookup[i].virt # v /\ lookup[i].slot # -1 => lookup[i].slot \in slot_bitmap'
  PROVE  /\ TableTrue'
         /\ Places(v) = {} => lookup' = lookup /\ \A i \in Rows : lookup[i].virt # v
         /\ Places(v) # {} =>
              \E k \in Rows : /\ lookup'[k].virt = v /\ lookup'[k].slot = s /\ lookup[k].virt \in {None, v}
                              /\ \A j \in Rows : j # k => lookup'[j] = lookup[j] /\ lookup[j].virt # v
<1>1. v # None /\ Rows \subseteq Nat
  BY NoneApart
<1>2. CASE Places(v) = {}
  <2>1. lookup' = lookup
    BY <1>2 DEF LookupSet
  <2>2. \A i \in Rows : lookup[i].virt # v
    BY <1>2 DEF Places, Rows
  <2>3. TableTrue'
    BY <2>1, <2>2 DEF TableTrue
  <2> QED
    BY <1>2, <2>1, <2>2, <2>3
<1>3. CASE Places(v) # {}
  <2>1. PICK k \in Rows :
           /\ \A x : LookupSet(v, x) = [lookup EXCEPT ![k] = [virt |-> v, slot |-> x]]
           /\ lookup[k].virt \in {None, v}
           /\ \A j \in Rows : j < k => lookup[j].virt \notin {None, v}
           /\ \A j \in Rows : j # k => lookup[j].virt # v
    BY <1>3, RowSet
  <2>2. lookup' = [lookup EXCEPT ![k] = [virt |-> v, slot |-> s]]
    BY <2>1
  <2>3. lookup'[k] = [virt |-> v, slot |-> s] /\ \A j \in Rows : j # k => lookup'[j] = lookup[j]
    BY <2>2
  <2>4. lookup'[k].virt = v /\ lookup'[k].slot = s
    BY <2>3
  <2>5. \A i, j \in Rows : i < j /\ lookup'[i].virt = None => lookup'[j].virt = None
    <3> SUFFICES ASSUME NEW i \in Rows, NEW j \in Rows, i < j, lookup'[i].virt = None
                 PROVE  lookup'[j].virt = None
      OBVIOUS
    <3>1. i # k /\ lookup[i].virt = None
      BY <1>1, <2>3, <2>4
    <3>2. ~(i < k)
      BY <2>1, <3>1
    <3>3. j # k
      BY <3>2
    <3> QED
      BY <2>3, <3>1, <3>3 DEF TableTrue
  <2>6. \A i, j \in Rows : lookup'[i].virt = lookup'[j].virt /\ lookup'[i].virt # None => i = j
    BY <2>1, <2>3, <2>4 DEF TableTrue
  <2>7. \A i, j \in Rows : lookup'[i].slot = lookup'[j].slot /\ lookup'[i].slot # -1 => i = j
    BY <2>3, <2>4 DEF TableTrue
  <2>8. \A i \in Rows : /\ lookup'[i].virt = None => lookup'[i].slot = -1
                        /\ lookup'[i].slot # -1 => lookup'[i].slot \in slot_bitmap'
    BY <1>1, <2>1, <2>3, <2>4 DEF TableTrue
  <2>9. TableTrue'
    BY <2>5, <2>6, <2>7, <2>8 DEF TableTrue
  <2> QED
    BY <1>3, <2>1, <2>3, <2>4, <2>9
<1> QED
  BY <1>2, <1>3

(* What the types say of one worker, page, row.                            *)
LEMMA SwapFacts ==
  ASSUME SwapInv
  PROVE  /\ DOMAIN lookup = Rows /\ DOMAIN worker = Workers /\ DOMAIN pte = Pages
         /\ DOMAIN disk = Slots /\ DOMAIN mem = FrameSet /\ DOMAIN last = Pages
         /\ \A w \in Workers : worker[w].op \in Ops
         /\ \A v \in Pages : pte[v] \in FrameSet \cup {None}
         /\ \A i \in Rows : lookup[i].slot \in Slots \cup {-1}
BY DEF SwapInv, SwapTypeOK, Rows

LEMMA SwapOutKeeps ==
  ASSUME SwapInv, NEW w \in Workers, NEW v \in Pages, SwapOut(w, v)
  PROVE  SwapInv'
<1>0. PICK s, n : s = Min(Slots \ slot_bitmap)
                  /\ n = [op |-> "write", page |-> v, frame |-> pte[v], slot |-> s]
  OBVIOUS
<1>1. /\ worker[w].op = "idle" /\ (\A x \in Workers : worker[x].page # v) /\ pte[v] # None
      /\ slot_bitmap' = slot_bitmap \cup {s} /\ worker' = [worker EXCEPT ![w] = n]
      /\ pte' = pte /\ mem' = mem /\ freeFrames' = freeFrames /\ disk' = disk /\ lookup' = lookup
      /\ writes' = writes /\ last' = last /\ disturbed' = disturbed /\ dropped_out' = dropped_out
  BY <1>0 DEF SwapOut, Busy
<1>2. s \in Slots /\ s \notin slot_bitmap /\ s # -1
  <2>1. Slots \ slot_bitmap \subseteq Nat /\ Slots \ slot_bitmap # {}
    BY SwapAssumption DEF SwapOut, Slots
  <2> QED
    BY <1>0, <2>1, MinFacts, NoneApart
<1>3. n.op = "write" /\ n.page = v /\ n.frame = pte[v] /\ n.slot = s /\ pte[v] \in FrameSet
  BY <1>0, <1>1, SwapFacts
<1>4. \A x \in Workers : worker'[x] = IF x = w THEN n ELSE worker[x]
  BY <1>1, SwapFacts
<1>5. SwapTypeOK'
  <2>1. n \in [op : Ops, page : Pages \cup {None}, frame : FrameSet \cup {None}, slot : Slots \cup {-1}]
    BY <1>0, <1>2, <1>3 DEF Ops
  <2> QED
    BY <1>1, <1>2, <2>1 DEF SwapInv, SwapTypeOK
<1>6. TableTrue'
  BY <1>1 DEF SwapInv, TableTrue
<1>7. WorkersApart'
  BY <1>1, <1>2, <1>3, <1>4 DEF SwapInv, WorkersApart
<1>8. FramesApart'
  BY <1>1, <1>3, <1>4 DEF SwapInv, FramesApart
<1>9. SlotsApart'
  <2>1. \A i \in Rows : lookup[i].slot # s
    BY <1>2 DEF SwapInv, TableTrue
  <2>2. \A x \in Workers : worker[x].op \in {"write", "unmap", "note"} => worker[x].slot # s
    BY <1>2 DEF SwapInv, SlotsApart
  <2> QED
    BY <1>1, <1>3, <1>4, <2>1, <2>2 DEF SwapInv, SlotsApart
<1>10. ASSUME NEW u \in Safe PROVE Kept(u)'
  BY <1>1, <1>3, <1>4, <1>10 DEF SwapInv, Kept, WorkersApart
<1> QED
  BY <1>1, <1>5, <1>6, <1>7, <1>8, <1>9, <1>10 DEF SwapInv, Safe

LEMMA WrittenKeeps ==
  ASSUME SwapInv, NEW w \in Workers, Written(w)
  PROVE  SwapInv'
<1>0. PICK p, f, s, n : /\ p = worker[w].page /\ f = worker[w].frame /\ s = worker[w].slot
                        /\ n = [worker[w] EXCEPT !.op = "unmap"]
  OBVIOUS
<1>1. /\ worker[w].op = "write"
      /\ disk' = [disk EXCEPT ![s] = mem[f]] /\ worker' = [worker EXCEPT ![w] = n]
      /\ pte' = pte /\ mem' = mem /\ freeFrames' = freeFrames /\ slot_bitmap' = slot_bitmap
      /\ lookup' = lookup /\ writes' = writes /\ last' = last /\ disturbed' = disturbed
      /\ dropped_out' = dropped_out
  BY <1>0 DEF Written
<1>2. p \in Pages /\ f \in FrameSet /\ s \in Slots /\ s # -1 /\ p # None /\ f # None
  BY <1>0, <1>1, NoneApart DEF SwapInv, WorkersApart
<1>3. /\ n.op = "unmap" /\ n.page = p /\ n.frame = f /\ n.slot = s
      /\ n \in [op : Ops, page : Pages \cup {None}, frame : FrameSet \cup {None}, slot : Slots \cup {-1}]
  BY <1>0 DEF SwapInv, SwapTypeOK, Ops
<1>4. \A x \in Workers : worker'[x] = IF x = w THEN n ELSE worker[x]
  BY <1>1, SwapFacts
<1>5. \A r \in Slots : disk'[r] = IF r = s THEN mem[f] ELSE disk[r]
  BY <1>1, SwapFacts
<1>6. SwapTypeOK'
  <2>1. mem[f] \in Writes
    BY <1>2 DEF SwapInv, SwapTypeOK
  <2> QED
    BY <1>1, <1>3, <2>1 DEF SwapInv, SwapTypeOK
<1>7. TableTrue'
  BY <1>1 DEF SwapInv, TableTrue
<1>8. WorkersApart'
  BY <1>0, <1>1, <1>2, <1>3, <1>4 DEF SwapInv, WorkersApart
<1>9. FramesApart'
  BY <1>0, <1>1, <1>3, <1>4 DEF SwapInv, FramesApart
<1>10. SlotsApart'
  BY <1>0, <1>1, <1>3, <1>4 DEF SwapInv, SlotsApart
<1>11. ASSUME NEW u \in Safe PROVE Kept(u)'
  <2>1. \A i \in Rows : lookup[i].slot # s
    BY <1>0, <1>1 DEF SwapInv, SlotsApart
  <2>2. \A x \in Workers : x # w /\ worker[x].op \in {"unmap", "note"} => worker[x].slot # s
    BY <1>0, <1>1 DEF SwapInv, SlotsApart
  <2>3. \A i \in Rows : lookup[i].slot # -1 => disk'[lookup[i].slot] = disk[lookup[i].slot]
    BY <1>5, <2>1, SwapFacts
  <2>4. \A x \in Workers : x # w /\ worker[x].op \in {"unmap", "note"} =>
          disk'[worker[x].slot] = disk[worker[x].slot]
    BY <1>5, <2>2 DEF SwapInv, WorkersApart
  <2>5. Kept(u)
    BY DEF SwapInv
  <2>6. u = p => disk'[s] = last[u]
    <3>1. pte[p] = f
      BY <1>0, <1>1 DEF SwapInv, FramesApart
    <3> QED
      BY <1>2, <1>5, <2>5, <3>1 DEF Kept
  <2> QED
    BY <1>0, <1>1, <1>3, <1>4, <2>3, <2>4, <2>5, <2>6 DEF Kept
<1> QED
  BY <1>1, <1>6, <1>7, <1>8, <1>9, <1>10, <1>11 DEF SwapInv, Safe

LEMMA IdleFacts ==
  /\ Idle.op = "idle" /\ Idle.page = None /\ Idle.frame = None /\ Idle.slot = -1
  /\ Idle \in [op : Ops, page : Pages \cup {None}, frame : FrameSet \cup {None}, slot : Slots \cup {-1}]
BY DEF Idle, Ops

LEMMA WriteFailsKeeps ==
  ASSUME SwapInv, NEW w \in Workers, WriteFails(w)
  PROVE  SwapInv'
<1>0. PICK p, s, n : p = worker[w].page /\ s = worker[w].slot /\ n = Idle
  OBVIOUS
<1>1. /\ worker[w].op = "write"
      /\ slot_bitmap' = slot_bitmap \ {s} /\ worker' = [worker EXCEPT ![w] = n]
      /\ pte' = pte /\ mem' = mem /\ freeFrames' = freeFrames /\ disk' = disk /\ lookup' = lookup
      /\ writes' = writes /\ last' = last /\ disturbed' = disturbed /\ dropped_out' = dropped_out
  BY <1>0 DEF WriteFails
<1>3. /\ n.op = "idle" /\ n.page = None
      /\ n \in [op : Ops, page : Pages \cup {None}, frame : FrameSet \cup {None}, slot : Slots \cup {-1}]
  BY <1>0, IdleFacts
<1>4. \A x \in Workers : worker'[x] = IF x = w THEN n ELSE worker[x]
  BY <1>1, SwapFacts
<1>5. /\ \A i \in Rows : lookup[i].slot # s
      /\ \A x \in Workers : x # w /\ worker[x].op \in {"write", "unmap", "note"} => worker[x].slot # s
  BY <1>0, <1>1 DEF SwapInv, SlotsApart
<1>6. SwapTypeOK'
  BY <1>1, <1>3 DEF SwapInv, SwapTypeOK
<1>7. TableTrue'
  BY <1>1, <1>5 DEF SwapInv, TableTrue
<1>8. WorkersApart'
  BY <1>0, <1>1, <1>3, <1>4 DEF SwapInv, WorkersApart
<1>9. FramesApart'
  BY <1>0, <1>1, <1>3, <1>4 DEF SwapInv, FramesApart
<1>10. SlotsApart'
  BY <1>0, <1>1, <1>3, <1>4, <1>5 DEF SwapInv, SlotsApart
<1>11. ASSUME NEW u \in Safe PROVE Kept(u)'
  <2>1. Kept(u) /\ u # None
    BY NoneApart DEF SwapInv, Safe
  <2> QED
    BY <1>0, <1>1, <1>3, <1>4, <2>1 DEF Kept
<1> QED
  BY <1>1, <1>6, <1>7, <1>8, <1>9, <1>10, <1>11 DEF SwapInv, Safe

LEMMA UnmapKeeps ==
  ASSUME SwapInv, NEW w \in Workers, Unmap(w)
  PROVE  SwapInv'
<1>0. PICK p, f, s, n : /\ p = worker[w].page /\ f = worker[w].frame /\ s = worker[w].slot
                        /\ n = [worker[w] EXCEPT !.op = "note"]
  OBVIOUS
<1>1. /\ worker[w].op = "unmap"
      /\ pte' = [pte EXCEPT ![p] = None] /\ freeFrames' = freeFrames \cup {f}
      /\ worker' = [worker EXCEPT ![w] = n]
      /\ mem' = mem /\ slot_bitmap' = slot_bitmap /\ disk' = disk /\ lookup' = lookup
      /\ writes' = writes /\ last' = last /\ disturbed' = disturbed /\ dropped_out' = dropped_out
  BY <1>0 DEF Unmap
<1>2. /\ p \in Pages /\ f \in FrameSet /\ s \in Slots /\ s # -1 /\ p # None /\ f # None
      /\ pte[p] = f
  BY <1>0, <1>1, NoneApart DEF SwapInv, WorkersApart, FramesApart
<1>3. /\ n.op = "note" /\ n.page = p /\ n.frame = f /\ n.slot = s
      /\ n \in [op : Ops, page : Pages \cup {None}, frame : FrameSet \cup {None}, slot : Slots \cup {-1}]
  BY <1>0 DEF SwapInv, SwapTypeOK, Ops
<1>4. \A x \in Workers : worker'[x] = IF x = w THEN n ELSE worker[x]
  BY <1>1, SwapFacts
<1>5. \A v \in Pages : pte'[v] = IF v = p THEN None ELSE pte[v]
  BY <1>1, SwapFacts
<1>6. SwapTypeOK'
  BY <1>1, <1>2, <1>3 DEF SwapInv, SwapTypeOK
<1>7. TableTrue'
  BY <1>1 DEF SwapInv, TableTrue
<1>8. WorkersApart'
  BY <1>0, <1>1, <1>2, <1>3, <1>4 DEF SwapInv, WorkersApart
<1>9. FramesApart'
  <2>1. \A x \in Workers : x # w /\ worker[x].op # "idle" => worker[x].page \in Pages /\ worker[x].page # p
    BY <1>0, <1>2 DEF SwapInv, WorkersApart
  <2>2. \A v \in Pages : pte'[v] \notin freeFrames'
    <3>1. None \notin freeFrames'
      BY <1>1, <1>2, NoneApart DEF SwapInv, SwapTypeOK
    <3> QED
      BY <1>1, <1>2, <1>5, <3>1 DEF SwapInv, FramesApart
  <2>3. \A u, v \in Pages : pte'[u] = pte'[v] /\ pte'[u] # None => u = v
    BY <1>5 DEF SwapInv, FramesApart
  <2>4. \A x \in Workers : worker'[x].op \in {"write", "unmap", "forget"} => pte'[worker'[x].page] = worker'[x].frame
    BY <1>3, <1>4, <1>5, <2>1 DEF SwapInv, FramesApart
  <2>5. \A x \in Workers : worker'[x].op = "read" => x # w /\ worker'[x] = worker[x]
    BY <1>3, <1>4
  <2>6. ASSUME NEW x \in Workers, worker'[x].op = "read"
        PROVE  /\ worker'[x].frame \notin freeFrames'
               /\ \A v \in Pages : pte'[v] # worker'[x].frame
               /\ \A y \in Workers : worker'[y].op = "read" /\ worker'[y].frame = worker'[x].frame => y = x
    <3>1. x # w /\ worker'[x] = worker[x] /\ worker[x].frame \in FrameSet
      BY <2>5, <2>6 DEF SwapInv, WorkersApart
    <3>2. worker[x].frame # f
      BY <1>2, <2>6, <3>1 DEF SwapInv, FramesApart
    <3> QED
      BY <1>1, <1>5, <2>5, <2>6, <3>1, <3>2, NoneApart DEF SwapInv, FramesApart
  <2> QED
    BY <2>2, <2>3, <2>4, <2>6 DEF FramesApart
<1>10. SlotsApart'
  BY <1>0, <1>1, <1>3, <1>4 DEF SwapInv, SlotsApart
<1>11. ASSUME NEW u \in Safe PROVE Kept(u)'
  <2>1. Kept(u) /\ u \in Pages
    BY DEF SwapInv, Safe
  <2>2. \A x \in Workers : x # w => worker[x].page # p
    BY <1>0, <1>2 DEF SwapInv, WorkersApart
  <2> QED
    BY <1>0, <1>1, <1>2, <1>3, <1>4, <1>5, <2>1, <2>2 DEF Kept
<1> QED
  BY <1>1, <1>6, <1>7, <1>8, <1>9, <1>10, <1>11 DEF SwapInv, Safe

LEMMA NoteKeeps ==
  ASSUME SwapInv, NEW w \in Workers, Note(w)
  PROVE  SwapInv'
<1>0. PICK p, s, n : p = worker[w].page /\ s = worker[w].slot /\ n = Idle
  OBVIOUS
<1>1. /\ worker[w].op = "note"
      /\ lookup' = LookupSet(p, s) /\ worker' = [worker EXCEPT ![w] = n]
      /\ dropped_out' = IF Places(p) = {} THEN dropped_out \cup {p} ELSE dropped_out
      /\ pte' = pte /\ mem' = mem /\ freeFrames' = freeFrames /\ slot_bitmap' = slot_bitmap
      /\ disk' = disk /\ writes' = writes /\ last' = last /\ disturbed' = disturbed
  BY <1>0 DEF Note
<1>2. p \in Pages /\ s \in Slots /\ s # -1 /\ p # None
  BY <1>0, <1>1, NoneApart DEF SwapInv, WorkersApart
<1>3. /\ n.op = "idle" /\ n.page = None
      /\ n \in [op : Ops, page : Pages \cup {None}, frame : FrameSet \cup {None}, slot : Slots \cup {-1}]
  BY <1>0, IdleFacts
<1>4. \A x \in Workers : worker'[x] = IF x = w THEN n ELSE worker[x]
  BY <1>1, SwapFacts
<1>5. /\ s \in slot_bitmap /\ \A i \in Rows : lookup[i].slot # s
      /\ \A x \in Workers : x # w /\ worker[x].op \in {"write", "unmap", "note"} => worker[x].slot # s
  BY <1>0, <1>1 DEF SwapInv, SlotsApart
<1>6. /\ TableTrue'
      /\ Places(p) = {} => lookup' = lookup /\ \A i \in Rows : lookup[i].virt # p
      /\ Places(p) # {} =>
           \E k \in Rows : /\ lookup'[k].virt = p /\ lookup'[k].slot = s /\ lookup[k].virt \in {None, p}
                           /\ \A j \in Rows : j # k => lookup'[j] = lookup[j] /\ lookup[j].virt # p
  <2>1. TableTrue /\ DOMAIN lookup = Rows
    BY SwapFacts DEF SwapInv
  <2>2. s # -1 => s \in slot_bitmap' /\ \A i \in Rows : lookup[i].slot # s
    BY <1>1, <1>5
  <2>3. \A i \in Rows : lookup[i].virt # p /\ lookup[i].slot # -1 => lookup[i].slot \in slot_bitmap'
    BY <1>1, <2>1 DEF TableTrue
  <2> QED
    BY <1>1, <1>2, <2>1, <2>2, <2>3, SetKeepsTable
<1>7. \A x \in Workers : x # w => worker[x].page # p
  BY <1>0, <1>2 DEF SwapInv, WorkersApart
<1>8. \A i \in Rows : /\ lookup[i].virt \notin {None, p} => lookup'[i] = lookup[i]
                    /\ \/ lookup'[i].virt = p /\ lookup'[i].slot = s
                       \/ lookup'[i] = lookup[i]
  <2>1. CASE Places(p) = {}
    BY <1>6, <2>1
  <2>2. CASE Places(p) # {}
    <3>1. PICK k \in Rows : /\ lookup'[k].virt = p /\ lookup'[k].slot = s /\ lookup[k].virt \in {None, p}
                            /\ \A j \in Rows : j # k => lookup'[j] = lookup[j] /\ lookup[j].virt # p
      BY <1>6, <2>2
    <3> QED
      BY <3>1
  <2> QED
    BY <2>1, <2>2
<1>10. SwapTypeOK'
  <2>1. [virt |-> p, slot |-> s] \in [virt : Pages \cup {None}, slot : Slots \cup {-1}]
    BY <1>2
  <2>2. lookup' \in [1 .. LookupSize -> [virt : Pages \cup {None}, slot : Slots \cup {-1}]]
    BY <1>1, <2>1 DEF SwapInv, SwapTypeOK, LookupSet
  <2> QED
    BY <1>1, <1>2, <1>3, <2>2 DEF SwapInv, SwapTypeOK
<1>11. WorkersApart'
  BY <1>0, <1>1, <1>3, <1>4 DEF SwapInv, WorkersApart
<1>12. FramesApart'
  BY <1>0, <1>1, <1>3, <1>4 DEF SwapInv, FramesApart
<1>13. SlotsApart'
  <2>1. ASSUME NEW x \in Workers, worker'[x].op \in {"write", "unmap", "note"}
        PROVE  /\ worker'[x].slot \in slot_bitmap'
               /\ \A i \in Rows : lookup'[i].slot # worker'[x].slot
               /\ \A y \in Workers :
                    worker'[y].op \in {"write", "unmap", "note"} /\ worker'[y].slot = worker'[x].slot => y = x
    <3>1. x # w /\ worker'[x] = worker[x]
      BY <1>3, <1>4, <2>1
    <3>2. /\ worker[x].slot \in slot_bitmap /\ worker[x].slot # s
          /\ \A i \in Rows : lookup[i].slot # worker[x].slot
      BY <1>5, <2>1, <3>1 DEF SwapInv, SlotsApart
    <3>3. \A i \in Rows : lookup'[i].slot # worker'[x].slot
      BY <1>8, <3>1, <3>2
    <3>4. \A y \in Workers :
            worker'[y].op \in {"write", "unmap", "note"} /\ worker'[y].slot = worker'[x].slot => y = x
      BY <1>3, <1>4, <2>1, <3>1 DEF SwapInv, SlotsApart
    <3> QED
      BY <1>1, <3>1, <3>2, <3>3, <3>4
  <2>2. ASSUME NEW x \in Workers, worker'[x].op \in {"read", "forget"}
        PROVE  \E i \in Rows : lookup'[i].virt = worker'[x].page /\ lookup'[i].slot = worker'[x].slot
    <3>1. x # w /\ worker'[x] = worker[x]
      BY <1>3, <1>4, <2>2
    <3>2. PICK i \in Rows : lookup[i].virt = worker[x].page /\ lookup[i].slot = worker[x].slot
      BY <2>2, <3>1 DEF SwapInv, SlotsApart
    <3>3. lookup'[i] = lookup[i]
      <4>1. worker[x].page # p /\ worker[x].page # None
        BY <1>7, <2>2, <3>1, NoneApart DEF SwapInv, WorkersApart
      <4> QED
        BY <1>8, <3>2, <4>1
    <3> QED
      BY <3>1, <3>2, <3>3
  <2> QED
    BY <2>1, <2>2 DEF SlotsApart
<1>14. Safe' \subseteq Safe /\ (Places(p) = {} => p \notin Safe')
  BY <1>1 DEF Safe
<1>15. ASSUME NEW u \in Safe, u \in Safe' PROVE Kept(u)'
  <2>1. Kept(u) /\ u \in Pages /\ u # None
    BY NoneApart DEF SwapInv, Safe
  <2>2. CASE u = p
    <3>1. PICK k \in Rows : /\ lookup'[k].virt = p /\ lookup'[k].slot = s /\ lookup[k].virt \in {None, p}
                            /\ \A j \in Rows : j # k => lookup'[j] = lookup[j] /\ lookup[j].virt # p
      BY <1>6, <1>14, <1>15, <2>2
    <3>2. pte[p] = None /\ disk[s] = last[p]
      BY <1>0, <1>1, <2>1, <2>2 DEF Kept
    <3>3. \A x \in Workers : worker'[x].page # p
      BY <1>2, <1>3, <1>4, <1>7
    <3>4. \A i \in Rows : lookup'[i].virt = p => i = k
      BY <3>1
    <3> QED
      BY <1>1, <1>2, <2>2, <3>1, <3>2, <3>3, <3>4 DEF Kept
  <2>3. CASE u # p
    <3>1. \A i \in Rows : lookup'[i].virt = u <=> lookup[i].virt = u
      BY <1>8, <2>1, <2>3
    <3>2. \A i \in Rows : lookup[i].virt = u => lookup'[i] = lookup[i]
      BY <1>8, <2>1, <2>3
    <3>3. \A x \in Workers : worker'[x].page = u <=> worker[x].page = u
      BY <1>0, <1>3, <1>4, <2>1, <2>3
    <3>4. \A x \in Workers : worker[x].page = u => worker'[x] = worker[x]
      BY <1>0, <1>4, <2>3
    <3> QED
      BY <1>1, <2>1, <3>1, <3>2, <3>3, <3>4 DEF Kept
  <2> QED
    BY <2>2, <2>3
<1> QED
  BY <1>6, <1>10, <1>11, <1>12, <1>13, <1>14, <1>15 DEF SwapInv

LEMMA SwapInKeeps ==
  ASSUME SwapInv, NEW w \in Workers, NEW v \in Pages, SwapIn(w, v)
  PROVE  SwapInv'
<1>0. PICK f \in freeFrames :
        /\ worker[w].op = "idle" /\ (\A x \in Workers : worker[x].page # v) /\ LookupGet(v) >= 0
        /\ freeFrames' = freeFrames \ {f}
        /\ worker' = [worker EXCEPT ![w] = [op |-> "read", page |-> v, frame |-> f, slot |-> LookupGet(v)]]
        /\ pte' = pte /\ mem' = mem /\ slot_bitmap' = slot_bitmap /\ disk' = disk /\ lookup' = lookup
        /\ writes' = writes /\ last' = last /\ disturbed' = disturbed /\ dropped_out' = dropped_out
  BY DEF SwapIn, Busy
<1>1. PICK s, n : s = LookupGet(v) /\ n = [op |-> "read", page |-> v, frame |-> f, slot |-> s]
  OBVIOUS
<1>2. PICK i \in Rows : lookup[i].virt = v /\ lookup[i].slot = s
  BY <1>0, <1>1, RowOf DEF SwapInv
<1>3. s \in Slots /\ s # -1 /\ f \in FrameSet /\ f # None
  <2>1. s \in Slots \cup {-1} /\ s # -1
    BY <1>0, <1>1, <1>2, SwapFacts
  <2> QED
    BY <2>1, NoneApart DEF SwapInv, SwapTypeOK
<1>4. n.op = "read" /\ n.page = v /\ n.frame = f /\ n.slot = s
  BY <1>1
<1>5. \A x \in Workers : worker'[x] = IF x = w THEN n ELSE worker[x]
  BY <1>0, <1>1, SwapFacts
<1>6. SwapTypeOK'
  <2>1. n \in [op : Ops, page : Pages \cup {None}, frame : FrameSet \cup {None}, slot : Slots \cup {-1}]
    BY <1>1, <1>3 DEF Ops
  <2> QED
    BY <1>0, <1>1, <2>1 DEF SwapInv, SwapTypeOK
<1>7. TableTrue'
  BY <1>0 DEF SwapInv, TableTrue
<1>8. WorkersApart'
  BY <1>0, <1>3, <1>4, <1>5 DEF SwapInv, WorkersApart
<1>9. FramesApart'
  BY <1>0, <1>3, <1>4, <1>5 DEF SwapInv, FramesApart
<1>10. SlotsApart'
  BY <1>0, <1>2, <1>4, <1>5 DEF SwapInv, SlotsApart
<1>11. ASSUME NEW u \in Safe PROVE Kept(u)'
  <2>1. Kept(u) /\ u \in Pages /\ u # None
    BY NoneApart DEF SwapInv, Safe
  <2>2. worker[w].page = None
    BY <1>0 DEF SwapInv, WorkersApart
  <2>3. u = v => pte[u] = None
    BY <1>0, <1>2, <1>3, <2>1 DEF Kept
  <2> QED
    BY <1>0, <1>4, <1>5, <2>1, <2>2, <2>3 DEF Kept
<1> QED
  BY <1>0, <1>6, <1>7, <1>8, <1>9, <1>10, <1>11 DEF SwapInv, Safe

LEMMA ReadInKeeps ==
  ASSUME SwapInv, NEW w \in Workers, ReadIn(w)
  PROVE  SwapInv'
<1>0. PICK p, f, s, n : /\ p = worker[w].page /\ f = worker[w].frame /\ s = worker[w].slot
                        /\ n = [worker[w] EXCEPT !.op = "forget"]
  OBVIOUS
<1>1. /\ worker[w].op = "read"
      /\ mem' = [mem EXCEPT ![f] = disk[s]] /\ pte' = [pte EXCEPT ![p] = f]
      /\ worker' = [worker EXCEPT ![w] = n]
      /\ freeFrames' = freeFrames /\ slot_bitmap' = slot_bitmap /\ disk' = disk /\ lookup' = lookup
      /\ writes' = writes /\ last' = last /\ disturbed' = disturbed /\ dropped_out' = dropped_out
  BY <1>0 DEF ReadIn
<1>2. p \in Pages /\ f \in FrameSet /\ s \in Slots /\ s # -1 /\ p # None /\ f # None
  BY <1>0, <1>1, NoneApart DEF SwapInv, WorkersApart
<1>3. /\ n.op = "forget" /\ n.page = p /\ n.frame = f /\ n.slot = s
      /\ n \in [op : Ops, page : Pages \cup {None}, frame : FrameSet \cup {None}, slot : Slots \cup {-1}]
  BY <1>0 DEF SwapInv, SwapTypeOK, Ops
<1>4. \A x \in Workers : worker'[x] = IF x = w THEN n ELSE worker[x]
  BY <1>1, SwapFacts
<1>5. /\ \A v \in Pages : pte'[v] = IF v = p THEN f ELSE pte[v]
      /\ \A g \in FrameSet : mem'[g] = IF g = f THEN disk[s] ELSE mem[g]
  BY <1>1, SwapFacts
<1>6. /\ f \notin freeFrames /\ \A v \in Pages : pte[v] # f
      /\ \A x \in Workers : worker[x].op = "read" /\ worker[x].frame = f => x = w
  BY <1>0, <1>1 DEF SwapInv, FramesApart
<1>7. \A x \in Workers : x # w => worker[x].page # p
  BY <1>0, <1>2 DEF SwapInv, WorkersApart
<1>8. SwapTypeOK'
  <2>1. disk[s] \in Writes
    BY <1>2 DEF SwapInv, SwapTypeOK
  <2> QED
    BY <1>1, <1>2, <1>3, <2>1 DEF SwapInv, SwapTypeOK
<1>9. TableTrue'
  BY <1>1 DEF SwapInv, TableTrue
<1>10. WorkersApart'
  BY <1>0, <1>1, <1>2, <1>3, <1>4 DEF SwapInv, WorkersApart
<1>11. FramesApart'
  <2>1. \A u, v \in Pages : pte'[u] = pte'[v] /\ pte'[u] # None => u = v
    BY <1>5, <1>6 DEF SwapInv, FramesApart
  <2>2. \A v \in Pages : pte'[v] \notin freeFrames'
    BY <1>1, <1>5, <1>6 DEF SwapInv, FramesApart
  <2>3. \A x \in Workers :
          worker'[x].op \in {"write", "unmap", "forget"} => pte'[worker'[x].page] = worker'[x].frame
    <3> SUFFICES ASSUME NEW x \in Workers, worker'[x].op \in {"write", "unmap", "forget"}
                 PROVE  pte'[worker'[x].page] = worker'[x].frame
      OBVIOUS
    <3>1. CASE x = w
      BY <1>2, <1>3, <1>4, <1>5, <3>1
    <3>2. CASE x # w
      <4>1. worker'[x] = worker[x] /\ worker[x].page \in Pages /\ worker[x].page # p
        BY <1>4, <1>7, <3>2 DEF SwapInv, WorkersApart
      <4> QED
        BY <1>5, <4>1 DEF SwapInv, FramesApart
    <3> QED
      BY <3>1, <3>2
  <2>4. ASSUME NEW x \in Workers, worker'[x].op = "read"
        PROVE  /\ worker'[x].frame \notin freeFrames'
               /\ \A v \in Pages : pte'[v] # worker'[x].frame
               /\ \A y \in Workers : worker'[y].op = "read" /\ worker'[y].frame = worker'[x].frame => y = x
    <3>1. x # w /\ worker'[x] = worker[x]
      BY <1>3, <1>4, <2>4
    <3>2. worker[x].frame # f
      BY <1>6, <2>4, <3>1
    <3>3. \A y \in Workers : worker'[y].op = "read" => worker'[y] = worker[y]
      BY <1>3, <1>4
    <3> QED
      BY <1>1, <1>5, <2>4, <3>1, <3>2, <3>3 DEF SwapInv, FramesApart
  <2> QED
    BY <2>1, <2>2, <2>3, <2>4 DEF FramesApart
<1>12. SlotsApart'
  BY <1>0, <1>1, <1>3, <1>4 DEF SwapInv, SlotsApart
<1>13. ASSUME NEW u \in Safe PROVE Kept(u)'
  <2>1. Kept(u) /\ u \in Pages /\ u # None
    BY NoneApart DEF SwapInv, Safe
  <2>2. CASE u = p
    <3>1. PICK i \in Rows : lookup[i].virt = p /\ lookup[i].slot = s
      BY <1>0, <1>1 DEF SwapInv, SlotsApart
    <3>2. disk[s] = last[p]
      BY <1>0, <1>1, <1>2, <1>7, <2>1, <2>2, <3>1 DEF Kept
    <3>3. pte'[p] = f /\ mem'[f] = last[p]
      BY <1>2, <1>5, <3>2
    <3>4. worker'[w].page = p /\ worker'[w].op = "forget"
      BY <1>3, <1>4
    <3>5. \A x \in Workers : worker'[x].page = p => x = w
      BY <1>4, <1>7
    <3> QED
      BY <1>1, <1>2, <2>2, <3>3, <3>4, <3>5 DEF Kept
  <2>3. CASE u # p
    <3>1. pte'[u] = pte[u] /\ (pte[u] # None => mem'[pte[u]] = mem[pte[u]])
      BY <1>5, <1>6, <2>1, <2>3, SwapFacts
    <3>2. \A x \in Workers : worker'[x].page = u <=> worker[x].page = u
      BY <1>0, <1>3, <1>4, <2>3
    <3>3. \A x \in Workers : worker[x].page = u => worker'[x] = worker[x]
      BY <1>0, <1>4, <2>3
    <3> QED
      BY <1>1, <2>1, <3>1, <3>2, <3>3 DEF Kept
  <2> QED
    BY <2>2, <2>3
<1> QED
  BY <1>1, <1>8, <1>9, <1>10, <1>11, <1>12, <1>13 DEF SwapInv, Safe

LEMMA ReadFailsKeeps ==
  ASSUME SwapInv, NEW w \in Workers, ReadFails(w)
  PROVE  SwapInv'
<1>0. PICK p, f, n : p = worker[w].page /\ f = worker[w].frame /\ n = Idle
  OBVIOUS
<1>1. /\ worker[w].op = "read"
      /\ freeFrames' = freeFrames \cup {f} /\ worker' = [worker EXCEPT ![w] = n]
      /\ pte' = pte /\ mem' = mem /\ slot_bitmap' = slot_bitmap /\ disk' = disk /\ lookup' = lookup
      /\ writes' = writes /\ last' = last /\ disturbed' = disturbed /\ dropped_out' = dropped_out
  BY <1>0 DEF ReadFails
<1>2. p \in Pages /\ f \in FrameSet
  BY <1>0, <1>1 DEF SwapInv, WorkersApart
<1>3. /\ n.op = "idle" /\ n.page = None
      /\ n \in [op : Ops, page : Pages \cup {None}, frame : FrameSet \cup {None}, slot : Slots \cup {-1}]
  BY <1>0, IdleFacts
<1>4. \A x \in Workers : worker'[x] = IF x = w THEN n ELSE worker[x]
  BY <1>1, SwapFacts
<1>5. /\ \A v \in Pages : pte[v] # f
      /\ \A x \in Workers : worker[x].op = "read" /\ worker[x].frame = f => x = w
  BY <1>0, <1>1 DEF SwapInv, FramesApart
<1>6. SwapTypeOK'
  BY <1>1, <1>2, <1>3 DEF SwapInv, SwapTypeOK
<1>7. TableTrue'
  BY <1>1 DEF SwapInv, TableTrue
<1>8. WorkersApart'
  BY <1>0, <1>1, <1>3, <1>4 DEF SwapInv, WorkersApart
<1>9. FramesApart'
  BY <1>0, <1>1, <1>3, <1>4, <1>5 DEF SwapInv, FramesApart
<1>10. SlotsApart'
  BY <1>0, <1>1, <1>3, <1>4 DEF SwapInv, SlotsApart
<1>11. ASSUME NEW u \in Safe PROVE Kept(u)'
  <2>1. Kept(u) /\ u # None
    BY NoneApart DEF SwapInv, Safe
  <2> QED
    BY <1>0, <1>1, <1>3, <1>4, <2>1 DEF Kept
<1> QED
  BY <1>1, <1>6, <1>7, <1>8, <1>9, <1>10, <1>11 DEF SwapInv, Safe

LEMMA ForgetDone ==
  ASSUME SwapInv, NEW w \in Workers, Forget(w)
  PROVE  SwapInv'
<1>0. PICK p, s, n : p = worker[w].page /\ s = worker[w].slot /\ n = Idle
  OBVIOUS
<1>1. /\ worker[w].op = "forget"
      /\ slot_bitmap' = slot_bitmap \ {s} /\ lookup' = LookupSet(p, -1)
      /\ worker' = [worker EXCEPT ![w] = n]
      /\ pte' = pte /\ mem' = mem /\ freeFrames' = freeFrames /\ disk' = disk
      /\ writes' = writes /\ last' = last /\ disturbed' = disturbed /\ dropped_out' = dropped_out
  BY <1>0 DEF Forget
<1>2. p \in Pages /\ s \in Slots /\ s # -1 /\ p # None /\ pte[p] # None
  BY <1>0, <1>1, NoneApart DEF SwapInv, WorkersApart, FramesApart
<1>3. /\ n.op = "idle" /\ n.page = None
      /\ n \in [op : Ops, page : Pages \cup {None}, frame : FrameSet \cup {None}, slot : Slots \cup {-1}]
  BY <1>0, IdleFacts
<1>4. \A x \in Workers : worker'[x] = IF x = w THEN n ELSE worker[x]
  BY <1>1, SwapFacts
<1>5. PICK r \in Rows : lookup[r].virt = p /\ lookup[r].slot = s
  BY <1>0, <1>1 DEF SwapInv, SlotsApart
<1>6. \A i \in Rows : i # r => lookup[i].virt # p /\ lookup[i].slot # s
  BY <1>2, <1>5 DEF SwapInv, TableTrue
<1>7. /\ TableTrue' /\ lookup'[r].virt = p /\ lookup'[r].slot = -1
      /\ \A j \in Rows : j # r => lookup'[j] = lookup[j]
  <2>1. TableTrue /\ DOMAIN lookup = Rows
    BY SwapFacts DEF SwapInv
  <2>2. \A i \in Rows : lookup[i].virt # p /\ lookup[i].slot # -1 => lookup[i].slot \in slot_bitmap'
    BY <1>1, <1>5, <1>6, <2>1 DEF TableTrue
  <2>3. PICK m : m = -1
    OBVIOUS
  <2>4. lookup' = LookupSet(p, m) /\ (m # -1 => m \in slot_bitmap' /\ \A i \in Rows : lookup[i].slot # m)
    BY <1>1, <2>3
  <2>5. /\ TableTrue'
        /\ Places(p) = {} => \A i \in Rows : lookup[i].virt # p
        /\ Places(p) # {} =>
             \E k \in Rows : /\ lookup'[k].virt = p /\ lookup'[k].slot = m
                             /\ \A j \in Rows : j # k => lookup'[j] = lookup[j] /\ lookup[j].virt # p
    BY <1>2, <2>1, <2>2, <2>4, SetKeepsTable
  <2>6. PICK k \in Rows : /\ lookup'[k].virt = p /\ lookup'[k].slot = m
                          /\ \A j \in Rows : j # k => lookup'[j] = lookup[j] /\ lookup[j].virt # p
    BY <1>5, <2>5
  <2>7. k = r
    BY <1>5, <2>6
  <2> QED
    BY <2>3, <2>5, <2>6, <2>7
<1>8. \A x \in Workers : x # w => worker[x].page # p
  BY <1>0, <1>2 DEF SwapInv, WorkersApart
<1>9. SwapTypeOK'
  <2>1. [virt |-> p, slot |-> -1] \in [virt : Pages \cup {None}, slot : Slots \cup {-1}]
    BY <1>2
  <2>2. lookup' \in [1 .. LookupSize -> [virt : Pages \cup {None}, slot : Slots \cup {-1}]]
    BY <1>1, <2>1 DEF SwapInv, SwapTypeOK, LookupSet
  <2> QED
    BY <1>1, <1>3, <2>2 DEF SwapInv, SwapTypeOK
<1>10. WorkersApart'
  BY <1>0, <1>1, <1>3, <1>4 DEF SwapInv, WorkersApart
<1>11. FramesApart'
  BY <1>0, <1>1, <1>3, <1>4 DEF SwapInv, FramesApart
<1>12. SlotsApart'
  <2>1. ASSUME NEW x \in Workers, worker'[x].op \in {"write", "unmap", "note"}
        PROVE  /\ worker'[x].slot \in slot_bitmap'
               /\ \A i \in Rows : lookup'[i].slot # worker'[x].slot
               /\ \A y \in Workers :
                    worker'[y].op \in {"write", "unmap", "note"} /\ worker'[y].slot = worker'[x].slot => y = x
    <3>1. x # w /\ worker'[x] = worker[x] /\ worker[x].op # "idle"
      BY <1>3, <1>4, <2>1
    <3>2. /\ worker[x].slot \in slot_bitmap /\ worker[x].slot # s /\ worker[x].slot # -1
          /\ \A i \in Rows : lookup[i].slot # worker[x].slot
      BY <1>5, <2>1, <3>1, NoneApart DEF SwapInv, SlotsApart, WorkersApart
    <3>3. \A i \in Rows : lookup'[i].slot # worker'[x].slot
      BY <1>7, <3>1, <3>2
    <3>4. \A y \in Workers :
            worker'[y].op \in {"write", "unmap", "note"} /\ worker'[y].slot = worker'[x].slot => y = x
      BY <1>3, <1>4, <2>1, <3>1 DEF SwapInv, SlotsApart
    <3> QED
      BY <1>1, <3>1, <3>2, <3>3, <3>4
  <2>2. ASSUME NEW x \in Workers, worker'[x].op \in {"read", "forget"}
        PROVE  \E i \in Rows : lookup'[i].virt = worker'[x].page /\ lookup'[i].slot = worker'[x].slot
    <3>1. x # w /\ worker'[x] = worker[x]
      BY <1>3, <1>4, <2>2
    <3>2. PICK i \in Rows : lookup[i].virt = worker[x].page /\ lookup[i].slot = worker[x].slot
      BY <2>2, <3>1 DEF SwapInv, SlotsApart
    <3>3. i # r
      BY <1>5, <1>8, <3>1, <3>2
    <3> QED
      BY <1>7, <3>1, <3>2, <3>3
  <2> QED
    BY <2>1, <2>2 DEF SlotsApart
<1>13. ASSUME NEW u \in Safe PROVE Kept(u)'
  <2>1. Kept(u) /\ u \in Pages /\ u # None
    BY NoneApart DEF SwapInv, Safe
  <2>2. CASE u = p
    <3>1. \A x \in Workers : worker'[x].page # p
      BY <1>2, <1>3, <1>4, <1>8
    <3>2. \A i \in Rows : lookup'[i].virt = p => lookup'[i].slot = -1
      BY <1>6, <1>7
    <3>3. pte' = pte /\ mem' = mem /\ last' = last
      BY <1>1
    <3> QED
      BY <1>2, <2>1, <2>2, <3>1, <3>2, <3>3 DEF Kept
  <2>3. CASE u # p
    <3>1. \A i \in Rows : lookup'[i].virt = u <=> lookup[i].virt = u
      BY <1>5, <1>7, <2>3
    <3>2. \A i \in Rows : lookup[i].virt = u => lookup'[i] = lookup[i]
      BY <1>5, <1>7, <2>3
    <3>3. \A x \in Workers : worker'[x].page = u <=> worker[x].page = u
      BY <1>0, <1>3, <1>4, <2>1, <2>3
    <3>4. \A x \in Workers : worker[x].page = u => worker'[x] = worker[x]
      BY <1>0, <1>4, <2>3
    <3> QED
      BY <1>1, <2>1, <3>1, <3>2, <3>3, <3>4 DEF Kept
  <2> QED
    BY <2>2, <2>3
<1> QED
  BY <1>1, <1>7, <1>9, <1>10, <1>11, <1>12, <1>13 DEF SwapInv, Safe

LEMMA WriteKeeps ==
  ASSUME SwapInv, NEW v \in Pages, Write(v)
  PROVE  SwapInv'
<1>0. PICK f, k : f = pte[v] /\ k = writes + 1
  OBVIOUS
<1>1. /\ writes < MaxWrites /\ f # None /\ writes' = k
      /\ last' = [last EXCEPT ![v] = k] /\ mem' = [mem EXCEPT ![f] = k]
      /\ disturbed' = IF Away(v) THEN disturbed \cup {v} ELSE disturbed
      /\ pte' = pte /\ freeFrames' = freeFrames /\ slot_bitmap' = slot_bitmap /\ disk' = disk
      /\ lookup' = lookup /\ worker' = worker /\ dropped_out' = dropped_out
  BY <1>0 DEF Write
<1>2. f \in FrameSet /\ k \in Writes
  <2>1. f \in FrameSet
    BY <1>0, <1>1, SwapFacts
  <2>2. writes \in 0 .. MaxWrites /\ MaxWrites \in Nat
    BY SwapAssumption DEF SwapInv, SwapTypeOK, Writes
  <2> QED
    BY <1>0, <1>1, <2>1, <2>2 DEF Writes
<1>3. /\ \A u \in Pages : last'[u] = IF u = v THEN k ELSE last[u]
      /\ \A g \in FrameSet : mem'[g] = IF g = f THEN k ELSE mem[g]
  BY <1>1, SwapFacts
<1>4. SwapTypeOK'
  BY <1>1, <1>2 DEF SwapInv, SwapTypeOK
<1>5. TableTrue' /\ WorkersApart' /\ SlotsApart' /\ FramesApart'
  BY <1>1 DEF SwapInv, TableTrue, WorkersApart, SlotsApart, FramesApart
<1>6. Safe' \subseteq Safe /\ (Away(v) => v \notin Safe')
  BY <1>1 DEF Safe
<1>7. ASSUME NEW u \in Safe, u \in Safe' PROVE Kept(u)'
  <2>1. Kept(u) /\ u \in Pages
    BY DEF SwapInv, Safe
  <2>2. CASE u = v
    <3>1. \A x \in Workers : worker[x].page = v => worker[x].op = "forget"
      BY <1>6, <1>7, <2>2 DEF Away
    <3>2. pte[v] # None /\ pte' = pte /\ mem'[pte[v]] = k /\ last'[v] = k
      BY <1>0, <1>1, <1>2, <1>3
    <3> QED
      BY <1>1, <2>1, <2>2, <3>1, <3>2 DEF Kept
  <2>3. CASE u # v
    <3>1. last'[u] = last[u] /\ (pte[u] # None => mem'[pte[u]] = mem[pte[u]])
      BY <1>0, <1>1, <1>3, <2>1, <2>3, SwapFacts DEF SwapInv, FramesApart
    <3> QED
      BY <1>1, <2>1, <3>1 DEF Kept
  <2> QED
    BY <2>2, <2>3
<1> QED
  BY <1>4, <1>5, <1>6, <1>7 DEF SwapInv

LEMMA PageFaultKeeps ==
  ASSUME SwapInv, NEW v \in Pages, PageFault(v)
  PROVE  SwapInv'
<1>0. PICK f \in freeFrames :
        /\ pte[v] = None /\ freeFrames' = freeFrames \ {f} /\ pte' = [pte EXCEPT ![v] = f]
        /\ disturbed' = disturbed \cup {v}
        /\ mem' = mem /\ slot_bitmap' = slot_bitmap /\ disk' = disk /\ lookup' = lookup
        /\ worker' = worker /\ writes' = writes /\ last' = last /\ dropped_out' = dropped_out
  BY DEF PageFault
<1>1. f \in FrameSet /\ f # None /\ \A u \in Pages : pte'[u] = IF u = v THEN f ELSE pte[u]
  BY <1>0, SwapFacts, NoneApart DEF SwapInv, SwapTypeOK
<1>2. SwapTypeOK'
  BY <1>0, <1>1 DEF SwapInv, SwapTypeOK
<1>3. TableTrue' /\ WorkersApart' /\ SlotsApart'
  BY <1>0 DEF SwapInv, TableTrue, WorkersApart, SlotsApart
<1>4. FramesApart'
  <2>1. \A u, x \in Pages : pte'[u] = pte'[x] /\ pte'[u] # None => u = x
    BY <1>0, <1>1 DEF SwapInv, FramesApart
  <2>2. \A u \in Pages : pte'[u] \notin freeFrames'
    BY <1>0, <1>1 DEF SwapInv, FramesApart
  <2>3. ASSUME NEW x \in Workers, worker[x].op \in {"write", "unmap", "forget"}
        PROVE  pte'[worker[x].page] = worker[x].frame
    <3>1. worker[x].page \in Pages /\ worker[x].frame # None /\ pte[worker[x].page] = worker[x].frame
      BY <2>3, NoneApart DEF SwapInv, WorkersApart, FramesApart
    <3> QED
      BY <1>0, <1>1, <3>1
  <2>4. ASSUME NEW x \in Workers, worker[x].op = "read"
        PROVE  /\ worker[x].frame \notin freeFrames'
               /\ \A u \in Pages : pte'[u] # worker[x].frame
               /\ \A y \in Workers : worker[y].op = "read" /\ worker[y].frame = worker[x].frame => y = x
    BY <1>0, <1>1, <2>4 DEF SwapInv, FramesApart
  <2> QED
    BY <1>0, <2>1, <2>2, <2>3, <2>4 DEF FramesApart
<1>5. ASSUME NEW u \in Safe, u \in Safe' PROVE Kept(u)'
  <2>1. Kept(u) /\ u \in Pages /\ u # v
    BY <1>0, <1>5 DEF SwapInv, Safe
  <2> QED
    BY <1>0, <1>1, <2>1 DEF Kept
<1>6. Safe' \subseteq Safe
  BY <1>0 DEF Safe
<1> QED
  BY <1>2, <1>3, <1>4, <1>5, <1>6 DEF SwapInv

LEMMA SwapBegins ==
  ASSUME SwapInit
  PROVE  SwapInv
<1>1. /\ pte \in [Pages -> FrameSet] /\ IsInjective(pte) /\ freeFrames = FrameSet \ Range(pte)
      /\ mem = [f \in FrameSet |-> 0] /\ last = [v \in Pages |-> 0]
      /\ lookup = [i \in Rows |-> [virt |-> None, slot |-> -1]]
      /\ worker = [w \in Workers |-> Idle]
  BY DEF SwapInit, Rows
<1>2. 0 \in Writes
  BY SwapAssumption DEF Writes
<1>3. SwapTypeOK
  <2>1. [virt |-> None, slot |-> -1] \in [virt : Pages \cup {None}, slot : Slots \cup {-1}]
    OBVIOUS
  <2>2. lookup \in [1 .. LookupSize -> [virt : Pages \cup {None}, slot : Slots \cup {-1}]]
    BY <1>1, <2>1 DEF Rows
  <2>3. worker \in [Workers -> [op : Ops, page : Pages \cup {None}, frame : FrameSet \cup {None},
                                slot : Slots \cup {-1}]]
    BY <1>1, IdleFacts
  <2> QED
    BY <1>1, <1>2, <2>2, <2>3 DEF SwapInit, SwapTypeOK
<1>4. /\ \A i \in Rows : lookup[i].virt = None /\ lookup[i].slot = -1
      /\ \A w \in Workers : worker[w].op = "idle" /\ worker[w].page = None
  BY <1>1, IdleFacts
<1>5. \A v \in Pages : pte[v] \in FrameSet /\ pte[v] # None /\ pte[v] \in Range(pte)
  BY <1>1, NoneApart DEF Range
<1>6. \A u, v \in Pages : pte[u] = pte[v] => u = v
  BY <1>1 DEF IsInjective
<1>7. TableTrue
  BY <1>4 DEF TableTrue
<1>8. WorkersApart
  BY <1>4 DEF WorkersApart
<1>9. FramesApart
  BY <1>1, <1>4, <1>5, <1>6 DEF FramesApart
<1>10. SlotsApart
  BY <1>4 DEF SlotsApart
<1>11. ASSUME NEW v \in Safe PROVE Kept(v)
  <2>1. v \in Pages /\ v # None
    BY NoneApart DEF Safe
  <2>2. mem[pte[v]] = last[v]
    BY <1>1, <1>5, <2>1
  <2> QED
    BY <1>4, <1>5, <2>1, <2>2 DEF Kept
<1> QED
  BY <1>3, <1>7, <1>8, <1>9, <1>10, <1>11 DEF SwapInv

LEMMA SwapStays ==
  ASSUME SwapInv, UNCHANGED swapVars
  PROVE  SwapInv'
<1>1. /\ pte' = pte /\ mem' = mem /\ freeFrames' = freeFrames /\ slot_bitmap' = slot_bitmap
      /\ disk' = disk /\ lookup' = lookup /\ worker' = worker /\ writes' = writes
      /\ last' = last /\ disturbed' = disturbed /\ dropped_out' = dropped_out
  BY DEF swapVars
<1> QED
  BY <1>1 DEF SwapInv, SwapTypeOK, TableTrue, WorkersApart, FramesApart, SlotsApart, Kept, Safe

LEMMA SwapGoesOn ==
  ASSUME SwapInv, [Next]_vars
  PROVE  SwapInv'
<1>1. SwapNext \/ UNCHANGED swapVars
  BY DEF Next, vars, memoryVars, MemoryNext
<1>2. CASE UNCHANGED swapVars
  BY <1>2, SwapStays
<1>3. ASSUME NEW w \in Workers, SwapStep(w) PROVE SwapInv'
  <2>1. \/ \E v \in Pages : SwapOut(w, v) \/ SwapIn(w, v)
        \/ Written(w) \/ WriteFails(w) \/ Unmap(w) \/ Note(w)
        \/ ReadIn(w) \/ ReadFails(w) \/ Forget(w)
    BY <1>3 DEF SwapStep
  <2> QED
    BY <2>1, SwapOutKeeps, SwapInKeeps, WrittenKeeps, WriteFailsKeeps, UnmapKeeps, NoteKeeps,
       ReadInKeeps, ReadFailsKeeps, ForgetDone
<1>4. ASSUME NEW v \in Pages, Write(v) \/ PageFault(v) PROVE SwapInv'
  BY <1>4, WriteKeeps, PageFaultKeeps
<1>5. CASE SwapNext
  BY <1>3, <1>4, <1>5 DEF SwapNext
<1> QED
  BY <1>1, <1>2, <1>5

(* In every state the table of swapped pages, the frames and the slots     *)
(* agree: a frame is free, or of one page, or of the one swap_in that      *)
(* reads into it; a slot is of one row or of one swap_out; and a page that *)
(* nobody touches while it is away is what was last written to it, in its  *)
(* frame, in the hands of swap_out or in the slot of its row.              *)
THEOREM SwapInvariant == Spec => []SwapInv
<1>1. Init => SwapInv
  BY SwapBegins DEF Init
<1>2. SwapInv /\ [Next]_vars => SwapInv'
  BY SwapGoesOn
<1> QED
  BY <1>1, <1>2, PTL DEF Spec

(* Where a page that is away is to be found.                               *)
LEMMA WhereIs ==
  ASSUME SwapInv, NEW v \in Safe, pte[v] = None
  PROVE  /\ Where(v) \in slot_bitmap /\ disk[Where(v)] = last[v]
         /\ \/ \E w \in Workers : worker[w].page = v /\ worker[w].op = "note" /\ Where(v) = worker[w].slot
            \/ \E i \in Rows : lookup[i].virt = v /\ Where(v) = lookup[i].slot /\ lookup[i].slot # -1
<1>1. Kept(v) /\ v \in Pages /\ v # None
  BY NoneApart DEF SwapInv, Safe
<1>2. \A w \in Workers : worker[w].page = v => worker[w].op \in {"note", "read"}
  BY <1>1, SwapFacts, NoneApart DEF SwapInv, WorkersApart, FramesApart, Ops
<1>3. CASE \E w \in Workers : worker[w].page = v /\ worker[w].op = "note"
  <2>1. PICK w \in Workers : worker[w].page = v /\ worker[w].op = "note"
    BY <1>3
  <2>2. (CHOOSE x \in Workers : worker[x].page = v) = w
    BY <1>1, <2>1 DEF SwapInv, WorkersApart
  <2>3. worker[w].slot \in Slots /\ worker[w].slot \in slot_bitmap /\ disk[worker[w].slot] = last[v]
    BY <1>1, <2>1 DEF SwapInv, WorkersApart, SlotsApart, Kept
  <2>4. worker[w].slot >= 0
    BY <2>3, SwapAssumption DEF Slots
  <2>5. Where(v) = worker[w].slot
    BY <2>1, <2>2, <2>4 DEF Where, Busy
  <2> QED
    BY <2>1, <2>3, <2>5
<1>4. CASE ~\E w \in Workers : worker[w].page = v /\ worker[w].op = "note"
  <2>1. PICK i \in Rows : lookup[i].virt = v /\ lookup[i].slot # -1
    BY <1>1, <1>4 DEF Kept
  <2>2. LookupGet(v) = lookup[i].slot
    BY <1>1, <2>1, RowOf DEF SwapInv
  <2>3. lookup[i].slot \in slot_bitmap /\ disk[lookup[i].slot] = last[v]
    BY <1>1, <1>2, <2>1 DEF SwapInv, TableTrue, Kept
  <2>4. Where(v) = lookup[i].slot
    <3>1. CASE ~Busy(v)
      BY <2>2, <3>1 DEF Where
    <3>2. CASE Busy(v)
      <4>1. PICK w \in Workers : worker[w].page = v /\ worker[w].op = "read"
        BY <1>2, <1>4, <3>2 DEF Busy
      <4>2. (CHOOSE x \in Workers : worker[x].page = v) = w
        BY <1>1, <4>1 DEF SwapInv, WorkersApart
      <4>3. PICK j \in Rows : lookup[j].virt = v /\ lookup[j].slot = worker[w].slot
        BY <4>1 DEF SwapInv, SlotsApart
      <4>4. i = j
        BY <1>1, <2>1, <4>3 DEF SwapInv, TableTrue
      <4> QED
        BY <2>2, <4>2, <4>3, <4>4 DEF Where
    <3> QED
      BY <3>1, <3>2
  <2> QED
    BY <2>1, <2>3, <2>4
<1> QED
  BY <1>3, <1>4

(* A page that nobody touches between its swap_out and its swap_in, and    *)
(* that had a row in the table, keeps what was written to it: its frame or *)
(* its slot holds it, the slot is taken, and neither is another page's.    *)
THEOREM SwappedPagesKept == Spec => []SwapKeepsPages
<1>1. ASSUME SwapInv, NEW v \in Safe, NEW u \in Safe \ {v}, pte[v] = None, pte[u] = None
      PROVE  Where(u) # Where(v)
  <2>1. PICK a, b : a = Where(v) /\ b = Where(u)
    OBVIOUS
  <2>2. \/ \E w \in Workers : worker[w].page = v /\ worker[w].op = "note" /\ a = worker[w].slot
        \/ \E i \in Rows : lookup[i].virt = v /\ a = lookup[i].slot /\ lookup[i].slot # -1
    BY <1>1, <2>1, WhereIs
  <2>3. \/ \E w \in Workers : worker[w].page = u /\ worker[w].op = "note" /\ b = worker[w].slot
        \/ \E i \in Rows : lookup[i].virt = u /\ b = lookup[i].slot /\ lookup[i].slot # -1
    BY <1>1, <2>1, WhereIs
  <2>4. a # b
    BY <1>1, <2>2, <2>3 DEF SwapInv, TableTrue, SlotsApart
  <2> QED
    BY <2>1, <2>4
<1>2. SwapInv => SwapKeepsPages
  <2> SUFFICES ASSUME SwapInv, NEW v \in Safe
               PROVE  /\ pte[v] # None => mem[pte[v]] = last[v]
                      /\ pte[v] = None => /\ Where(v) \in slot_bitmap
                                          /\ disk[Where(v)] = last[v]
                                          /\ \A u \in Safe \ {v} : pte[u] = None => Where(u) # Where(v)
                      /\ pte[v] # None => \A u \in Pages \ {v} : pte[u] # pte[v]
    BY DEF SwapKeepsPages
  <2>1. pte[v] # None => mem[pte[v]] = last[v]
    BY DEF SwapInv, Kept
  <2>2. ASSUME pte[v] = None PROVE Where(v) \in slot_bitmap /\ disk[Where(v)] = last[v]
    BY <2>2, WhereIs
  <2>3. ASSUME pte[v] = None PROVE \A u \in Safe \ {v} : pte[u] = None => Where(u) # Where(v)
    BY <1>1, <2>3
  <2>4. pte[v] # None => \A u \in Pages \ {v} : pte[u] # pte[v]
    BY DEF SwapInv, FramesApart, Safe
  <2> QED
    BY <2>1, <2>2, <2>3, <2>4
<1> QED
  BY <1>2, SwapInvariant, PTL

-----------------------------------------------------------------------------
(* The heap *)

BlockSet == [at : Nat, size : Nat, free : BOOLEAN]

(* used_bytes as it is counted.                                            *)
UsedBytes(bs) == FoldLeft(LAMBDA n, b : IF b.free THEN n ELSE n + b.size, 0, bs)
Uses(b) == IF b.free THEN 0 ELSE b.size

LEMMA UsedSteps ==
  ASSUME NEW bs \in Seq(BlockSet)
  PROVE  \E f \in [0 .. Len(bs) -> Nat] :
           /\ f[0] = 0
           /\ \A k \in 1 .. Len(bs) : f[k] = f[k - 1] + Uses(bs[k])
           /\ UsedBytes(bs) = f[Len(bs)]
<1>1. PICK n : n = Len(bs)
  OBVIOUS
<1>2. n \in Nat /\ DOMAIN bs = 1 .. n /\ \A i \in 1 .. n : bs[i] \in BlockSet
  BY <1>1
<1>3. PICK step : step = [x \in (1 .. n) \X Nat |-> IF bs[x[1]].free THEN x[2] ELSE x[2] + bs[x[1]].size]
  OBVIOUS
<1>4. step \in [(1 .. n) \X Nat -> Nat]
  <2>1. ASSUME NEW x \in (1 .. n) \X Nat
        PROVE  (IF bs[x[1]].free THEN x[2] ELSE x[2] + bs[x[1]].size) \in Nat
    <3>1. x[1] \in 1 .. n /\ x[2] \in Nat
      OBVIOUS
    <3>2. bs[x[1]].size \in Nat
      BY <1>2, <3>1 DEF BlockSet
    <3> QED
      BY <3>1, <3>2
  <2> QED
    BY <1>3, <2>1
<1>5. PICK it \in [SUBSET (1 .. n) -> Nat] : IsTable(it, n, 0, step)
  <2>1. 0 \in Nat
    OBVIOUS
  <2> QED
    BY <1>2, <1>4, <2>1, FoldTable, Zenon
<1>6. ASSUME NEW t \in SUBSET (1 .. n), t # {}
      PROVE  step[<<Max(t), it[t \ {Max(t)}]>>] =
               IF bs[Max(t)].free THEN it[t \ {Max(t)}] ELSE it[t \ {Max(t)}] + bs[Max(t)].size
  <2>1. Max(t) \in 1 .. n
    BY <1>2, <1>6, MaxFacts
  <2>2. it[t \ {Max(t)}] \in Nat
    BY <1>5
  <2> QED
    BY <1>3, <2>1, <2>2
<1>7. it = [t \in SUBSET (DOMAIN bs) |->
              IF t = {} THEN 0
              ELSE IF bs[Max(t)].free THEN it[t \ {Max(t)}] ELSE it[t \ {Max(t)}] + bs[Max(t)].size]
  <2>1. \A t \in SUBSET (1 .. n) :
          it[t] = IF t = {} THEN 0
                  ELSE IF bs[Max(t)].free THEN it[t \ {Max(t)}] ELSE it[t \ {Max(t)}] + bs[Max(t)].size
    BY <1>5, <1>6 DEF IsTable
  <2> QED
    BY <1>2, <2>1
<1>8. PICK fold : /\ fold = [t \in SUBSET (DOMAIN bs) |->
                                IF t = {} THEN 0
                                ELSE IF bs[Max(t)].free THEN fold[t \ {Max(t)}]
                                ELSE fold[t \ {Max(t)}] + bs[Max(t)].size]
                   /\ UsedBytes(bs) = fold[DOMAIN bs]
  <2> DEFINE made == CHOOSE g : g = [t \in SUBSET (DOMAIN bs) |->
              IF t = {} THEN 0
              ELSE IF bs[Max(t)].free THEN g[t \ {Max(t)}] ELSE g[t \ {Max(t)}] + bs[Max(t)].size]
  <2>1. made = [t \in SUBSET (DOMAIN bs) |->
              IF t = {} THEN 0
              ELSE IF bs[Max(t)].free THEN made[t \ {Max(t)}] ELSE made[t \ {Max(t)}] + bs[Max(t)].size]
    BY <1>7
  <2>2. UsedBytes(bs) = made[DOMAIN bs]
    BY DEF UsedBytes, FoldLeft, MapThenFoldSet
  <2> HIDE DEF made
  <2> QED
    BY <2>1, <2>2
<1>10. fold[{}] = 0
  BY <1>8
<1>11. ASSUME NEW t \in SUBSET (1 .. n), t # {}, fold[t \ {Max(t)}] \in Nat
       PROVE  fold[t] = step[<<Max(t), fold[t \ {Max(t)}]>>]
  <2>1. Max(t) \in 1 .. n
    BY <1>2, <1>11, MaxFacts
  <2>2. step[<<Max(t), fold[t \ {Max(t)}]>>] =
          IF bs[Max(t)].free THEN fold[t \ {Max(t)}] ELSE fold[t \ {Max(t)}] + bs[Max(t)].size
    BY <1>3, <1>11, <2>1
  <2>3. t \in SUBSET (DOMAIN bs)
    BY <1>2
  <2>4. fold[t] = IF bs[Max(t)].free THEN fold[t \ {Max(t)}] ELSE fold[t \ {Max(t)}] + bs[Max(t)].size
    BY <1>8, <1>11, <2>3
  <2> QED
    BY <2>2, <2>4
<1>12. PICK f \in [0 .. n -> Nat] : Accumulates(f, n, 0, step, fold)
  <2>1. 0 \in Nat
    OBVIOUS
  <2>2. Tabulates(fold, n, Nat, step)
    BY <1>11 DEF Tabulates
  <2> QED
    BY <1>2, <1>4, <1>10, <2>1, <2>2, FoldAlong
<1>13. \A k \in 1 .. n : f[k] = f[k - 1] + Uses(bs[k])
  <2> SUFFICES ASSUME NEW k \in 1 .. n PROVE f[k] = f[k - 1] + Uses(bs[k])
    OBVIOUS
  <2>1. f[k - 1] \in Nat
    BY <1>2
  <2>2. step[<<k, f[k - 1]>>] = IF bs[k].free THEN f[k - 1] ELSE f[k - 1] + bs[k].size
    BY <1>3, <2>1
  <2> QED
    BY <1>12, <2>1, <2>2 DEF Uses, Accumulates
<1> QED
  BY <1>1, <1>2, <1>8, <1>12, <1>13 DEF Accumulates

(* Merging block after block.                                              *)
LEMMA MergeTyped ==
  ASSUME NEW m \in Seq(BlockSet), NEW b \in BlockSet
  PROVE  Merge(m, b) \in Seq(BlockSet)
<1>1. CASE m # <<>> /\ Last(m).free /\ b.free
  <2>1. Len(m) \in 1 .. Len(m) /\ m[Len(m)] \in BlockSet /\ HDR \in Nat
    BY <1>1, KHeapAssumption
  <2>2. [m[Len(m)] EXCEPT !.size = @ + HDR + b.size] \in BlockSet
    <3>1. PICK c \in BlockSet : c = m[Len(m)]
      BY <2>1
    <3>2. c.size + HDR + b.size \in Nat
      BY <2>1 DEF BlockSet
    <3> QED
      BY <3>1, <3>2 DEF BlockSet
  <2>3. Merge(m, b) = [m EXCEPT ![Len(m)] = [m[Len(m)] EXCEPT !.size = @ + HDR + b.size]]
    BY <1>1 DEF Merge
  <2> QED
    BY <2>1, <2>2, <2>3, ExceptSeq
<1>2. CASE ~(m # <<>> /\ Last(m).free /\ b.free)
  BY <1>2 DEF Merge
<1> QED
  BY <1>1, <1>2

LEMMA MergeSteps ==
  ASSUME NEW bs \in Seq(BlockSet)
  PROVE  \E f \in [0 .. Len(bs) -> Seq(BlockSet)] :
           /\ f[0] = <<>>
           /\ \A k \in 1 .. Len(bs) : f[k] = Merge(f[k - 1], bs[k])
           /\ FoldLeft(Merge, <<>>, bs) = f[Len(bs)]
<1>1. PICK n : n = Len(bs)
  OBVIOUS
<1>2. n \in Nat /\ DOMAIN bs = 1 .. n /\ \A i \in 1 .. n : bs[i] \in BlockSet
  BY <1>1
<1>3. PICK step : step = [x \in (1 .. n) \X Seq(BlockSet) |-> Merge(x[2], bs[x[1]])]
  OBVIOUS
<1>4. step \in [(1 .. n) \X Seq(BlockSet) -> Seq(BlockSet)]
  <2>1. ASSUME NEW x \in (1 .. n) \X Seq(BlockSet)
        PROVE  Merge(x[2], bs[x[1]]) \in Seq(BlockSet)
    <3>1. bs[x[1]] \in BlockSet /\ x[2] \in Seq(BlockSet)
      BY <1>2
    <3> QED
      BY <3>1, MergeTyped
  <2> QED
    BY <1>3, <2>1
<1>5. <<>> \in Seq(BlockSet)
  OBVIOUS
<1>6. PICK it \in [SUBSET (1 .. n) -> Seq(BlockSet)] : IsTable(it, n, <<>>, step)
  BY <1>2, <1>4, <1>5, FoldTable
<1>7. it = [t \in SUBSET (DOMAIN bs) |->
              IF t = {} THEN <<>> ELSE Merge(it[t \ {Max(t)}], bs[Max(t)])]
  <2>1. ASSUME NEW t \in SUBSET (1 .. n), t # {}
        PROVE  step[<<Max(t), it[t \ {Max(t)}]>>] = Merge(it[t \ {Max(t)}], bs[Max(t)])
    <3>1. Max(t) \in 1 .. n
      BY <1>2, <2>1, MaxFacts
    <3>2. it[t \ {Max(t)}] \in Seq(BlockSet)
      BY <1>6
    <3> QED
      BY <1>3, <3>1, <3>2
  <2>2. \A t \in SUBSET (1 .. n) :
          it[t] = IF t = {} THEN <<>> ELSE Merge(it[t \ {Max(t)}], bs[Max(t)])
    BY <1>6, <2>1 DEF IsTable
  <2> QED
    BY <1>2, <2>2
<1>8. PICK fold : /\ fold = [t \in SUBSET (DOMAIN bs) |->
                                IF t = {} THEN <<>> ELSE Merge(fold[t \ {Max(t)}], bs[Max(t)])]
                   /\ FoldLeft(Merge, <<>>, bs) = fold[DOMAIN bs]
  <2> DEFINE made == CHOOSE g : g = [t \in SUBSET (DOMAIN bs) |->
              IF t = {} THEN <<>> ELSE Merge(g[t \ {Max(t)}], bs[Max(t)])]
  <2>1. made = [t \in SUBSET (DOMAIN bs) |->
              IF t = {} THEN <<>> ELSE Merge(made[t \ {Max(t)}], bs[Max(t)])]
    BY <1>7
  <2>2. FoldLeft(Merge, <<>>, bs) = made[DOMAIN bs]
    BY DEF FoldLeft, MapThenFoldSet
  <2> HIDE DEF made
  <2> QED
    BY <2>1, <2>2
<1>10. fold[{}] = <<>>
  BY <1>8
<1>11. ASSUME NEW t \in SUBSET (1 .. n), t # {}, fold[t \ {Max(t)}] \in Seq(BlockSet)
       PROVE  fold[t] = step[<<Max(t), fold[t \ {Max(t)}]>>]
  <2>1. Max(t) \in 1 .. n
    BY <1>2, <1>11, MaxFacts
  <2>2. step[<<Max(t), fold[t \ {Max(t)}]>>] = Merge(fold[t \ {Max(t)}], bs[Max(t)])
    BY <1>3, <1>11, <2>1
  <2> QED
    BY <1>2, <1>8, <1>11, <2>2
<1>12. PICK f \in [0 .. n -> Seq(BlockSet)] : Accumulates(f, n, <<>>, step, fold)
  <2>1. Tabulates(fold, n, Seq(BlockSet), step)
    BY <1>11 DEF Tabulates
  <2> QED
    BY <1>2, <1>4, <1>5, <1>10, <2>1, FoldAlong
<1>13. \A k \in 1 .. n : f[k] = Merge(f[k - 1], bs[k])
  <2> SUFFICES ASSUME NEW k \in 1 .. n PROVE f[k] = Merge(f[k - 1], bs[k])
    OBVIOUS
  <2>1. f[k - 1] \in Seq(BlockSet)
    BY <1>2
  <2>2. step[<<k, f[k - 1]>>] = Merge(f[k - 1], bs[k])
    BY <1>3, <2>1
  <2> QED
    BY <1>12, <2>2 DEF Accumulates
<1> QED
  BY <1>1, <1>2, <1>8, <1>12, <1>13 DEF Accumulates

(* used_bytes, after a change of the list.                                 *)
CountsUp(f, bs) == f[0] = 0 /\ \A k \in 1 .. Len(bs) : f[k] = f[k - 1] + Uses(bs[k])

LEMMA UsesTyped ==
  ASSUME NEW b \in BlockSet
  PROVE  Uses(b) \in Nat /\ Uses(b) <= b.size
BY DEF BlockSet, Uses

LEMMA UsedIs ==
  ASSUME NEW bs \in Seq(BlockSet), NEW f, CountsUp(f, bs)
  PROVE  UsedBytes(bs) = f[Len(bs)] /\ \A k \in 0 .. Len(bs) : f[k] \in Nat
<1>1. PICK n : n = Len(bs)
  OBVIOUS
<1>2. n \in Nat /\ \A k \in 1 .. n : Uses(bs[k]) \in Nat
  BY <1>1, UsesTyped
<1>3. PICK g \in [0 .. n -> Nat] :
        g[0] = 0 /\ (\A k \in 1 .. n : g[k] = g[k - 1] + Uses(bs[k])) /\ UsedBytes(bs) = g[n]
  BY <1>1, UsedSteps
<1>4. f[0] = 0 /\ \A k \in 1 .. n : f[k] = f[k - 1] + Uses(bs[k])
  BY <1>1 DEF CountsUp
<1> DEFINE T == {k \in Nat : k <= n => f[k] = g[k]}
<1>5. 0 \in T
  BY <1>3, <1>4
<1>6. ASSUME NEW k \in Nat, k \in T PROVE k + 1 \in T
  <2> SUFFICES ASSUME k + 1 <= n PROVE f[k + 1] = g[k + 1]
    OBVIOUS
  <2>1. f[k] = g[k] /\ k + 1 \in 1 .. n /\ (k + 1) - 1 = k
    BY <1>2, <1>6
  <2>2. f[k + 1] = f[k] + Uses(bs[k + 1]) /\ g[k + 1] = g[k] + Uses(bs[k + 1])
    BY <1>3, <1>4, <2>1
  <2> QED
    BY <2>1, <2>2
<1> HIDE DEF T
<1>7. \A k \in Nat : k \in T
  BY <1>5, <1>6, Induction
<1>8. \A k \in 0 .. n : f[k] = g[k] /\ g[k] \in Nat
  BY <1>2, <1>3, <1>7 DEF T
<1> QED
  BY <1>1, <1>2, <1>3, <1>8

LEMMA UsedPrefixes ==
  ASSUME NEW bs \in Seq(BlockSet)
  PROVE  \E f \in [0 .. Len(bs) -> Nat] : CountsUp(f, bs) /\ UsedBytes(bs) = f[Len(bs)]
BY UsedSteps DEF CountsUp

LEMMA UsedChange ==
  ASSUME NEW bs \in Seq(BlockSet), NEW cs \in Seq(BlockSet), Len(cs) = Len(bs),
         NEW i \in 1 .. Len(bs), \A k \in 1 .. Len(bs) : k # i => Uses(cs[k]) = Uses(bs[k])
  PROVE  /\ UsedBytes(cs) = (UsedBytes(bs) - Uses(bs[i])) + Uses(cs[i])
         /\ UsedBytes(bs) \in Nat
<1>1. PICK n, u, v : n = Len(bs) /\ u = Uses(bs[i]) /\ v = Uses(cs[i])
  OBVIOUS
<1>2. n \in Nat /\ u \in Nat /\ v \in Nat /\ \A k \in 1 .. n : Uses(bs[k]) \in Nat
  BY <1>1, UsesTyped
<1>3. PICK f \in [0 .. n -> Nat] : CountsUp(f, bs) /\ UsedBytes(bs) = f[n]
  BY <1>1, UsedPrefixes
<1>4. PICK g : g = [k \in 0 .. n |-> IF k < i THEN f[k] ELSE (f[k] - u) + v]
  OBVIOUS
<1>5. CountsUp(g, cs)
  <2>1. g[0] = 0
    <3>1. g[0] = f[0]
      BY <1>1, <1>2, <1>4
    <3> QED
      BY <1>3, <3>1 DEF CountsUp
  <2>2. ASSUME NEW k \in 1 .. n PROVE g[k] = g[k - 1] + Uses(cs[k])
    <3>0. k - 1 \in 0 .. n /\ k \in 0 .. n
      BY <1>2
    <3>1. f[k] \in Nat /\ f[k - 1] \in Nat /\ f[k] = f[k - 1] + Uses(bs[k])
      BY <1>1, <1>3, <3>0 DEF CountsUp
    <3>2. g[k] = (IF k < i THEN f[k] ELSE (f[k] - u) + v)
      BY <1>4
    <3>3. g[k - 1] = (IF k - 1 < i THEN f[k - 1] ELSE (f[k - 1] - u) + v)
      BY <1>4, <3>0
    <3>4. CASE k < i
      BY <1>1, <1>2, <3>1, <3>2, <3>3, <3>4
    <3>5. CASE k = i
      BY <1>1, <1>2, <3>1, <3>2, <3>3, <3>5
    <3>6. CASE k > i
      <4>1. Uses(cs[k]) = Uses(bs[k]) /\ Uses(bs[k]) \in Nat
        BY <1>1, <1>2, <3>6
      <4> QED
        BY <1>1, <1>2, <3>1, <3>2, <3>3, <3>6, <4>1, SMTT(30)
    <3> QED
      BY <3>4, <3>5, <3>6
  <2> QED
    BY <1>1, <2>1, <2>2 DEF CountsUp
<1>6. UsedBytes(cs) = g[n]
  BY <1>1, <1>5, UsedIs
<1>7. g[n] = (f[n] - u) + v /\ f[n] \in Nat
  BY <1>1, <1>2, <1>3, <1>4
<1> QED
  BY <1>1, <1>3, <1>6, <1>7

LEMMA UsedAppend ==
  ASSUME NEW bs \in Seq(BlockSet), NEW b \in BlockSet
  PROVE  UsedBytes(Append(bs, b)) = UsedBytes(bs) + Uses(b)
<1>1. PICK n, cs : n = Len(bs) /\ cs = Append(bs, b)
  OBVIOUS
<1>2. /\ n \in Nat /\ cs \in Seq(BlockSet) /\ Len(cs) = n + 1 /\ cs[n + 1] = b
      /\ \A k \in 1 .. n : cs[k] = bs[k]
  BY <1>1, AppendProperties
<1>3. PICK f \in [0 .. n -> Nat] : CountsUp(f, bs) /\ UsedBytes(bs) = f[n]
  BY <1>1, UsedPrefixes
<1>4. PICK g : g = [k \in 0 .. n + 1 |-> IF k <= n THEN f[k] ELSE f[n] + Uses(b)]
  OBVIOUS
<1>5. CountsUp(g, cs)
  <2>1. g[0] = 0
    <3>1. g[0] = f[0]
      BY <1>2, <1>4
    <3> QED
      BY <1>3, <3>1 DEF CountsUp
  <2>2. ASSUME NEW k \in 1 .. n + 1 PROVE g[k] = g[k - 1] + Uses(cs[k])
    <3>1. CASE k \in 1 .. n
      <4>1. f[k] = f[k - 1] + Uses(bs[k])
        BY <1>1, <1>3, <3>1 DEF CountsUp
      <4>2. g[k] = f[k] /\ g[k - 1] = f[k - 1] /\ cs[k] = bs[k]
        BY <1>2, <1>4, <3>1
      <4> QED
        BY <4>1, <4>2
    <3>2. CASE k = n + 1
      <4>1. k - 1 = n /\ g[n] = f[n] /\ g[n + 1] = f[n] + Uses(b)
        BY <1>2, <1>4, <3>2
      <4> QED
        BY <1>2, <3>2, <4>1
    <3> QED
      BY <1>2, <3>1, <3>2
  <2> QED
    BY <1>2, <2>1, <2>2 DEF CountsUp
<1>6. UsedBytes(cs) = g[n + 1]
  BY <1>2, <1>5, UsedIs
<1>7. g[n + 1] = f[n] + Uses(b)
  BY <1>2, <1>4
<1> QED
  BY <1>1, <1>3, <1>6, <1>7

LEMMA UsedInsert ==
  ASSUME NEW bs \in Seq(BlockSet), NEW b \in BlockSet, b.free, NEW i \in 1 .. Len(bs) + 1
  PROVE  UsedBytes(PutIn(bs, i, b)) = UsedBytes(bs)
<1>1. PICK n, cs : n = Len(bs) /\ cs = PutIn(bs, i, b)
  OBVIOUS
<1>2. /\ n \in Nat /\ cs \in Seq(BlockSet) /\ Len(cs) = n + 1 /\ Uses(b) = 0
      /\ \A k \in 1 .. n + 1 : cs[k] = IF k < i THEN bs[k] ELSE IF k = i THEN b ELSE bs[k - 1]
  <2>1. PICK m : m = PutIn(bs, i, b)
    OBVIOUS
  <2>2. /\ m \in Seq(BlockSet) /\ Len(m) = Len(bs) + 1
        /\ \A k \in 1 .. Len(bs) + 1 : m[k] = IF k < i THEN bs[k] ELSE IF k = i THEN b ELSE bs[k - 1]
    BY <2>1, Inserting, SMTT(30)
  <2>3. Uses(b) = 0 /\ n \in Nat
    BY <1>1 DEF Uses
  <2> QED
    BY <1>1, <2>1, <2>2, <2>3
<1>3. PICK f \in [0 .. n -> Nat] : CountsUp(f, bs) /\ UsedBytes(bs) = f[n]
  BY <1>1, UsedPrefixes
<1>4. PICK g : g = [k \in 0 .. n + 1 |-> IF k < i THEN f[k] ELSE f[k - 1]]
  OBVIOUS
<1>5. CountsUp(g, cs)
  <2>1. g[0] = 0
    <3>1. g[0] = f[0]
      BY <1>1, <1>2, <1>4
    <3> QED
      BY <1>3, <3>1 DEF CountsUp
  <2>2. ASSUME NEW k \in 1 .. n + 1 PROVE g[k] = g[k - 1] + Uses(cs[k])
    <3>0. k - 1 \in 0 .. n + 1 /\ i \in Int /\ \A j \in 1 .. n : f[j] = f[j - 1] + Uses(bs[j])
      BY <1>1, <1>2, <1>3 DEF CountsUp
    <3>1. CASE k < i
      <4>1. k \in 1 .. n /\ cs[k] = bs[k] /\ g[k] = f[k] /\ g[k - 1] = f[k - 1]
        BY <1>1, <1>2, <1>4, <3>0, <3>1
      <4> QED
        BY <3>0, <4>1
    <3>2. CASE k = i
      <4>1. cs[k] = b /\ g[k] = f[k - 1] /\ g[k - 1] = f[k - 1] /\ k - 1 \in 0 .. n
        BY <1>1, <1>2, <1>4, <3>0, <3>2
      <4>2. f[k - 1] \in Nat
        BY <1>3, <4>1
      <4> QED
        BY <1>2, <4>1, <4>2
    <3>3. CASE k > i
      <4>1. k - 1 \in 1 .. n /\ cs[k] = bs[k - 1] /\ g[k] = f[k - 1] /\ g[k - 1] = f[(k - 1) - 1]
        BY <1>1, <1>2, <1>4, <3>0, <3>3
      <4> QED
        BY <3>0, <4>1
    <3> QED
      BY <3>0, <3>1, <3>2, <3>3
  <2> QED
    BY <1>2, <2>1, <2>2 DEF CountsUp
<1>6. UsedBytes(cs) = g[n + 1]
  BY <1>2, <1>5, UsedIs
<1>7. g[n + 1] = f[n]
  <2>1. n + 1 \in 0 .. n + 1 /\ ~(n + 1 < i)
    BY <1>1, <1>2
  <2> QED
    BY <1>2, <1>4, <2>1
<1> QED
  BY <1>1, <1>3, <1>6, <1>7

(* The blocks of a list follow each other, with room for their headers.    *)
Apart(bs) == \A i, j \in 1 .. Len(bs) : i < j => End(bs[i]) <= bs[j].at
Below(bs, top) == \A i \in 1 .. Len(bs) : End(bs[i]) <= top

LEMMA BlockFacts ==
  ASSUME NEW b \in BlockSet
  PROVE  /\ b.at \in Nat /\ b.size \in Nat /\ b.free \in BOOLEAN /\ HDR \in Nat /\ HDR > 0
         /\ End(b) = b.at + HDR + b.size /\ End(b) \in Nat /\ b.at < End(b)
<1>1. b.at \in Nat /\ b.size \in Nat /\ b.free \in BOOLEAN /\ HDR \in Nat /\ HDR > 0
  BY KHeapAssumption DEF BlockSet
<1> QED
  BY <1>1 DEF End

LEMMA PlacesApart ==
  ASSUME NEW bs \in Seq(BlockSet), Apart(bs), NEW i \in 1 .. Len(bs), NEW j \in 1 .. Len(bs),
         bs[i].at = bs[j].at
  PROVE  i = j
<1>1. /\ End(bs[i]) \in Nat /\ bs[i].at < End(bs[i]) /\ End(bs[j]) \in Nat /\ bs[j].at < End(bs[j])
      /\ bs[i].at \in Nat /\ bs[j].at \in Nat
  BY BlockFacts
<1> QED
  BY <1>1 DEF Apart

(* heap_split, and the first part taken: that part is as large as was      *)
(* asked for, and the other blocks are what they were.                     *)
IsSplit(cs, bs, i, s, top) ==
  /\ cs = [Split(bs, i, s) EXCEPT ![i].free = FALSE]
  /\ Len(cs) >= Len(bs) /\ Apart(cs) /\ Below(cs, top)
  /\ cs[i].at = bs[i].at /\ ~cs[i].free /\ cs[i].size >= s
  /\ \A j \in 1 .. Len(cs) : j # i /\ ~cs[j].free => \E k \in 1 .. Len(bs) : k # i /\ cs[j] = bs[k]
  /\ \A k \in 1 .. Len(bs) : ~bs[k].free => \E j \in 1 .. Len(cs) : j # i /\ cs[j] = bs[k]
  /\ UsedBytes(cs) = UsedBytes(bs) + cs[i].size

LEMMA SplitTrue ==
  ASSUME NEW bs \in Seq(BlockSet), Apart(bs), NEW i \in 1 .. Len(bs), NEW s \in Nat, NEW top \in Nat,
         bs[i].free, bs[i].size >= s, Below(bs, top)
  PROVE  \E cs \in Seq(BlockSet) : IsSplit(cs, bs, i, s, top)
<1>1. PICK n, b : n = Len(bs) /\ b = bs[i]
  OBVIOUS
<1>2. n \in Nat /\ b \in BlockSet /\ b.free /\ b.size >= s /\ Uses(b) = 0 /\ MINSPLIT \in Nat
  BY <1>1, KHeapAssumption DEF Uses
<1>3. b.at \in Nat /\ b.size \in Nat /\ HDR \in Nat /\ HDR > 0 /\ End(b) = b.at + HDR + b.size
  BY <1>2, BlockFacts
<1>4. \A k \in 1 .. n : bs[k] \in BlockSet /\ End(bs[k]) \in Nat /\ bs[k].at \in Nat /\ End(bs[k]) <= top
  BY <1>1, BlockFacts DEF Below
<1>5. CASE b.size < s + HDR + MINSPLIT
  <2>1. PICK c : c = [b EXCEPT !.free = FALSE]
    OBVIOUS
  <2>2. c \in BlockSet /\ c.at = b.at /\ c.size = b.size /\ ~c.free /\ Uses(c) = b.size /\ End(c) = End(b)
    BY <1>2, <2>1 DEF BlockSet, Uses, End
  <2>3. PICK cs : cs = [bs EXCEPT ![i] = c]
    OBVIOUS
  <2>4. /\ cs \in Seq(BlockSet) /\ Len(cs) = n
        /\ \A k \in 1 .. n : cs[k] = IF k = i THEN c ELSE bs[k]
    BY <1>1, <2>2, <2>3
  <2>5. cs = [Split(bs, i, s) EXCEPT ![i].free = FALSE]
    BY <1>1, <1>5, <2>1, <2>3 DEF Split
  <2>6. Apart(cs) /\ Below(cs, top)
    BY <1>1, <2>2, <2>4 DEF Apart, Below
  <2>7. UsedBytes(cs) = UsedBytes(bs) + b.size
    <3>1. \A k \in 1 .. Len(bs) : k # i => Uses(cs[k]) = Uses(bs[k])
      BY <1>1, <2>4
    <3>2. /\ UsedBytes(cs) = (UsedBytes(bs) - Uses(bs[i])) + Uses(cs[i])
          /\ UsedBytes(bs) \in Nat
      BY <1>1, <2>4, <3>1, UsedChange
    <3>3. Uses(bs[i]) = 0 /\ Uses(cs[i]) = b.size
      BY <1>1, <1>2, <2>2, <2>4
    <3> QED
      BY <1>3, <3>2, <3>3
  <2>8. cs[i] = c
    BY <1>1, <2>4
  <2>9. \A j \in 1 .. Len(cs) : j # i /\ ~cs[j].free => \E k \in 1 .. Len(bs) : k # i /\ cs[j] = bs[k]
    BY <1>1, <2>4
  <2>10. \A k \in 1 .. Len(bs) : ~bs[k].free => \E j \in 1 .. Len(cs) : j # i /\ cs[j] = bs[k]
    BY <1>1, <1>2, <2>4
  <2>11. Len(cs) >= Len(bs) /\ cs[i].at = bs[i].at /\ ~cs[i].free /\ cs[i].size >= s
    BY <1>1, <1>2, <2>2, <2>4, <2>8
  <2>12. UsedBytes(cs) = UsedBytes(bs) + cs[i].size
    BY <2>2, <2>7, <2>8
  <2> cs \in Seq(BlockSet)
    BY <2>4
  <2> WITNESS cs \in Seq(BlockSet)
  <2> QED
    BY <2>5, <2>6, <2>9, <2>10, <2>11, <2>12 DEF IsSplit
<1>6. CASE ~(b.size < s + HDR + MINSPLIT)
  <2>0. b.size - s - HDR \in Nat /\ b.size - s - HDR = (b.size - s) - HDR
    BY <1>2, <1>3, <1>6
  <2>1. PICK c, r, ms : /\ c = [b EXCEPT !.size = s, !.free = FALSE]
                        /\ r = Block(b.at + HDR + s, b.size - s - HDR)
                        /\ ms = PutIn(bs, i + 1, r)
    OBVIOUS
  <2>2. c \in BlockSet /\ c.at = b.at /\ c.size = s /\ ~c.free /\ Uses(c) = s /\ End(c) = b.at + HDR + s
    BY <1>2, <2>1 DEF BlockSet, Uses, End
  <2>3. r \in BlockSet /\ r.at = b.at + HDR + s /\ r.free /\ End(r) = End(b)
    <3>1. r.at = b.at + HDR + s /\ r.size = b.size - s - HDR /\ r.free
      BY <2>1 DEF Block
    <3>2. r \in BlockSet
      <4>1. PICK x, y : x = b.at + HDR + s /\ y = b.size - s - HDR
        OBVIOUS
      <4>2. x \in Nat /\ y \in Nat
        BY <1>3, <2>0, <4>1, SMTT(30)
      <4>3. r = [at |-> x, size |-> y, free |-> TRUE]
        BY <2>1, <4>1 DEF Block
      <4> QED
        BY <4>2, <4>3 DEF BlockSet
    <3>3. End(r) = (b.at + HDR + s) + HDR + (b.size - s - HDR)
      BY <3>1 DEF End
    <3> QED
      BY <1>3, <2>0, <3>1, <3>2, <3>3, SMTT(30)
  <2>4. /\ ms \in Seq(BlockSet) /\ Len(ms) = n + 1
        /\ \A k \in 1 .. n + 1 : ms[k] = IF k < i + 1 THEN bs[k] ELSE IF k = i + 1 THEN r ELSE bs[k - 1]
    <3>1. i + 1 \in 1 .. Len(bs) + 1
      BY <1>1, <1>2
    <3>2. PICK m : m = PutIn(bs, i + 1, r)
      OBVIOUS
    <3>3. PICK q \in 1 .. Len(bs) + 1 : q = i + 1
      BY <3>1
    <3>4. m = PutIn(bs, q, r)
      BY <3>2, <3>3
    <3>5. /\ m \in Seq(BlockSet) /\ Len(m) = Len(bs) + 1
          /\ \A k \in 1 .. Len(bs) + 1 : m[k] = IF k < q THEN bs[k] ELSE IF k = q THEN r ELSE bs[k - 1]
      <4>1. PICK e \in BlockSet : e = r
        BY <2>3
      <4>2. /\ PutIn(bs, q, e) \in Seq(BlockSet) /\ Len(PutIn(bs, q, e)) = Len(bs) + 1
            /\ \A k \in 1 .. Len(bs) + 1 :
                 PutIn(bs, q, e)[k] = IF k < q THEN bs[k] ELSE IF k = q THEN e ELSE bs[k - 1]
        BY Inserting
      <4> QED
        BY <3>4, <4>1, <4>2, Zenon
    <3> QED
      BY <1>1, <2>1, <3>2, <3>3, <3>5
  <2>5. PICK cs : cs = [ms EXCEPT ![i] = c]
    OBVIOUS
  <2>6. i \in 1 .. n + 1 /\ i \in 1 .. n /\ i + 1 \in 1 .. n + 1
    BY <1>1, <1>2
  <2>7. /\ cs \in Seq(BlockSet) /\ Len(cs) = n + 1
        /\ \A k \in 1 .. n + 1 : cs[k] = IF k = i THEN c ELSE ms[k]
    BY <2>2, <2>4, <2>5, <2>6
  <2>8. /\ \A k \in 1 .. n + 1 : k < i => cs[k] = bs[k]
        /\ cs[i] = c /\ cs[i + 1] = r
        /\ \A k \in 1 .. n + 1 : k > i + 1 => cs[k] = bs[k - 1] /\ k - 1 \in 1 .. n /\ k - 1 > i
    BY <1>2, <2>4, <2>6, <2>7
  <2>9. cs = [Split(bs, i, s) EXCEPT ![i].free = FALSE]
    <3>1. InsertAt(bs, i + 1, r) = ms
      BY <2>1 DEF InsertAt, PutIn
    <3>2. Split(bs, i, s) = [ms EXCEPT ![i].size = s]
      BY <1>1, <1>6, <2>1, <3>1 DEF Split
    <3>3. ms[i] = b
      BY <1>1, <1>2, <2>4, <2>6
    <3>4. PICK d : d = [b EXCEPT !.size = s]
      OBVIOUS
    <3>5. Split(bs, i, s) = [ms EXCEPT ![i] = d]
      BY <3>2, <3>3, <3>4
    <3>6. c = [d EXCEPT !.free = FALSE]
      BY <2>1, <3>4
    <3>7. DOMAIN ms = 1 .. n + 1
      BY <2>4
    <3>8. [ms EXCEPT ![i] = d][i] = d
      BY <2>6, <3>7
    <3>9. [Split(bs, i, s) EXCEPT ![i].free = FALSE] = [[ms EXCEPT ![i] = d] EXCEPT ![i] = c]
      BY <3>5, <3>6, <3>8
    <3>10. [[ms EXCEPT ![i] = d] EXCEPT ![i] = c] = [ms EXCEPT ![i] = c]
      OBVIOUS
    <3> QED
      BY <2>5, <3>9, <3>10
  <2>10. \A j, k \in 1 .. n + 1 : j < k => End(cs[j]) <= cs[k].at
    <3> SUFFICES ASSUME NEW j \in 1 .. n + 1, NEW k \in 1 .. n + 1, j < k
                 PROVE  End(cs[j]) <= cs[k].at
      OBVIOUS
    <3>0. \A x, y \in 1 .. n : x < y => End(bs[x]) <= bs[y].at
      BY <1>1 DEF Apart
    <3>1. CASE k < i
      <4>1. j \in 1 .. n /\ k \in 1 .. n /\ cs[j] = bs[j] /\ cs[k] = bs[k]
        BY <1>2, <2>6, <2>8, <3>1
      <4> QED
        BY <3>0, <4>1
    <3>2. CASE k = i
      <4>1. j \in 1 .. n /\ cs[j] = bs[j] /\ cs[k].at = bs[i].at
        BY <1>1, <1>2, <2>2, <2>6, <2>8, <3>2
      <4> QED
        BY <2>6, <3>0, <3>2, <4>1
    <3>3. CASE k = i + 1
      <4>1. CASE j = i
        BY <2>2, <2>3, <2>8, <3>3, <4>1, <1>3
      <4>2. CASE j < i
        <5>1. j \in 1 .. n /\ cs[j] = bs[j] /\ End(bs[j]) <= b.at /\ End(bs[j]) \in Nat
          BY <1>1, <1>2, <1>4, <2>6, <2>8, <3>0, <4>2
        <5>2. cs[k].at = b.at + HDR + s
          BY <2>3, <2>8, <3>3
        <5> QED
          BY <1>3, <5>1, <5>2
      <4> QED
        BY <2>6, <3>3, <4>1, <4>2
    <3>4. CASE k > i + 1
      <4>0. cs[k] = bs[k - 1] /\ k - 1 \in 1 .. n /\ k - 1 > i /\ End(b) <= bs[k - 1].at /\ bs[k - 1].at \in Nat
        BY <1>1, <1>4, <2>6, <2>8, <3>0, <3>4
      <4>1. CASE j < i
        <5>1. j \in 1 .. n /\ cs[j] = bs[j]
          BY <1>2, <2>6, <2>8, <4>1
        <5> QED
          BY <2>6, <3>0, <4>0, <4>1, <5>1
      <4>2. CASE j = i
        <5>1. End(cs[j]) = b.at + HDR + s /\ End(b) = b.at + HDR + b.size
          BY <1>3, <2>2, <2>8, <4>2
        <5>2. b.at + HDR + s <= b.at + HDR + b.size
          BY <1>2, <1>3
        <5> QED
          BY <1>3, <4>0, <5>1, <5>2, SMTT(30)
      <4>3. CASE j = i + 1
        BY <2>3, <2>8, <4>0, <4>3
      <4>4. CASE j > i + 1
        <5>1. cs[j] = bs[j - 1] /\ j - 1 \in 1 .. n
          BY <2>8, <4>4
        <5> QED
          BY <3>0, <4>0, <5>1
      <4> QED
        BY <2>6, <4>1, <4>2, <4>3, <4>4
    <3> QED
      BY <2>6, <3>1, <3>2, <3>3, <3>4
  <2>11. \A j \in 1 .. n + 1 : End(cs[j]) <= top
    <3> SUFFICES ASSUME NEW j \in 1 .. n + 1 PROVE End(cs[j]) <= top
      OBVIOUS
    <3>0. End(b) <= top /\ End(c) <= End(b) /\ End(c) \in Nat /\ End(b) \in Nat
      BY <1>1, <1>2, <1>3, <1>4, <2>2, <2>6, SMTT(30)
    <3>1. CASE j < i
      <4>1. j \in 1 .. n /\ cs[j] = bs[j]
        BY <1>2, <2>6, <2>8, <3>1
      <4> QED
        BY <1>4, <4>1
    <3>2. CASE j = i
      BY <2>8, <3>0, <3>2
    <3>3. CASE j = i + 1
      BY <2>3, <2>8, <3>0, <3>3
    <3>4. CASE j > i + 1
      BY <1>4, <2>8, <3>4
    <3> QED
      BY <2>6, <3>1, <3>2, <3>3, <3>4
  <2>12. Apart(cs) /\ Below(cs, top)
    BY <2>7, <2>10, <2>11 DEF Apart, Below
  <2>13. UsedBytes(cs) = UsedBytes(bs) + s
    <3>1. i + 1 \in 1 .. Len(bs) + 1
      BY <1>1, <1>2
    <3>2. UsedBytes(ms) = UsedBytes(bs)
      BY <2>1, <2>3, <3>1, UsedInsert
    <3>3. /\ UsedBytes(cs) = (UsedBytes(ms) - Uses(ms[i])) + Uses(cs[i])
          /\ UsedBytes(ms) \in Nat
      <4>1. i \in 1 .. Len(ms) /\ Len(cs) = Len(ms)
        BY <2>4, <2>6, <2>7
      <4>2. \A k \in 1 .. Len(ms) : k # i => Uses(cs[k]) = Uses(ms[k])
        BY <2>4, <2>7
      <4> QED
        BY <2>4, <2>7, <4>1, <4>2, UsedChange
    <3>4. Uses(ms[i]) = 0 /\ Uses(cs[i]) = s
      BY <1>1, <1>2, <2>2, <2>4, <2>6, <2>8
    <3> QED
      BY <3>2, <3>3, <3>4
  <2>14. \A j \in 1 .. Len(cs) : j # i /\ ~cs[j].free => \E k \in 1 .. Len(bs) : k # i /\ cs[j] = bs[k]
    <3> SUFFICES ASSUME NEW j \in 1 .. n + 1, j # i, ~cs[j].free
                 PROVE  \E k \in 1 .. n : k # i /\ cs[j] = bs[k]
      BY <1>1, <2>7
    <3>1. CASE j < i
      BY <1>2, <2>6, <2>8, <3>1
    <3>2. j # i + 1
      BY <2>3, <2>8
    <3>3. CASE j > i + 1
      BY <2>6, <2>8, <3>3
    <3> QED
      BY <2>6, <3>1, <3>2, <3>3
  <2>15. \A k \in 1 .. Len(bs) : ~bs[k].free => \E j \in 1 .. Len(cs) : j # i /\ cs[j] = bs[k]
    <3> SUFFICES ASSUME NEW k \in 1 .. n, ~bs[k].free
                 PROVE  \E j \in 1 .. n + 1 : j # i /\ cs[j] = bs[k]
      BY <1>1, <2>7
    <3>1. CASE k < i
      <4>1. k \in 1 .. n + 1 /\ k # i /\ cs[k] = bs[k]
        BY <1>2, <2>6, <2>8, <3>1
      <4> QED
        BY <4>1
    <3>2. CASE k > i
      <4>1. k + 1 \in 1 .. n + 1 /\ k + 1 > i + 1 /\ (k + 1) - 1 = k
        BY <1>2, <2>6, <3>2
      <4> QED
        BY <2>6, <2>8, <4>1
    <3>3. k # i
      BY <1>1, <1>2
    <3> QED
      BY <2>6, <3>1, <3>2, <3>3
  <2>16. Len(cs) >= Len(bs) /\ cs[i].at = bs[i].at /\ ~cs[i].free /\ cs[i].size = s
    BY <1>1, <1>2, <2>2, <2>7, <2>8
  <2>17. UsedBytes(cs) = UsedBytes(bs) + cs[i].size /\ cs[i].size >= s
    BY <2>13, <2>16
  <2> cs \in Seq(BlockSet)
    BY <2>7
  <2> WITNESS cs \in Seq(BlockSet)
  <2> QED
    BY <2>9, <2>12, <2>14, <2>15, <2>16, <2>17 DEF IsSplit
<1> QED
  BY <1>5, <1>6

(* One step of the pass of heap_free_raw over the list.                    *)
SameUsed(cs, bs) ==
  /\ \A j \in 1 .. Len(cs) : ~cs[j].free => \E k \in 1 .. Len(bs) : cs[j] = bs[k]
  /\ \A k \in 1 .. Len(bs) : ~bs[k].free => \E j \in 1 .. Len(cs) : cs[j] = bs[k]

LEMMA MergeTrue ==
  ASSUME NEW m \in Seq(BlockSet), NEW b \in BlockSet, Apart(m), Below(m, b.at)
  PROVE  \E c \in Seq(BlockSet) :
           /\ c = Merge(m, b) /\ Len(c) > 0 /\ Apart(c) /\ Below(c, End(b))
           /\ \A j \in 1 .. Len(c) : ~c[j].free =>
                \/ ~b.free /\ c[j] = b
                \/ \E k \in 1 .. Len(m) : c[j] = m[k]
           /\ ~b.free => \E j \in 1 .. Len(c) : c[j] = b
           /\ \A k \in 1 .. Len(m) : ~m[k].free => \E j \in 1 .. Len(c) : c[j] = m[k]
           /\ UsedBytes(c) = UsedBytes(m) + Uses(b)
<1>1. PICK n : n = Len(m)
  OBVIOUS
<1>2. n \in Nat /\ b.at \in Nat /\ b.size \in Nat /\ b.at < End(b) /\ End(b) \in Nat
      /\ End(b) = b.at + HDR + b.size /\ HDR \in Nat /\ b.free \in BOOLEAN
  BY <1>1, BlockFacts
<1>3. \A k \in 1 .. n : m[k] \in BlockSet /\ End(m[k]) \in Nat /\ m[k].at \in Nat /\ End(m[k]) <= b.at
  BY <1>1, BlockFacts DEF Below
<1>4. CASE m # <<>> /\ Last(m).free /\ b.free
  <2>1. n \in 1 .. n /\ n > 0 /\ m[n].free
    BY <1>1, <1>4 DEF Last
  <2>2. PICK d \in BlockSet : d = m[n]
    BY <1>3, <2>1
  <2>3. d.at \in Nat /\ d.size \in Nat /\ d.free /\ End(d) = d.at + HDR + d.size /\ End(d) <= b.at
    BY <1>3, <2>1, <2>2, BlockFacts
  <2>4. PICK x, e : x = d.size + HDR + b.size /\ e = [d EXCEPT !.size = x]
    OBVIOUS
  <2>5. x \in Nat
    BY <1>2, <2>3, <2>4
  <2>6. e \in BlockSet /\ e.at = d.at /\ e.size = x /\ e.free
    BY <2>3, <2>4, <2>5 DEF BlockSet
  <2>7. End(e) <= End(b) /\ End(e) \in Nat
    <3>1. End(e) = d.at + HDR + x
      BY <2>6 DEF End
    <3>2. End(e) = End(d) + HDR + b.size /\ End(d) \in Nat
      BY <1>2, <2>3, <2>4, <3>1, SMTT(30)
    <3>3. PICK y, z : y = End(d) /\ z = b.at
      OBVIOUS
    <3>4. y + HDR + b.size <= z + HDR + b.size /\ y + HDR + b.size \in Nat
      BY <1>2, <2>3, <3>2, <3>3, SMTT(30)
    <3> QED
      BY <1>2, <3>2, <3>3, <3>4
  <2>8. PICK c : c = [m EXCEPT ![n] = e]
    OBVIOUS
  <2>9. c = Merge(m, b)
    <3>1. Merge(m, b) = [m EXCEPT ![n].size = @ + HDR + b.size]
      BY <1>1, <1>4 DEF Merge
    <3> QED
      BY <2>2, <2>4, <2>8, <3>1
  <2>10. c \in Seq(BlockSet) /\ Len(c) = n /\ \A k \in 1 .. n : c[k] = IF k = n THEN e ELSE m[k]
    BY <1>1, <2>1, <2>6, <2>8
  <2>11. Apart(c)
    <3> SUFFICES ASSUME NEW i \in 1 .. n, NEW j \in 1 .. n, i < j PROVE End(c[i]) <= c[j].at
      BY <2>10 DEF Apart
    <3>1. i # n /\ c[i] = m[i]
      BY <1>2, <2>10
    <3>2. c[j].at = m[j].at
      BY <2>2, <2>6, <2>10
    <3> QED
      BY <1>1, <3>1, <3>2 DEF Apart
  <2>12. Below(c, End(b))
    <3> SUFFICES ASSUME NEW i \in 1 .. n PROVE End(c[i]) <= End(b)
      BY <2>10 DEF Below
    <3>1. CASE i = n
      BY <2>7, <2>10, <3>1
    <3>2. CASE i # n
      <4>1. c[i] = m[i] /\ End(m[i]) \in Nat /\ End(m[i]) <= b.at
        BY <1>3, <2>10, <3>2
      <4> QED
        BY <1>2, <4>1
    <3> QED
      BY <3>1, <3>2
  <2>13. UsedBytes(c) = UsedBytes(m) + Uses(b)
    <3>1. \A k \in 1 .. Len(m) : k # n => Uses(c[k]) = Uses(m[k])
      BY <1>1, <2>10
    <3>2. /\ UsedBytes(c) = (UsedBytes(m) - Uses(m[n])) + Uses(c[n])
          /\ UsedBytes(m) \in Nat
      BY <1>1, <2>1, <2>10, <3>1, UsedChange
    <3>3. Uses(m[n]) = 0 /\ Uses(c[n]) = 0 /\ Uses(b) = 0
      BY <1>4, <2>1, <2>6, <2>10 DEF Uses
    <3> QED
      BY <3>2, <3>3
  <2>14. \A j \in 1 .. Len(c) : ~c[j].free =>
           \/ ~b.free /\ c[j] = b
           \/ \E k \in 1 .. Len(m) : c[j] = m[k]
    BY <1>1, <2>6, <2>10
  <2>15. \A k \in 1 .. Len(m) : ~m[k].free => \E j \in 1 .. Len(c) : c[j] = m[k]
    BY <1>1, <2>1, <2>10
  <2>16. Len(c) > 0 /\ b.free
    BY <1>4, <2>1, <2>10
  <2> c \in Seq(BlockSet)
    BY <2>10
  <2> WITNESS c \in Seq(BlockSet)
  <2> QED
    BY <2>9, <2>11, <2>12, <2>13, <2>14, <2>15, <2>16
<1>5. CASE ~(m # <<>> /\ Last(m).free /\ b.free)
  <2>1. PICK c : c = Append(m, b)
    OBVIOUS
  <2>2. c = Merge(m, b)
    BY <1>5, <2>1 DEF Merge
  <2>3. /\ c \in Seq(BlockSet) /\ Len(c) = n + 1 /\ c[n + 1] = b
        /\ \A k \in 1 .. n : c[k] = m[k]
    BY <1>1, <2>1, AppendProperties
  <2>4. Apart(c)
    <3> SUFFICES ASSUME NEW i \in 1 .. n + 1, NEW j \in 1 .. n + 1, i < j PROVE End(c[i]) <= c[j].at
      BY <2>3 DEF Apart
    <3>1. i \in 1 .. n /\ c[i] = m[i]
      BY <1>2, <2>3
    <3>2. CASE j \in 1 .. n
      BY <1>1, <2>3, <3>1, <3>2 DEF Apart
    <3>3. CASE j = n + 1
      BY <1>3, <2>3, <3>1, <3>3
    <3> QED
      BY <1>2, <3>2, <3>3
  <2>5. Below(c, End(b))
    <3> SUFFICES ASSUME NEW i \in 1 .. n + 1 PROVE End(c[i]) <= End(b)
      BY <2>3 DEF Below
    <3>1. CASE i \in 1 .. n
      <4>1. c[i] = m[i] /\ End(m[i]) \in Nat /\ End(m[i]) <= b.at
        BY <1>3, <2>3, <3>1
      <4> QED
        BY <1>2, <4>1
    <3>2. CASE i = n + 1
      BY <1>2, <2>3, <3>2
    <3> QED
      BY <1>2, <3>1, <3>2
  <2>6. UsedBytes(c) = UsedBytes(m) + Uses(b)
    BY <2>1, UsedAppend
  <2>7. \A j \in 1 .. Len(c) : ~c[j].free =>
           \/ ~b.free /\ c[j] = b
           \/ \E k \in 1 .. Len(m) : c[j] = m[k]
    <3> SUFFICES ASSUME NEW j \in 1 .. n + 1, ~c[j].free
                 PROVE  (~b.free /\ c[j] = b) \/ \E k \in 1 .. n : c[j] = m[k]
      BY <1>1, <2>3
    <3>1. CASE j \in 1 .. n
      BY <2>3, <3>1
    <3>2. CASE j = n + 1
      BY <2>3, <3>2
    <3> QED
      BY <1>2, <3>1, <3>2
  <2>8. n + 1 \in 1 .. Len(c) /\ Len(c) > 0
    BY <1>2, <2>3
  <2>9. ~b.free => \E j \in 1 .. Len(c) : c[j] = b
    BY <2>3, <2>8
  <2>10. \A k \in 1 .. Len(m) : ~m[k].free => \E j \in 1 .. Len(c) : c[j] = m[k]
    <3> SUFFICES ASSUME NEW k \in 1 .. n PROVE \E j \in 1 .. Len(c) : c[j] = m[k]
      BY <1>1
    <3>1. k \in 1 .. Len(c) /\ c[k] = m[k]
      BY <1>2, <2>3
    <3> QED
      BY <3>1
  <2> c \in Seq(BlockSet)
    BY <2>3
  <2> WITNESS c \in Seq(BlockSet)
  <2> QED
    BY <2>2, <2>4, <2>5, <2>6, <2>7, <2>8, <2>9, <2>10
<1> QED
  BY <1>4, <1>5

(* The whole pass: free neighbours become one, and no used block changes.  *)
LEMMA MergedTrue ==
  ASSUME NEW bs \in Seq(BlockSet), Apart(bs), Len(bs) > 0, NEW top \in Nat, Below(bs, top)
  PROVE  \E cs \in Seq(BlockSet) :
           /\ cs = FoldLeft(Merge, <<>>, bs)
           /\ Len(cs) > 0 /\ Apart(cs) /\ Below(cs, top) /\ SameUsed(cs, bs)
           /\ UsedBytes(cs) = UsedBytes(bs)
<1>1. PICK n : n = Len(bs)
  OBVIOUS
<1>2. n \in Nat /\ n > 0 /\ \A k \in 1 .. n : bs[k] \in BlockSet
  BY <1>1
<1>3. PICK f \in [0 .. n -> Seq(BlockSet)] :
        /\ f[0] = <<>>
        /\ \A k \in 1 .. n : f[k] = Merge(f[k - 1], bs[k])
        /\ FoldLeft(Merge, <<>>, bs) = f[n]
  BY <1>1, MergeSteps
<1>4. PICK g \in [0 .. n -> Nat] : CountsUp(g, bs) /\ UsedBytes(bs) = g[n]
  BY <1>1, UsedPrefixes
<1>5. g[0] = 0 /\ \A k \in 1 .. n : g[k] = g[k - 1] + Uses(bs[k])
  BY <1>1, <1>4 DEF CountsUp
<1> DEFINE Begun(k, m) == /\ k > 0 => Len(m) > 0 /\ Below(m, End(bs[k]))
                          /\ Apart(m)
                          /\ \A j \in 1 .. Len(m) : ~m[j].free => \E i \in 1 .. k : m[j] = bs[i]
                          /\ \A i \in 1 .. k : ~bs[i].free => \E j \in 1 .. Len(m) : m[j] = bs[i]
                          /\ UsedBytes(m) = g[k]
           T == {k \in Nat : k <= n => Begun(k, f[k])}
<1>6. 0 \in T
  <2>1. UsedBytes(<<>>) = 0
    <3>1. \A e \in Seq(BlockSet) : Len(e) = 0 => UsedBytes(e) = 0
      <4> SUFFICES ASSUME NEW e \in Seq(BlockSet), Len(e) = 0 PROVE UsedBytes(e) = 0
        OBVIOUS
      <4>1. PICK h \in [0 .. Len(e) -> Nat] : CountsUp(h, e) /\ UsedBytes(e) = h[Len(e)]
        BY UsedPrefixes
      <4> QED
        BY <4>1 DEF CountsUp
    <3>2. <<>> \in Seq(BlockSet) /\ Len(<<>>) = 0
      OBVIOUS
    <3> QED
      BY <3>1, <3>2, Zenon
  <2>2. Begun(0, <<>>)
    BY <1>5, <2>1 DEF Apart
  <2> QED
    BY <1>3, <2>2
<1>7. ASSUME NEW k \in Nat, k \in T PROVE k + 1 \in T
  <2> SUFFICES ASSUME k + 1 <= n PROVE Begun(k + 1, f[k + 1])
    OBVIOUS
  <2>1. PICK m, b : m = f[k] /\ b = bs[k + 1]
    OBVIOUS
  <2>2. k + 1 \in 1 .. n /\ k \in 0 .. n /\ (k + 1) - 1 = k /\ b \in BlockSet /\ m \in Seq(BlockSet)
    BY <1>2, <1>3, <2>1
  <2>3. Begun(k, m)
    BY <1>2, <1>7, <2>1
  <2>4. f[k + 1] = Merge(m, b) /\ g[k + 1] = g[k] + Uses(b)
    BY <1>3, <1>5, <2>1, <2>2
  <2>5. Below(m, b.at)
    <3>1. CASE k = 0
      <4>1. Len(m) = 0
        BY <1>3, <2>1, <3>1
      <4> QED
        BY <4>1 DEF Below
    <3>2. CASE k > 0
      <4>1. k \in 1 .. n /\ End(bs[k]) <= b.at
        BY <1>1, <2>1, <2>2, <3>2 DEF Apart
      <4>2. End(bs[k]) \in Nat /\ b.at \in Nat /\ \A i \in 1 .. Len(m) : End(m[i]) \in Nat
        <5>1. bs[k] \in BlockSet /\ \A i \in 1 .. Len(m) : m[i] \in BlockSet
          BY <1>2, <2>2, <4>1
        <5> QED
          BY <2>2, <5>1, BlockFacts
      <4>3. \A i \in 1 .. Len(m) : End(m[i]) <= End(bs[k])
        BY <2>3, <3>2 DEF Below
      <4> QED
        BY <4>1, <4>2, <4>3 DEF Below
    <3> QED
      BY <3>1, <3>2
  <2>6. PICK c \in Seq(BlockSet) :
          /\ c = Merge(m, b) /\ Len(c) > 0 /\ Apart(c) /\ Below(c, End(b))
          /\ \A j \in 1 .. Len(c) : ~c[j].free =>
               \/ ~b.free /\ c[j] = b
               \/ \E i \in 1 .. Len(m) : c[j] = m[i]
          /\ ~b.free => \E j \in 1 .. Len(c) : c[j] = b
          /\ \A i \in 1 .. Len(m) : ~m[i].free => \E j \in 1 .. Len(c) : c[j] = m[i]
          /\ UsedBytes(c) = UsedBytes(m) + Uses(b)
    BY <2>2, <2>3, <2>5, MergeTrue
  <2>7. \A j \in 1 .. Len(c) : ~c[j].free => \E i \in 1 .. k + 1 : c[j] = bs[i]
    <3> SUFFICES ASSUME NEW j \in 1 .. Len(c), ~c[j].free PROVE \E i \in 1 .. k + 1 : c[j] = bs[i]
      OBVIOUS
    <3>1. CASE c[j] = b
      BY <2>1, <2>2, <3>1
    <3>2. CASE \E i \in 1 .. Len(m) : c[j] = m[i]
      <4>1. PICK i \in 1 .. Len(m) : c[j] = m[i]
        BY <3>2
      <4>2. PICK q \in 1 .. k : m[i] = bs[q]
        BY <2>3, <4>1
      <4>3. q \in 1 .. k + 1
        BY <2>2
      <4> QED
        BY <4>1, <4>2, <4>3
    <3> QED
      BY <2>6, <3>1, <3>2
  <2>8. \A i \in 1 .. k + 1 : ~bs[i].free => \E j \in 1 .. Len(c) : c[j] = bs[i]
    <3> SUFFICES ASSUME NEW i \in 1 .. k + 1, ~bs[i].free PROVE \E j \in 1 .. Len(c) : c[j] = bs[i]
      OBVIOUS
    <3>1. CASE i = k + 1
      BY <2>1, <2>6, <3>1
    <3>2. CASE i \in 1 .. k
      <4>1. PICK j \in 1 .. Len(m) : m[j] = bs[i]
        BY <2>3, <3>2
      <4>2. ~m[j].free
        BY <4>1
      <4> QED
        BY <2>6, <4>1, <4>2
    <3> QED
      BY <2>2, <3>1, <3>2
  <2>9. UsedBytes(c) = g[k + 1]
    BY <2>3, <2>4, <2>6
  <2> QED
    BY <2>1, <2>4, <2>6, <2>7, <2>8, <2>9
<1> HIDE DEF T
<1>8. n \in T
  BY <1>2, <1>6, <1>7, Induction
<1>9. Begun(n, f[n])
  BY <1>2, <1>8 DEF T
<1>10. f[n] \in Seq(BlockSet)
  BY <1>2, <1>3
<1>11. PICK cs \in Seq(BlockSet) : cs = f[n]
  BY <1>10
<1>12. Begun(n, cs)
  BY <1>9, <1>11
<1>13. Below(cs, top)
  <2>1. End(bs[n]) <= top /\ End(bs[n]) \in Nat
    BY <1>1, <1>2, BlockFacts DEF Below
  <2>2. \A i \in 1 .. Len(cs) : End(cs[i]) \in Nat /\ End(cs[i]) <= End(bs[n])
    BY <1>2, <1>12, BlockFacts, SMTT(30) DEF Below
  <2> QED
    BY <2>1, <2>2 DEF Below
<1>14. SameUsed(cs, bs)
  BY <1>1, <1>12 DEF SameUsed
<1>15. Len(cs) > 0 /\ Apart(cs) /\ UsedBytes(cs) = UsedBytes(bs)
  BY <1>2, <1>4, <1>12
<1>16. cs = FoldLeft(Merge, <<>>, bs)
  BY <1>3, <1>11
<1> WITNESS cs \in Seq(BlockSet)
<1> QED
  BY <1>13, <1>14, <1>15, <1>16

(* The list is one of blocks apart from each other below heap_brk, which   *)
(* is at the end of a page, and used_bytes counts those in use.            *)
Shape(h) ==
  /\ h \in [blocks : Seq(BlockSet), brk : Nat, used : Nat]
  /\ Len(h.blocks) > 0 /\ Apart(h.blocks) /\ Below(h.blocks, h.brk)
  /\ h.used = UsedBytes(h.blocks)
  /\ \E p \in FirstPages .. MaxPages : h.brk = p * PAGE

(* What callers hold are the blocks in use, each of one caller and as      *)
(* large as it asked for.                                                  *)
HeldIn(bs, L) ==
  /\ L \subseteq [at : Nat, want : Requests]
  /\ \A l \in L : \E i \in 1 .. Len(bs) : bs[i].at = l.at /\ ~bs[i].free /\ bs[i].size >= l.want
  /\ \A i \in 1 .. Len(bs) : ~bs[i].free => \E l \in L : l.at = bs[i].at
  /\ \A l, m \in L : l.at = m.at => l = m

LEMMA TakeTrue ==
  ASSUME NEW h, Shape(h), NEW L, HeldIn(h.blocks, L), NEW s \in Requests, Fits(h.blocks, s) # {}
  PROVE  \E r : /\ r = Take(h, s) /\ Shape(r.heap) /\ r.at \in Nat
                /\ \A l \in L : l.at # r.at
                /\ HeldIn(r.heap.blocks, L \cup {[at |-> r.at, want |-> s]})
<1>1. PICK bs \in Seq(BlockSet) : bs = h.blocks
  BY DEF Shape
<1>2. PICK top \in Nat : top = h.brk
  BY DEF Shape
<1>3. PICK n \in Nat : n = Len(bs)
  OBVIOUS
<1>4. s \in Nat
  BY KHeapAssumption
<1>5. PICK i : i = Min(Fits(bs, s))
  OBVIOUS
<1>6. i \in 1 .. n /\ bs[i].free /\ bs[i].size >= s
  <2>1. Fits(bs, s) \subseteq 1 .. n /\ Fits(bs, s) # {}
    BY <1>1, <1>3 DEF Fits
  <2>2. 1 .. n \subseteq Nat
    OBVIOUS
  <2>3. i \in Fits(bs, s)
    BY <1>5, <2>1, <2>2, MinFacts
  <2> QED
    BY <2>1, <2>3 DEF Fits
<1>7. Apart(bs) /\ Below(bs, top) /\ h.used = UsedBytes(bs) /\ h.used \in Nat
  BY <1>1, <1>2 DEF Shape
<1>7a. \E cs \in Seq(BlockSet) : IsSplit(cs, bs, i, s, top)
  BY <1>3, <1>4, <1>6, <1>7, SplitTrue
<1>8. PICK cs \in Seq(BlockSet) :
           /\ cs = [Split(bs, i, s) EXCEPT ![i].free = FALSE]
           /\ Len(cs) >= Len(bs) /\ Apart(cs) /\ Below(cs, top)
           /\ cs[i].at = bs[i].at /\ ~cs[i].free /\ cs[i].size >= s
           /\ \A j \in 1 .. Len(cs) : j # i /\ ~cs[j].free =>
                \E k \in 1 .. Len(bs) : k # i /\ cs[j] = bs[k]
           /\ \A k \in 1 .. Len(bs) : ~bs[k].free => \E j \in 1 .. Len(cs) : j # i /\ cs[j] = bs[k]
           /\ UsedBytes(cs) = UsedBytes(bs) + cs[i].size
  BY <1>7a DEF IsSplit
<1>9. PICK r, g : g = [h EXCEPT !.blocks = cs, !.used = @ + cs[i].size] /\ r = [at |-> cs[i].at, heap |-> g]
  OBVIOUS
<1>10. r = Take(h, s)
  BY <1>1, <1>5, <1>8, <1>9 DEF Take
<1>11. i \in 1 .. Len(cs) /\ cs[i] \in BlockSet /\ Len(cs) > 0
  <2>1. Len(cs) \in Nat /\ Len(cs) >= n
    BY <1>3, <1>8
  <2>2. i \in 1 .. Len(cs)
    BY <1>6, <2>1
  <2> QED
    BY <2>2
<1>12. cs[i].size \in Nat /\ cs[i].at \in Nat
  BY <1>11 DEF BlockSet
<1>13. g.blocks = cs /\ g.brk = h.brk /\ g.used = h.used + cs[i].size
       /\ g \in [blocks : Seq(BlockSet), brk : Nat, used : Nat]
  <2>1. PICK u \in Nat : u = h.used + cs[i].size
    BY <1>7, <1>12
  <2>2. g = [h EXCEPT !.blocks = cs, !.used = u]
    BY <1>9, <2>1
  <2> QED
    BY <2>1, <2>2 DEF Shape
<1>14. Shape(r.heap)
  <2>1. Shape(g)
    BY <1>2, <1>7, <1>8, <1>11, <1>13 DEF Shape
  <2> QED
    BY <1>9, <2>1
<1>15. r.at = bs[i].at /\ r.heap.blocks = cs /\ r.at \in Nat
  BY <1>8, <1>9, <1>12, <1>13
<1>16. ASSUME NEW l \in L PROVE l.at # r.at
  <2>1. PICK k \in 1 .. n : bs[k].at = l.at /\ ~bs[k].free
    BY <1>1, <1>3 DEF HeldIn
  <2>2. k # i
    BY <1>6, <2>1
  <2> QED
    BY <1>3, <1>6, <1>7, <1>15, <2>1, <2>2, PlacesApart
<1>17. PICK a, M : a = [at |-> r.at, want |-> s] /\ M = L \cup {a}
  OBVIOUS
<1>18. HeldIn(cs, M)
  <2>1. M \subseteq [at : Nat, want : Requests]
    BY <1>15, <1>17 DEF HeldIn
  <2>2. ASSUME NEW l \in M
        PROVE  \E j \in 1 .. Len(cs) : cs[j].at = l.at /\ ~cs[j].free /\ cs[j].size >= l.want
    <3>1. CASE l = a
      BY <1>8, <1>11, <1>15, <1>17, <3>1
    <3>2. CASE l \in L
      <4>1. PICK k \in 1 .. n : bs[k].at = l.at /\ ~bs[k].free /\ bs[k].size >= l.want
        BY <1>1, <1>3, <3>2 DEF HeldIn
      <4>2. PICK j \in 1 .. Len(cs) : cs[j] = bs[k]
        BY <1>3, <1>8, <4>1
      <4> QED
        BY <4>1, <4>2
    <3> QED
      BY <1>17, <3>1, <3>2
  <2>3. ASSUME NEW j \in 1 .. Len(cs), ~cs[j].free PROVE \E l \in M : l.at = cs[j].at
    <3>1. CASE j = i
      BY <1>8, <1>15, <1>17, <3>1
    <3>2. CASE j # i
      <4>1. PICK k \in 1 .. n : cs[j] = bs[k]
        BY <1>3, <1>8, <2>3, <3>2
      <4>2. PICK l \in L : l.at = bs[k].at
        BY <1>1, <1>3, <2>3, <4>1 DEF HeldIn
      <4> QED
        BY <1>17, <4>1, <4>2
    <3> QED
      BY <3>1, <3>2
  <2>4. \A l, m \in M : l.at = m.at => l = m
    BY <1>16, <1>17 DEF HeldIn
  <2> QED
    BY <2>1, <2>2, <2>3, <2>4 DEF HeldIn
<1> QED
  BY <1>10, <1>14, <1>15, <1>16, <1>17, <1>18

LEMMA FreeTrue ==
  ASSUME NEW h, Shape(h), NEW L, HeldIn(h.blocks, L), NEW l \in L
  PROVE  Shape(Free(h, l.at)) /\ HeldIn(Free(h, l.at).blocks, L \ {l})
<1>1. PICK bs \in Seq(BlockSet) : bs = h.blocks
  BY DEF Shape
<1>2. PICK top \in Nat : top = h.brk
  BY DEF Shape
<1>3. PICK n \in Nat : n = Len(bs)
  OBVIOUS
<1>4. Apart(bs) /\ Below(bs, top) /\ h.used = UsedBytes(bs) /\ n > 0
  BY <1>1, <1>2, <1>3 DEF Shape
<1>5. PICK i \in 1 .. n : bs[i].at = l.at /\ ~bs[i].free
  BY <1>1, <1>3 DEF HeldIn
<1>6. (CHOOSE k \in DOMAIN bs : bs[k].at = l.at) = i
  <2>1. \A k \in DOMAIN bs : bs[k].at = l.at => k = i
    BY <1>3, <1>4, <1>5, PlacesApart
  <2>2. i \in DOMAIN bs
    BY <1>3
  <2> QED
    BY <1>5, <2>1, <2>2
<1>7. PICK b \in BlockSet : b = bs[i]
  BY <1>3
<1>8. PICK e : e = [b EXCEPT !.free = TRUE]
  OBVIOUS
<1>9. e \in BlockSet /\ e.at = b.at /\ e.size = b.size /\ e.free /\ Uses(e) = 0 /\ End(e) = End(b)
      /\ Uses(b) = b.size /\ b.size \in Nat
  BY <1>5, <1>7, <1>8 DEF BlockSet, Uses, End
<1>10. PICK ms : ms = [bs EXCEPT ![i] = e]
  OBVIOUS
<1>11. /\ ms \in Seq(BlockSet) /\ Len(ms) = n
       /\ \A k \in 1 .. n : ms[k] = IF k = i THEN e ELSE bs[k]
  BY <1>3, <1>9, <1>10
<1>12. Apart(ms) /\ Below(ms, top)
  BY <1>3, <1>4, <1>7, <1>9, <1>11 DEF Apart, Below
<1>13. /\ UsedBytes(ms) = UsedBytes(bs) - b.size /\ UsedBytes(bs) \in Nat
  <2>1. \A k \in 1 .. Len(bs) : k # i => Uses(ms[k]) = Uses(bs[k])
    BY <1>3, <1>11
  <2>2. /\ UsedBytes(ms) = (UsedBytes(bs) - Uses(bs[i])) + Uses(ms[i])
        /\ UsedBytes(bs) \in Nat
    BY <1>3, <1>11, <2>1, UsedChange
  <2>3. Uses(bs[i]) = b.size /\ Uses(ms[i]) = 0
    BY <1>7, <1>9, <1>11
  <2> QED
    BY <1>9, <2>2, <2>3
<1>14. PICK cs \in Seq(BlockSet) :
           /\ cs = FoldLeft(Merge, <<>>, ms)
           /\ Len(cs) > 0 /\ Apart(cs) /\ Below(cs, top) /\ SameUsed(cs, ms)
           /\ UsedBytes(cs) = UsedBytes(ms)
  BY <1>4, <1>11, <1>12, MergedTrue
<1>15. PICK g : g = [h EXCEPT !.blocks = cs, !.used = @ - b.size]
  OBVIOUS
<1>16. Free(h, l.at) = g
  <2>1. [bs EXCEPT ![i].free = TRUE] = ms
    BY <1>7, <1>8, <1>10
  <2> QED
    BY <1>1, <1>6, <1>7, <1>14, <1>15, <2>1 DEF Free
<1>17. UsedBytes(ms) \in Nat
  <2>1. PICK f \in [0 .. Len(ms) -> Nat] : CountsUp(f, ms) /\ UsedBytes(ms) = f[Len(ms)]
    BY <1>11, UsedPrefixes
  <2> QED
    BY <1>11, <2>1
<1>18. g.blocks = cs /\ g.brk = h.brk /\ g.used = UsedBytes(cs)
       /\ g \in [blocks : Seq(BlockSet), brk : Nat, used : Nat]
  <2>1. PICK u \in Nat : u = h.used - b.size /\ u = UsedBytes(cs)
    BY <1>4, <1>13, <1>14, <1>17
  <2>2. g = [h EXCEPT !.blocks = cs, !.used = u]
    BY <1>15, <2>1
  <2> QED
    BY <2>1, <2>2 DEF Shape
<1>19. Shape(g)
  BY <1>2, <1>14, <1>18 DEF Shape
<1>20. HeldIn(cs, L \ {l})
  <2>1. \A k \in 1 .. n : bs[k].at = l.at => k = i
    BY <1>3, <1>4, <1>5, PlacesApart
  <2>2. ASSUME NEW m \in L \ {l}
        PROVE  \E j \in 1 .. Len(cs) : cs[j].at = m.at /\ ~cs[j].free /\ cs[j].size >= m.want
    <3>1. PICK k \in 1 .. n : bs[k].at = m.at /\ ~bs[k].free /\ bs[k].size >= m.want
      BY <1>1, <1>3 DEF HeldIn
    <3>2. m.at # l.at
      BY <2>2 DEF HeldIn
    <3>3. ms[k] = bs[k]
      BY <1>5, <1>11, <3>1, <3>2
    <3>4. PICK j \in 1 .. Len(cs) : cs[j] = ms[k]
      BY <1>11, <1>14, <3>1, <3>3 DEF SameUsed
    <3> QED
      BY <3>1, <3>3, <3>4
  <2>3. ASSUME NEW j \in 1 .. Len(cs), ~cs[j].free PROVE \E m \in L \ {l} : m.at = cs[j].at
    <3>1. PICK k \in 1 .. n : cs[j] = ms[k]
      BY <1>11, <1>14, <2>3 DEF SameUsed
    <3>2. k # i /\ ms[k] = bs[k]
      BY <1>9, <1>11, <2>3, <3>1
    <3>3. PICK m \in L : m.at = bs[k].at
      BY <1>1, <1>3, <2>3, <3>1, <3>2 DEF HeldIn
    <3>4. m # l
      BY <2>1, <3>2, <3>3
    <3> QED
      BY <3>1, <3>2, <3>3, <3>4
  <2> QED
    BY <2>2, <2>3 DEF HeldIn
<1> QED
  BY <1>16, <1>18, <1>19, <1>20

(* heap_grow: the pages it asks for hold the header and what was asked for.*)
LEMMA PagesEnough ==
  ASSUME NEW s \in Nat
  PROVE  PagesFor(s) \in Nat /\ PagesFor(s) * PAGE >= HDR + s /\ PagesFor(s) * PAGE \in Nat
<1>0. HDR \in Nat /\ HDR > 0 /\ PAGE \in Nat /\ PAGE > HDR
  BY KHeapAssumption
<1>1. PICK x : x = Max({HDR + s, PAGE})
  OBVIOUS
<1>2. x \in Nat /\ x >= HDR + s /\ x >= PAGE
  <2>1. PICK n \in Nat : n = HDR + s + PAGE
    BY <1>0
  <2>2. {HDR + s, PAGE} \in SUBSET (1 .. n) /\ {HDR + s, PAGE} # {}
    BY <1>0, <2>1
  <2>3. x \in {HDR + s, PAGE} /\ \A y \in {HDR + s, PAGE} : x >= y
    BY <1>1, <2>2, MaxFacts
  <2> QED
    BY <1>0, <2>3
<1>3. PICK c \in Nat : c = x + PAGE - 1
  BY <1>0, <1>2
<1>4. PICK q \in Int : q = c \div PAGE
  BY <1>0, <1>3
<1>5. c = PAGE * q + (c % PAGE) /\ c % PAGE \in 0 .. PAGE - 1
  <2>1. PICK z \in Nat \ {0} : z = PAGE
    BY <1>0
  <2>2. c = z * (c \div z) + (c % z)
    OBVIOUS
  <2>3. c % z \in 0 .. z - 1
    OBVIOUS
  <2> QED
    BY <1>4, <2>1, <2>2, <2>3
<1>6. PICK k \in Int : k = PAGE * q
  BY <1>0, <1>4
<1>7. k >= x
  BY <1>0, <1>2, <1>3, <1>5, <1>6
<1>8. q >= 0
  BY <1>0, <1>2, <1>4, <1>6, <1>7, SMTT(30)
<1>9. PagesFor(s) = q
  BY <1>1, <1>3, <1>4 DEF PagesFor
<1>10. q * PAGE = k
  BY <1>0, <1>4, <1>6
<1> QED
  BY <1>0, <1>2, <1>6, <1>7, <1>8, <1>9, <1>10

LEMMA PagesUsed ==
  ASSUME NEW p \in Nat
  PROVE  (p * PAGE) \div PAGE = p
<1>0. PAGE \in Nat \ {0}
  BY KHeapAssumption
<1>1. PICK c \in Nat : c = p * PAGE
  BY <1>0
<1>2. PICK d \in Int : d = c \div PAGE
  BY <1>0, <1>1
<1>3. c = PAGE * d + (c % PAGE) /\ c % PAGE \in 0 .. PAGE - 1
  BY <1>0, <1>1, <1>2
<1>4. PAGE * (p - d) = c % PAGE
  BY <1>0, <1>1, <1>2, <1>3
<1>5. p - d < 1
  BY <1>0, <1>2, <1>3, <1>4, SMTT(30)
<1>6. p - d > -1
  BY <1>0, <1>2, <1>3, <1>4, SMTT(30)
<1> QED
  BY <1>1, <1>2, <1>5, <1>6

LEMMA GrownTrue ==
  ASSUME NEW h, Shape(h), NEW L, HeldIn(h.blocks, L), NEW s \in Nat,
         NEW got \in 0 .. Min({PagesFor(s), MaxPages - h.brk \div PAGE})
  PROVE  /\ Shape(Grown(h, s, got)) /\ HeldIn(Grown(h, s, got).blocks, L)
         /\ got = PagesFor(s) => Fits(Grown(h, s, got).blocks, s) # {}
<1>0. HDR \in Nat /\ HDR > 0 /\ PAGE \in Nat /\ PAGE > HDR /\ FirstPages \in Nat /\ MaxPages \in Nat
  BY KHeapAssumption
<1>1. PICK bs \in Seq(BlockSet), top \in Nat : bs = h.blocks /\ top = h.brk
  BY DEF Shape
<1>2. PICK n \in Nat : n = Len(bs)
  OBVIOUS
<1>3. Apart(bs) /\ Below(bs, top) /\ h.used = UsedBytes(bs) /\ n > 0 /\ h.used \in Nat
  BY <1>1, <1>2 DEF Shape
<1>4. PICK p \in FirstPages .. MaxPages : top = p * PAGE
  BY <1>1 DEF Shape
<1>5. p \in Nat /\ p <= MaxPages
  BY <1>0
<1>6. got \in Nat /\ got <= MaxPages - p
  <2>1. h.brk \div PAGE = p
    BY <1>1, <1>4, <1>5, PagesUsed
  <2>2. PICK a, b : a = PagesFor(s) /\ b = MaxPages - p
    OBVIOUS
  <2>3. a \in Nat /\ b \in Nat
    BY <1>0, <1>5, <2>2, PagesEnough
  <2>4. {a, b} \subseteq Nat /\ {a, b} # {}
    BY <2>3
  <2>5. Min({a, b}) \in {a, b} /\ \A x \in {a, b} : Min({a, b}) <= x
    BY <2>4, MinFacts
  <2>6. got \in 0 .. Min({a, b})
    BY <2>1, <2>2
  <2> QED
    BY <2>2, <2>3, <2>5, <2>6
<1>7. PICK more \in Nat : more = got * PAGE
  BY <1>0, <1>6
<1>8. top + more \in Nat /\ top + more = (p + got) * PAGE /\ p + got \in FirstPages .. MaxPages
  <2>1. (p + got) * PAGE = p * PAGE + got * PAGE
    BY <1>0, <1>5, <1>6
  <2>2. p + got \in FirstPages .. MaxPages
    BY <1>0, <1>5, <1>6
  <2> QED
    BY <1>4, <1>7, <2>1, <2>2
<1>9. PICK cs : cs = IF got = PagesFor(s) THEN Append(bs, Block(top, more - HDR)) ELSE bs
  OBVIOUS
<1>10. PICK g : g = [h EXCEPT !.brk = top + more, !.blocks = cs]
  OBVIOUS
<1>11. Grown(h, s, got) = g
  BY <1>1, <1>7, <1>9, <1>10 DEF Grown
<1>12. ASSUME cs \in Seq(BlockSet), Len(cs) > 0, Apart(cs), Below(cs, top + more), UsedBytes(cs) = UsedBytes(bs)
       PROVE  Shape(g) /\ g.blocks = cs
  <2>1. /\ g \in [blocks : Seq(BlockSet), brk : Nat, used : Nat]
        /\ g.blocks = cs /\ g.brk = top + more /\ g.used = h.used
    BY <1>8, <1>10, <1>12 DEF Shape
  <2> QED
    BY <1>3, <1>8, <1>12, <2>1 DEF Shape
<1>13. \A i \in 1 .. n : End(bs[i]) \in Nat /\ End(bs[i]) <= top
  BY <1>2, <1>3, BlockFacts DEF Below
<1>14. CASE got # PagesFor(s)
  <2>1. cs = bs
    BY <1>9, <1>14
  <2>2. Below(bs, top + more)
    BY <1>2, <1>13 DEF Below
  <2>3. Shape(g) /\ g.blocks = bs
    BY <1>2, <1>3, <1>12, <2>1, <2>2
  <2> QED
    BY <1>1, <1>11, <1>14, <2>3
<1>15. CASE got = PagesFor(s)
  <2>1. more >= HDR + s
    BY <1>7, <1>15, PagesEnough
  <2>0. PICK y \in Nat : y = more - HDR
    BY <1>0, <2>1
  <2>2. PICK b : b = Block(top, y)
    OBVIOUS
  <2>3. b \in BlockSet /\ b.at = top /\ b.size = y /\ b.free /\ Uses(b) = 0 /\ End(b) = top + HDR + y
    BY <2>2 DEF Block, BlockSet, Uses, End
  <2>4. End(b) = top + more /\ y >= s
    BY <1>0, <2>0, <2>1, <2>3
  <2>5. cs = Append(bs, b)
    BY <1>9, <1>15, <2>0, <2>2
  <2>6. /\ cs \in Seq(BlockSet) /\ Len(cs) = n + 1 /\ cs[n + 1] = b
        /\ \A k \in 1 .. n : cs[k] = bs[k]
    BY <1>2, <2>3, <2>5, AppendProperties
  <2>7. Apart(cs)
    <3> SUFFICES ASSUME NEW i \in 1 .. n + 1, NEW j \in 1 .. n + 1, i < j PROVE End(cs[i]) <= cs[j].at
      BY <2>6 DEF Apart
    <3>1. i \in 1 .. n /\ cs[i] = bs[i]
      BY <2>6
    <3>2. CASE j \in 1 .. n
      BY <1>2, <1>3, <2>6, <3>1, <3>2 DEF Apart
    <3>3. CASE j = n + 1
      BY <1>13, <2>3, <2>6, <3>1, <3>3
    <3> QED
      BY <3>2, <3>3
  <2>8. Below(cs, top + more)
    <3> SUFFICES ASSUME NEW i \in 1 .. n + 1 PROVE End(cs[i]) <= top + more
      BY <2>6 DEF Below
    <3>1. CASE i \in 1 .. n
      <4>1. cs[i] = bs[i] /\ End(bs[i]) \in Nat /\ End(bs[i]) <= top
        BY <1>13, <2>6, <3>1
      <4> QED
        BY <4>1
    <3>2. CASE i = n + 1
      BY <1>8, <2>4, <2>6, <3>2
    <3> QED
      BY <3>1, <3>2
  <2>9. UsedBytes(cs) = UsedBytes(bs)
    <3>1. UsedBytes(cs) = UsedBytes(bs) + Uses(b)
      BY <2>3, <2>5, UsedAppend
    <3> QED
      BY <1>3, <2>3, <3>1
  <2>10. Shape(g) /\ g.blocks = cs
    BY <1>12, <2>6, <2>7, <2>8, <2>9
  <2>11. HeldIn(cs, L)
    <3>1. HeldIn(bs, L)
      BY <1>1
    <3>2. ASSUME NEW l \in L
          PROVE  \E i \in 1 .. Len(cs) : cs[i].at = l.at /\ ~cs[i].free /\ cs[i].size >= l.want
      <4>1. PICK i \in 1 .. n : bs[i].at = l.at /\ ~bs[i].free /\ bs[i].size >= l.want
        BY <1>2, <3>1 DEF HeldIn
      <4>2. i \in 1 .. Len(cs) /\ cs[i] = bs[i]
        BY <2>6
      <4> QED
        BY <4>1, <4>2
    <3>3. ASSUME NEW i \in 1 .. Len(cs), ~cs[i].free PROVE \E l \in L : l.at = cs[i].at
      <4>1. i \in 1 .. n /\ cs[i] = bs[i]
        BY <2>3, <2>6, <3>3
      <4> QED
        BY <1>2, <3>1, <3>3, <4>1 DEF HeldIn
    <3> QED
      BY <3>1, <3>2, <3>3 DEF HeldIn
  <2>12. n + 1 \in DOMAIN cs /\ cs[n + 1].free /\ cs[n + 1].size >= s
    BY <2>3, <2>4, <2>6
  <2>13. Fits(cs, s) # {}
    BY <2>12 DEF Fits
  <2> QED
    BY <1>11, <2>10, <2>11, <2>13
<1> QED
  BY <1>14, <1>15

(* heap_alloc_raw, however it comes out.                                   *)
LEMMA AllocTrue ==
  ASSUME NEW h, Shape(h), NEW L, HeldIn(h.blocks, L), NEW s \in Requests, NEW r \in Alloc(h, s)
  PROVE  /\ Shape(r.heap)
         /\ r.at = NoBlock => HeldIn(r.heap.blocks, L)
         /\ r.at # NoBlock => /\ \A l \in L : l.at # r.at
                              /\ HeldIn(r.heap.blocks, L \cup {[at |-> r.at, want |-> s]})
<1>0. s \in Nat /\ NoBlock \notin Nat
  BY KHeapAssumption DEF NoBlock
<1>1. ASSUME NEW g, Shape(g), HeldIn(g.blocks, L), Fits(g.blocks, s) # {}, r = Take(g, s)
      PROVE  /\ Shape(r.heap) /\ r.at # NoBlock /\ \A l \in L : l.at # r.at
             /\ HeldIn(r.heap.blocks, L \cup {[at |-> r.at, want |-> s]})
  <2>1. PICK t : /\ t = Take(g, s) /\ Shape(t.heap) /\ t.at \in Nat
                 /\ \A l \in L : l.at # t.at
                 /\ HeldIn(t.heap.blocks, L \cup {[at |-> t.at, want |-> s]})
    BY <1>1, TakeTrue
  <2>2. r = t
    BY <1>1, <2>1
  <2> QED
    BY <1>0, <2>1, <2>2
<1>2. CASE Fits(h.blocks, s) # {}
  <2>1. r = Take(h, s)
    BY <1>2 DEF Alloc
  <2> QED
    BY <1>1, <1>2, <2>1
<1>3. CASE Fits(h.blocks, s) = {}
  <2>1. PICK got \in 0 .. Min({PagesFor(s), MaxPages - h.brk \div PAGE}) :
          r = IF got = PagesFor(s) THEN Take(Grown(h, s, got), s) ELSE [at |-> NoBlock, heap |-> Grown(h, s, got)]
    BY <1>3 DEF Alloc
  <2>2. PICK g : g = Grown(h, s, got)
    OBVIOUS
  <2>3. Shape(g) /\ HeldIn(g.blocks, L) /\ (got = PagesFor(s) => Fits(g.blocks, s) # {})
    BY <1>0, <2>2, GrownTrue
  <2>4. CASE got = PagesFor(s)
    BY <1>1, <2>1, <2>2, <2>3, <2>4
  <2>5. CASE got # PagesFor(s)
    <3>1. r.at = NoBlock /\ r.heap = g
      BY <2>1, <2>2, <2>5
    <3> QED
      BY <2>3, <3>1
  <2> QED
    BY <2>4, <2>5
<1> QED
  BY <1>2, <1>3

HeapInv == Shape(heap) /\ HeldIn(heap.blocks, live)

LEMMA OneBlock ==
  ASSUME NEW b \in BlockSet, b.free, NEW top, End(b) <= top, NEW bs, bs = <<b>>
  PROVE  /\ bs \in Seq(BlockSet) /\ Len(bs) = 1 /\ bs[1] = b
         /\ Apart(bs) /\ Below(bs, top) /\ UsedBytes(bs) = 0 /\ HeldIn(bs, {})
<1>1. bs \in Seq(BlockSet) /\ Len(bs) = 1 /\ bs[1] = b
  OBVIOUS
<1>2. Apart(bs) /\ Below(bs, top)
  BY <1>1 DEF Apart, Below
<1>3. UsedBytes(bs) = 0
  <2>1. PICK f \in [0 .. Len(bs) -> Nat] : CountsUp(f, bs) /\ UsedBytes(bs) = f[Len(bs)]
    BY <1>1, UsedPrefixes
  <2>2. f[0] = 0 /\ f[1] = f[1 - 1] + Uses(bs[1])
    BY <1>1, <2>1 DEF CountsUp
  <2>3. Uses(bs[1]) = 0
    BY <1>1 DEF Uses
  <2> QED
    BY <1>1, <2>1, <2>2, <2>3
<1>4. HeldIn(bs, {})
  BY <1>1 DEF HeldIn
<1> QED
  BY <1>1, <1>2, <1>3, <1>4

LEMMA HeapBegins ==
  ASSUME HeapInit
  PROVE  HeapInv
<1>0. /\ HDR \in Nat /\ HDR > 0 /\ PAGE \in Nat /\ PAGE > HDR
      /\ FirstPages \in Nat \ {0} /\ MaxPages \in Nat /\ FirstPages <= MaxPages
  BY KHeapAssumption
<1>1. PICK top \in Nat : top = FirstPages * PAGE
  BY <1>0
<1>2. top >= PAGE
  BY <1>0, <1>1, SMTT(30)
<1>3. PICK y \in Nat : y = top - HDR
  BY <1>0, <1>2
<1>4. PICK b : b = Block(0, y)
  OBVIOUS
<1>5. b \in BlockSet /\ b.free /\ b.at = 0 /\ b.size = y
  BY <1>4 DEF Block, BlockSet
<1>6. End(b) <= top
  BY <1>0, <1>3, <1>5 DEF End
<1>7. PICK bs : bs = <<b>>
  OBVIOUS
<1>8. /\ bs \in Seq(BlockSet) /\ Len(bs) = 1
      /\ Apart(bs) /\ Below(bs, top) /\ UsedBytes(bs) = 0 /\ HeldIn(bs, {})
  BY <1>5, <1>6, <1>7, OneBlock
<1>9. heap = [blocks |-> bs, brk |-> top, used |-> 0] /\ live = {}
  BY <1>1, <1>3, <1>4, <1>7 DEF HeapInit
<1>10. FirstPages \in FirstPages .. MaxPages
  BY <1>0
<1>11. Shape(heap)
  <2>1. PICK h : h = heap
    OBVIOUS
  <2>2. h.blocks = bs /\ h.brk = top /\ h.used = 0
    BY <1>9, <2>1
  <2>3. h \in [blocks : Seq(BlockSet), brk : Nat, used : Nat]
    BY <1>8, <1>9, <2>1
  <2>4. Len(h.blocks) > 0 /\ Apart(h.blocks) /\ Below(h.blocks, h.brk) /\ h.used = UsedBytes(h.blocks)
    BY <1>8, <2>2
  <2>5. \E p \in FirstPages .. MaxPages : h.brk = p * PAGE
    BY <1>1, <1>10, <2>2, Zenon
  <2>6. Shape(h)
    BY <2>3, <2>4, <2>5, Zenon DEF Shape
  <2> QED
    BY <2>1, <2>6
<1> QED
  BY <1>8, <1>9, <1>11 DEF HeapInv

LEMMA KmallocKeeps ==
  ASSUME HeapInv, NEW s \in Requests, Kmalloc(s)
  PROVE  HeapInv'
<1>1. PICK r \in Alloc(heap, s) :
        heap' = r.heap /\ live' = IF r.at = NoBlock THEN live ELSE live \cup {[at |-> r.at, want |-> s]}
  BY DEF Kmalloc
<1>2. PICK h, L : h = heap /\ L = live
  OBVIOUS
<1>3. Shape(h) /\ HeldIn(h.blocks, L) /\ r \in Alloc(h, s)
  BY <1>2 DEF HeapInv
<1>4. /\ Shape(r.heap)
      /\ r.at = NoBlock => HeldIn(r.heap.blocks, L)
      /\ r.at # NoBlock => HeldIn(r.heap.blocks, L \cup {[at |-> r.at, want |-> s]})
  BY <1>3, AllocTrue
<1>5. PICK g, M : g = heap' /\ M = live'
  OBVIOUS
<1>6. Shape(g) /\ HeldIn(g.blocks, M)
  BY <1>1, <1>2, <1>4, <1>5
<1> QED
  BY <1>5, <1>6 DEF HeapInv

LEMMA KfreeKeeps ==
  ASSUME HeapInv, NEW l \in live, Kfree(l)
  PROVE  HeapInv'
<1>1. PICK h, L : h = heap /\ L = live
  OBVIOUS
<1>2. Shape(h) /\ HeldIn(h.blocks, L) /\ l \in L
  BY <1>1 DEF HeapInv
<1>3. Shape(Free(h, l.at)) /\ HeldIn(Free(h, l.at).blocks, L \ {l})
  BY <1>2, FreeTrue
<1>4. heap' = Free(h, l.at) /\ live' = L \ {l}
  BY <1>1 DEF Kfree
<1>5. PICK g, M : g = heap' /\ M = live'
  OBVIOUS
<1>6. Shape(g) /\ HeldIn(g.blocks, M)
  BY <1>3, <1>4, <1>5
<1> QED
  BY <1>5, <1>6 DEF HeapInv

LEMMA KreallocKeeps ==
  ASSUME HeapInv, NEW l \in live, NEW s \in Requests, Krealloc(l, s)
  PROVE  HeapInv'
<1>1. PICK h, L : h = heap /\ L = live
  OBVIOUS
<1>2. Shape(h) /\ HeldIn(h.blocks, L) /\ l \in L
  BY <1>1 DEF HeapInv
<1>3. PICK bs \in Seq(BlockSet) : bs = h.blocks /\ Apart(bs)
  BY <1>2 DEF Shape
<1>4. PICK i \in 1 .. Len(bs) : bs[i].at = l.at /\ ~bs[i].free
  BY <1>2, <1>3 DEF HeldIn
<1>5. (CHOOSE b \in ToSet(bs) : b.at = l.at) = bs[i]
  <2>1. \A b \in ToSet(bs) : b.at = l.at => b = bs[i]
    BY <1>3, <1>4, PlacesApart DEF ToSet
  <2>2. bs[i] \in ToSet(bs)
    BY DEF ToSet
  <2> QED
    BY <1>4, <2>1, <2>2
<1>6. PICK g, M : g = heap' /\ M = live'
  OBVIOUS
<1>7. CASE bs[i].size >= s
  <2>1. PICK m : m = [l EXCEPT !.want = s]
    OBVIOUS
  <2>2. g = h /\ M = (L \ {l}) \cup {m}
    BY <1>1, <1>3, <1>5, <1>6, <1>7, <2>1 DEF Krealloc
  <2>3. l \in [at : Nat, want : Requests]
    BY <1>2 DEF HeldIn
  <2>4. m \in [at : Nat, want : Requests] /\ m.at = l.at /\ m.want = s
    BY <2>1, <2>3
  <2>5. HeldIn(bs, L)
    BY <1>2, <1>3
  <2>6. HeldIn(bs, M)
    <3>1. M \subseteq [at : Nat, want : Requests]
      BY <2>2, <2>4, <2>5 DEF HeldIn
    <3>2. \A x \in M : \E k \in 1 .. Len(bs) : bs[k].at = x.at /\ ~bs[k].free /\ bs[k].size >= x.want
      BY <1>4, <1>7, <2>2, <2>4, <2>5 DEF HeldIn
    <3>3. \A k \in 1 .. Len(bs) : ~bs[k].free => \E x \in M : x.at = bs[k].at
      BY <2>2, <2>4, <2>5 DEF HeldIn
    <3>4. \A x, y \in M : x.at = y.at => x = y
      BY <1>2, <2>2, <2>4, <2>5 DEF HeldIn
    <3> QED
      BY <3>1, <3>2, <3>3, <3>4 DEF HeldIn
  <2>7. Shape(g) /\ HeldIn(g.blocks, M)
    BY <1>2, <1>3, <2>2, <2>6
  <2> QED
    BY <1>6, <2>7 DEF HeapInv
<1>8. CASE ~(bs[i].size >= s)
  <2>1. PICK r \in Alloc(h, s) :
          IF r.at = NoBlock THEN g = r.heap /\ M = L
          ELSE g = Free(r.heap, l.at) /\ M = (L \ {l}) \cup {[at |-> r.at, want |-> s]}
    BY <1>1, <1>3, <1>5, <1>6, <1>8 DEF Krealloc
  <2>2. /\ Shape(r.heap)
        /\ r.at = NoBlock => HeldIn(r.heap.blocks, L)
        /\ r.at # NoBlock => /\ \A x \in L : x.at # r.at
                             /\ HeldIn(r.heap.blocks, L \cup {[at |-> r.at, want |-> s]})
    BY <1>2, AllocTrue
  <2>3. CASE r.at = NoBlock
    <3>1. Shape(g) /\ HeldIn(g.blocks, M)
      BY <2>1, <2>2, <2>3
    <3> QED
      BY <1>6, <3>1 DEF HeapInv
  <2>4. CASE r.at # NoBlock
    <3>1. PICK a, K, e : a = [at |-> r.at, want |-> s] /\ K = L \cup {a} /\ e = r.heap
      OBVIOUS
    <3>2. Shape(e) /\ HeldIn(e.blocks, K) /\ l \in K
      BY <1>2, <2>2, <2>4, <3>1
    <3>3. Shape(Free(e, l.at)) /\ HeldIn(Free(e, l.at).blocks, K \ {l})
      BY <3>2, FreeTrue
    <3>4. M = K \ {l}
      <4>1. a # l
        BY <1>2, <2>2, <2>4, <3>1
      <4> QED
        BY <2>1, <2>4, <3>1, <4>1
    <3>5. Shape(g) /\ HeldIn(g.blocks, M)
      BY <2>1, <2>4, <3>1, <3>3, <3>4
    <3> QED
      BY <1>6, <3>5 DEF HeapInv
  <2> QED
    BY <2>3, <2>4
<1> QED
  BY <1>7, <1>8

LEMMA HeapGoesOn ==
  ASSUME HeapInv, [Next]_vars
  PROVE  HeapInv'
<1>1. HeapNext \/ UNCHANGED heapVars
  BY DEF Next, vars, memoryVars, MemoryNext
<1>2. CASE UNCHANGED heapVars
  BY <1>2 DEF heapVars, HeapInv
<1>3. CASE HeapNext
  BY <1>3, KmallocKeeps, KfreeKeeps, KreallocKeeps DEF HeapNext
<1> QED
  BY <1>1, <1>2, <1>3

(* After any sequence of kmalloc, kfree and krealloc, with memory refused  *)
(* at any point of a growth, the list of heap.c is one of blocks that      *)
(* follow each other below heap_brk, and its used blocks are those that    *)
(* callers hold, each large enough.                                        *)
THEOREM HeapInvariant == Spec => []HeapInv
<1>1. Init => HeapInv
  BY HeapBegins DEF Init
<1>2. HeapInv /\ [Next]_vars => HeapInv'
  BY HeapGoesOn
<1> QED
  BY <1>1, <1>2, PTL DEF Spec

LEMMA UsedAreHeld ==
  ASSUME NEW bs \in Seq(BlockSet), Apart(bs), NEW L, HeldIn(bs, L)
  PROVE  Cardinality({b \in ToSet(bs) : ~b.free}) = Cardinality(L)
<1>1. PICK U, n : U = {b \in ToSet(bs) : ~b.free} /\ n = Len(bs)
  OBVIOUS
<1>2. n \in Nat /\ DOMAIN bs = 1 .. n /\ ToSet(bs) = {bs[i] : i \in 1 .. n}
  BY <1>1 DEF ToSet
<1>3. IsFiniteSet(U)
  <2>1. PICK f : f = [i \in 1 .. n |-> bs[i]]
    OBVIOUS
  <2>2. f \in Surjection(1 .. n, ToSet(bs))
    BY <1>2, <2>1 DEF Surjection
  <2>3. IsFiniteSet(1 .. n)
    BY <1>2, FS_Interval
  <2>4. IsFiniteSet(ToSet(bs))
    BY <2>2, <2>3, FS_Surjection
  <2> QED
    BY <1>1, <2>4, FS_Subset
<1>4. \A b, c \in U : b.at = c.at => b = c
  BY <1>1, <1>2, PlacesApart
<1>5. \A b \in U : \E l \in L : l.at = b.at
  BY <1>1, <1>2 DEF HeldIn
<1>6. PICK f : f = [b \in U |-> CHOOSE l \in L : l.at = b.at]
  OBVIOUS
<1>7. \A b \in U : f[b] \in L /\ f[b].at = b.at
  BY <1>5, <1>6
<1>8. f \in [U -> L]
  BY <1>6, <1>7
<1>9. f \in Injection(U, L)
  <2>1. \A b, c \in U : f[b] = f[c] => b = c
    BY <1>4, <1>7
  <2>2. DOMAIN f = U
    BY <1>6
  <2> QED
    BY <1>8, <2>1, <2>2, Zenon DEF Injection, IsInjective
<1>10. ASSUME NEW l \in L PROVE \E b \in U : f[b] = l
  <2>1. PICK i \in 1 .. n : bs[i].at = l.at /\ ~bs[i].free
    BY <1>1 DEF HeldIn
  <2>2. bs[i] \in U
    BY <1>1, <1>2, <2>1
  <2>3. f[bs[i]] = l
    BY <1>7, <2>1, <2>2 DEF HeldIn
  <2> QED
    BY <2>2, <2>3
<1>11. f \in Bijection(U, L)
  BY <1>8, <1>9, <1>10 DEF Bijection, Surjection
<1>12. ExistsBijection(U, L)
  BY <1>11 DEF ExistsBijection
<1> QED
  BY <1>1, <1>3, <1>12, FS_Bijection

(* Blocks never overlap and stay within the mapped pages; what is used is  *)
(* what callers hold, block for block; and used_bytes is the sum.          *)
THEOREM BlocksDisjoint == Spec => []HeapDisjoint
<1>1. HeapInv => HeapDisjoint
  <2> SUFFICES ASSUME HeapInv PROVE HeapDisjoint
    OBVIOUS
  <2>1. PICK bs \in Seq(BlockSet) : bs = heap.blocks /\ Apart(bs) /\ Below(bs, heap.brk) /\ Len(bs) > 0
    BY DEF HeapInv, Shape
  <2>2. HeldIn(bs, live) /\ heap.used = UsedBytes(bs)
    BY <2>1 DEF HeapInv, Shape
  <2>3. \A i \in 1 .. Len(bs) - 1 : End(bs[i]) <= bs[i + 1].at
    BY <2>1 DEF Apart
  <2>4. End(Last(bs)) <= heap.brk
    BY <2>1 DEF Below, Last
  <2>5. PICK U : U = {b \in ToSet(bs) : ~b.free}
    OBVIOUS
  <2>6. \A b \in U : b \in BlockSet /\ \E i \in 1 .. Len(bs) : b = bs[i] /\ ~bs[i].free
    BY <2>5 DEF ToSet
  <2>7. {b.at : b \in U} = {l.at : l \in live}
    <3>1. \A b \in U : \E l \in live : l.at = b.at
      BY <2>2, <2>6 DEF HeldIn
    <3>2. \A l \in live : \E b \in U : b.at = l.at
      BY <2>2, <2>5 DEF HeldIn, ToSet
    <3> QED
      BY <3>1, <3>2
  <2>8. \A l \in live, b \in U : b.at = l.at => b.size >= l.want
    <3> SUFFICES ASSUME NEW l \in live, NEW b \in U, b.at = l.at PROVE b.size >= l.want
      OBVIOUS
    <3>1. PICK i \in 1 .. Len(bs) : bs[i].at = l.at /\ bs[i].size >= l.want
      BY <2>2 DEF HeldIn
    <3>2. PICK j \in 1 .. Len(bs) : b = bs[j]
      BY <2>6
    <3>3. i = j
      BY <2>1, <3>1, <3>2, PlacesApart
    <3> QED
      BY <3>1, <3>2, <3>3
  <2>9. Cardinality(U) = Cardinality(live)
    BY <2>1, <2>2, <2>5, UsedAreHeld
  <2>10. heap.used = FoldLeft(LAMBDA n, b : IF b.free THEN n ELSE n + b.size, 0, bs)
    BY <2>2 DEF UsedBytes
  <2> QED
    BY <2>1, <2>3, <2>4, <2>5, <2>7, <2>8, <2>9, <2>10, Zenon DEF HeapDisjoint
<1> QED
  BY <1>1, HeapInvariant, PTL

-----------------------------------------------------------------------------
(* Signals *)

SignalSet ==
  [state : {"READY", "ZOMBIE", "STOPPED"}, exit_code : {0} \cup {128 + s : s \in Sigs},
   sig_pending : SUBSET Sigs, sig_handlers : [Sigs -> Handlers]]

(* A finite set of numbers has its order.                                  *)
Ascends(f) == \A i, j \in DOMAIN f : i < j => f[i] < f[j]

LEMMA HasOrder ==
  ASSUME NEW n \in Nat, NEW S \in SUBSET (1 .. n)
  PROVE  IsFiniteSet(S) /\ \E f \in [1 .. Cardinality(S) -> S] : Ascends(f)
<1> DEFINE Has(k) == \A A \in SUBSET (1 .. k) :
                       IsFiniteSet(A) /\ \E f \in [1 .. Cardinality(A) -> A] : Ascends(f)
           T == {k \in Nat : Has(k)}
<1>1. 0 \in T
  <2>1. IsFiniteSet({}) /\ Cardinality({}) = 0
    BY FS_EmptySet
  <2>2. PICK f : f = [i \in 1 .. 0 |-> i]
    OBVIOUS
  <2>3. f \in [1 .. 0 -> {}] /\ Ascends(f)
    BY <2>2 DEF Ascends
  <2>4. 1 .. 0 = {}
    OBVIOUS
  <2> QED
    BY <2>1, <2>3, <2>4
<1>2. ASSUME NEW k \in Nat, k \in T PROVE k + 1 \in T
  <2> SUFFICES ASSUME NEW A \in SUBSET (1 .. k + 1)
               PROVE  IsFiniteSet(A) /\ \E f \in [1 .. Cardinality(A) -> A] : Ascends(f)
    OBVIOUS
  <2>1. CASE k + 1 \notin A
    <3>1. A \in SUBSET (1 .. k)
      BY <2>1
    <3> QED
      BY <1>2, <3>1
  <2>2. CASE k + 1 \in A
    <3>1. PICK B : B = A \ {k + 1}
      OBVIOUS
    <3>2. B \in SUBSET (1 .. k) /\ k + 1 \notin B /\ A = B \cup {k + 1}
      BY <2>2, <3>1
    <3>3. IsFiniteSet(B)
      BY <1>2, <3>2
    <3>4. PICK f \in [1 .. Cardinality(B) -> B] : Ascends(f)
      BY <1>2, <3>2
    <3>5. PICK m \in Nat : m = Cardinality(B)
      BY <3>3, FS_CardinalityType
    <3>6. IsFiniteSet(A) /\ Cardinality(A) = m + 1
      BY <3>2, <3>3, <3>5, FS_AddElement
    <3>7. PICK g : g = [i \in 1 .. m + 1 |-> IF i = m + 1 THEN k + 1 ELSE f[i]]
      OBVIOUS
    <3>8. f \in [1 .. m -> B] /\ \A i, j \in 1 .. m : i < j => f[i] < f[j]
      BY <3>4, <3>5 DEF Ascends
    <3>9. ASSUME NEW i \in 1 .. m + 1, i # m + 1 PROVE i \in 1 .. m /\ g[i] = f[i] /\ g[i] \in B
      <4>1. i \in 1 .. m
        BY <3>9
      <4>2. g[i] = f[i]
        BY <3>7, <3>9
      <4> QED
        BY <3>8, <4>1, <4>2
    <3>10. g \in [1 .. m + 1 -> A]
      BY <3>2, <3>7, <3>9
    <3>11. \A i, j \in 1 .. m + 1 : i < j => g[i] < g[j]
      <4> SUFFICES ASSUME NEW i \in 1 .. m + 1, NEW j \in 1 .. m + 1, i < j PROVE g[i] < g[j]
        OBVIOUS
      <4>0. i # m + 1
        OBVIOUS
      <4>1. i \in 1 .. m /\ g[i] = f[i] /\ g[i] \in 1 .. k
        BY <3>2, <3>9, <4>0
      <4>2. CASE j = m + 1
        <5>1. g[j] = k + 1
          BY <3>7, <4>2
        <5> QED
          BY <4>1, <5>1
      <4>3. CASE j # m + 1
        BY <3>8, <3>9, <4>1, <4>3
      <4> QED
        BY <4>2, <4>3
    <3> QED
      BY <3>6, <3>10, <3>11 DEF Ascends
  <2> QED
    BY <2>1, <2>2
<1> HIDE DEF T
<1>3. n \in T
  BY <1>1, <1>2, Induction
<1> QED
  BY <1>3 DEF T

LEMMA NumberFacts ==
  ASSUME NEW S \in SUBSET Sigs
  PROVE  \E n \in Nat : /\ ByNumber(S) \in [1 .. n -> S] /\ ByNumber(S) \in Seq(S) /\ Len(ByNumber(S)) = n
                        /\ \A i, j \in 1 .. n : i < j => ByNumber(S)[i] < ByNumber(S)[j]
                        /\ \A s \in S : \E i \in 1 .. n : ByNumber(S)[i] = s
<1>1. S \in SUBSET (1 .. 31) /\ \A s \in S : s \in Nat
  BY SignalsAssumption
<1>2. IsFiniteSet(S) /\ \E f \in [1 .. Cardinality(S) -> S] : Ascends(f)
  BY <1>1, HasOrder
<1>3. PICK n \in Nat : n = Cardinality(S)
  BY <1>2, FS_CardinalityType
<1>4. PICK e : e = ByNumber(S)
  OBVIOUS
<1>5. e \in [1 .. n -> S] /\ \A i, j \in DOMAIN e : i < j => e[i] < e[j]
  BY <1>2, <1>3, <1>4 DEF ByNumber, Ascends
<1>6. e \in Seq(S) /\ Len(e) = n
  BY <1>5
<1>7. \A i, j \in 1 .. n : e[i] = e[j] => i = j
  <2> SUFFICES ASSUME NEW i \in 1 .. n, NEW j \in 1 .. n, e[i] = e[j], i # j PROVE FALSE
    OBVIOUS
  <2>1. e[i] \in Nat /\ e[j] \in Nat /\ DOMAIN e = 1 .. n
    BY <1>1, <1>5
  <2>2. i < j \/ j < i
    OBVIOUS
  <2> QED
    BY <1>5, <2>1, <2>2
<1>8. e \in Injection(1 .. n, S)
  BY <1>5, <1>7 DEF Injection, IsInjective
<1>9. IsFiniteSet(1 .. n) /\ Cardinality(1 .. n) = n
  BY FS_Interval
<1>10. e \in Surjection(1 .. n, S)
  BY <1>2, <1>3, <1>8, <1>9, FS_Injection
<1>11. \A s \in S : \E i \in 1 .. n : e[i] = s
  BY <1>10 DEF Surjection
<1> QED
  BY <1>4, <1>5, <1>6, <1>11

(* One default action: what it does to the state and to the exit code.     *)
LEMMA ActionTrue ==
  ASSUME NEW p \in SignalSet, NEW s \in Sigs
  PROVE  /\ DefaultAction(p, s) \in SignalSet
         /\ Fatal(s) => DefaultAction(p, s).state = "ZOMBIE" /\ DefaultAction(p, s).exit_code = 128 + s
         /\ ~Fatal(s) => DefaultAction(p, s).exit_code = p.exit_code
         /\ s = SIGSTOP => DefaultAction(p, s).state = "STOPPED"
         /\ ~Fatal(s) /\ s # SIGSTOP => (DefaultAction(p, s).state = "ZOMBIE" <=> p.state = "ZOMBIE")
<1>0. SIGSTOP = 19 /\ SIGCONT = 18 /\ SIGCHLD = 17
  BY DEF SIGSTOP, SIGCONT, SIGCHLD
<1>1. CASE Fatal(s)
  <2>1. DefaultAction(p, s) = [p EXCEPT !.state = "ZOMBIE", !.exit_code = 128 + s]
    <3>1. s # SIGSTOP /\ s # SIGCONT
      BY <1>1 DEF Fatal
    <3> QED
      BY <1>1, <3>1, Zenon DEF DefaultAction
  <2>2. PICK c : c = 128 + s
    OBVIOUS
  <2>3. c \in {0} \cup {128 + t : t \in Sigs}
    BY <2>2
  <2>4. DefaultAction(p, s) = [p EXCEPT !.state = "ZOMBIE", !.exit_code = c]
    BY <2>1, <2>2
  <2>5. DefaultAction(p, s) \in SignalSet
    BY <2>3, <2>4 DEF SignalSet
  <2>6. DefaultAction(p, s).state = "ZOMBIE" /\ DefaultAction(p, s).exit_code = c
    BY <2>4 DEF SignalSet
  <2>7. s # SIGSTOP
    BY <1>1 DEF Fatal
  <2> QED
    BY <1>1, <2>2, <2>5, <2>6, <2>7, Zenon
<1>2. CASE s = SIGSTOP
  <2>1. ~Fatal(s)
    BY <1>2 DEF Fatal
  <2>2. DefaultAction(p, s) = [p EXCEPT !.state = "STOPPED"]
    <3>1. s # SIGCONT
      BY <1>0, <1>2
    <3> QED
      BY <1>2, <2>1, <3>1, Zenon DEF DefaultAction
  <2> QED
    BY <1>2, <2>1, <2>2 DEF SignalSet
<1>3. CASE s = SIGCONT
  <2>1. ~Fatal(s) /\ s # SIGSTOP
    BY <1>0, <1>3 DEF Fatal
  <2>2. DefaultAction(p, s) = [p EXCEPT !.state = IF p.state = "STOPPED" THEN "READY" ELSE p.state]
    BY <1>3, <2>1 DEF DefaultAction
  <2> QED
    BY <2>1, <2>2 DEF SignalSet
<1>4. CASE ~Fatal(s) /\ s # SIGSTOP /\ s # SIGCONT
  <2>1. DefaultAction(p, s) = p
    BY <1>4 DEF DefaultAction
  <2> QED
    BY <1>4, <2>1
<1> QED
  BY <1>1, <1>2, <1>3, <1>4

LEMMA ActionSteps ==
  ASSUME NEW p \in SignalSet, NEW e \in Seq(Sigs)
  PROVE  \E f \in [0 .. Len(e) -> SignalSet] :
           /\ f[0] = p
           /\ \A k \in 1 .. Len(e) : f[k] = DefaultAction(f[k - 1], e[k])
           /\ FoldLeft(DefaultAction, p, e) = f[Len(e)]
<1>1. PICK n : n = Len(e)
  OBVIOUS
<1>2. n \in Nat /\ DOMAIN e = 1 .. n /\ \A i \in 1 .. n : e[i] \in Sigs
  BY <1>1
<1>3. PICK step : step = [x \in (1 .. n) \X SignalSet |-> DefaultAction(x[2], e[x[1]])]
  OBVIOUS
<1>4. step \in [(1 .. n) \X SignalSet -> SignalSet]
  <2>1. ASSUME NEW x \in (1 .. n) \X SignalSet
        PROVE  DefaultAction(x[2], e[x[1]]) \in SignalSet
    <3>1. e[x[1]] \in Sigs /\ x[2] \in SignalSet
      BY <1>2
    <3> QED
      BY <3>1, ActionTrue
  <2> QED
    BY <1>3, <2>1
<1>6. PICK it \in [SUBSET (1 .. n) -> SignalSet] : IsTable(it, n, p, step)
  BY <1>2, <1>4, FoldTable
<1>7. it = [t \in SUBSET (DOMAIN e) |->
              IF t = {} THEN p ELSE DefaultAction(it[t \ {Max(t)}], e[Max(t)])]
  <2>1. ASSUME NEW t \in SUBSET (1 .. n), t # {}
        PROVE  step[<<Max(t), it[t \ {Max(t)}]>>] = DefaultAction(it[t \ {Max(t)}], e[Max(t)])
    <3>1. Max(t) \in 1 .. n
      BY <1>2, <2>1, MaxFacts
    <3>2. it[t \ {Max(t)}] \in SignalSet
      BY <1>6
    <3> QED
      BY <1>3, <3>1, <3>2
  <2>2. \A t \in SUBSET (1 .. n) :
          it[t] = IF t = {} THEN p ELSE DefaultAction(it[t \ {Max(t)}], e[Max(t)])
    BY <1>6, <2>1 DEF IsTable
  <2> QED
    BY <1>2, <2>2
<1>8. PICK fold : /\ fold = [t \in SUBSET (DOMAIN e) |->
                                IF t = {} THEN p ELSE DefaultAction(fold[t \ {Max(t)}], e[Max(t)])]
                   /\ FoldLeft(DefaultAction, p, e) = fold[DOMAIN e]
  <2> DEFINE made == CHOOSE g : g = [t \in SUBSET (DOMAIN e) |->
              IF t = {} THEN p ELSE DefaultAction(g[t \ {Max(t)}], e[Max(t)])]
  <2>1. made = [t \in SUBSET (DOMAIN e) |->
              IF t = {} THEN p ELSE DefaultAction(made[t \ {Max(t)}], e[Max(t)])]
    BY <1>7
  <2>2. FoldLeft(DefaultAction, p, e) = made[DOMAIN e]
    BY DEF FoldLeft, MapThenFoldSet
  <2> HIDE DEF made
  <2> QED
    BY <2>1, <2>2
<1>10. fold[{}] = p
  BY <1>8
<1>11. ASSUME NEW t \in SUBSET (1 .. n), t # {}, fold[t \ {Max(t)}] \in SignalSet
       PROVE  fold[t] = step[<<Max(t), fold[t \ {Max(t)}]>>]
  <2>1. Max(t) \in 1 .. n
    BY <1>2, <1>11, MaxFacts
  <2>2. step[<<Max(t), fold[t \ {Max(t)}]>>] = DefaultAction(fold[t \ {Max(t)}], e[Max(t)])
    BY <1>3, <1>11, <2>1
  <2> QED
    BY <1>2, <1>8, <1>11, <2>2
<1>12. PICK f \in [0 .. n -> SignalSet] : Accumulates(f, n, p, step, fold)
  <2>1. Tabulates(fold, n, SignalSet, step)
    BY <1>11 DEF Tabulates
  <2> QED
    BY <1>2, <1>4, <1>10, <2>1, FoldAlong
<1>13. \A k \in 1 .. n : f[k] = DefaultAction(f[k - 1], e[k])
  <2> SUFFICES ASSUME NEW k \in 1 .. n PROVE f[k] = DefaultAction(f[k - 1], e[k])
    OBVIOUS
  <2>1. f[k - 1] \in SignalSet
    BY <1>2
  <2>2. step[<<k, f[k - 1]>>] = DefaultAction(f[k - 1], e[k])
    BY <1>3, <2>1
  <2> QED
    BY <1>12, <2>2 DEF Accumulates
<1> QED
  BY <1>1, <1>2, <1>8, <1>12, <1>13 DEF Accumulates

(* What the first k of the actions have done.                              *)
Harmless(e, k) == \A j \in 1 .. k : ~Fatal(e[j])
LastFatal(e, i, k) == i \in 1 .. k /\ Fatal(e[i]) /\ \A j \in i + 1 .. k : ~Fatal(e[j])
Acted(q, p, e, k) ==
  /\ Harmless(e, k) => /\ q.exit_code = p.exit_code
                       /\ p.state # "ZOMBIE" => q.state # "ZOMBIE"
                       /\ p.state = "ZOMBIE" /\ (\A j \in 1 .. k : e[j] # SIGSTOP) => q.state = "ZOMBIE"
  /\ \A i \in 1 .. k : LastFatal(e, i, k) =>
       /\ q.exit_code = 128 + e[i]
       /\ (\A j \in i + 1 .. k : e[j] # SIGSTOP) => q.state = "ZOMBIE"

LEMMA ActionsTrue ==
  ASSUME NEW p \in SignalSet, NEW e \in Seq(Sigs)
  PROVE  FoldLeft(DefaultAction, p, e) \in SignalSet /\ Acted(FoldLeft(DefaultAction, p, e), p, e, Len(e))
<1>1. PICK n \in Nat : n = Len(e) /\ \A k \in 1 .. n : e[k] \in Sigs
  OBVIOUS
<1>2. PICK f \in [0 .. n -> SignalSet] :
        /\ f[0] = p
        /\ \A k \in 1 .. n : f[k] = DefaultAction(f[k - 1], e[k])
        /\ FoldLeft(DefaultAction, p, e) = f[n]
  BY <1>1, ActionSteps
<1> DEFINE T == {k \in Nat : k <= n => Acted(f[k], p, e, k)}
<1>3. 0 \in T
  <2>1. Acted(p, p, e, 0)
    BY DEF Acted
  <2> QED
    BY <1>2, <2>1
<1>4. ASSUME NEW k \in Nat, k \in T PROVE k + 1 \in T
  <2> SUFFICES ASSUME k + 1 <= n PROVE Acted(f[k + 1], p, e, k + 1)
    OBVIOUS
  <2>1. k + 1 \in 1 .. n /\ k \in 0 .. n /\ (k + 1) - 1 = k
    BY <1>1
  <2>2. Acted(f[k], p, e, k)
    BY <1>1, <1>4
  <2>3. PICK q, r, s : q = f[k] /\ r = f[k + 1] /\ s = e[k + 1]
    OBVIOUS
  <2>4. q \in SignalSet /\ s \in Sigs /\ r = DefaultAction(q, s)
    BY <1>1, <1>2, <2>1, <2>3
  <2>5. /\ Fatal(s) => r.state = "ZOMBIE" /\ r.exit_code = 128 + s
        /\ ~Fatal(s) => r.exit_code = q.exit_code
        /\ s = SIGSTOP => r.state = "STOPPED"
        /\ ~Fatal(s) /\ s # SIGSTOP => (r.state = "ZOMBIE" <=> q.state = "ZOMBIE")
    BY <2>4, ActionTrue
  <2>6. \A j \in 1 .. k + 1 : j = k + 1 \/ j \in 1 .. k
    OBVIOUS
  <2>7. Harmless(e, k + 1) => /\ r.exit_code = p.exit_code
                              /\ p.state # "ZOMBIE" => r.state # "ZOMBIE"
                              /\ p.state = "ZOMBIE" /\ (\A j \in 1 .. k + 1 : e[j] # SIGSTOP) => r.state = "ZOMBIE"
    <3> SUFFICES ASSUME Harmless(e, k + 1)
                 PROVE  /\ r.exit_code = p.exit_code
                        /\ p.state # "ZOMBIE" => r.state # "ZOMBIE"
                        /\ p.state = "ZOMBIE" /\ (\A j \in 1 .. k + 1 : e[j] # SIGSTOP) => r.state = "ZOMBIE"
      OBVIOUS
    <3>1. Harmless(e, k) /\ ~Fatal(s)
      BY <2>3 DEF Harmless
    <3>2. /\ q.exit_code = p.exit_code
          /\ p.state # "ZOMBIE" => q.state # "ZOMBIE"
          /\ p.state = "ZOMBIE" /\ (\A j \in 1 .. k : e[j] # SIGSTOP) => q.state = "ZOMBIE"
      BY <2>2, <2>3, <3>1 DEF Acted
    <3>3. (\A j \in 1 .. k + 1 : e[j] # SIGSTOP) => (\A j \in 1 .. k : e[j] # SIGSTOP) /\ s # SIGSTOP
      BY <2>3
    <3> QED
      BY <2>5, <3>1, <3>2, <3>3
  <2>8. ASSUME NEW i \in 1 .. k + 1, LastFatal(e, i, k + 1)
        PROVE  /\ r.exit_code = 128 + e[i]
               /\ (\A j \in i + 1 .. k + 1 : e[j] # SIGSTOP) => r.state = "ZOMBIE"
    <3>1. CASE i = k + 1
      BY <2>3, <2>5, <2>8, <3>1 DEF LastFatal
    <3>2. CASE i \in 1 .. k
      <4>1. k + 1 \in i + 1 .. k + 1 /\ \A j \in i + 1 .. k : j \in i + 1 .. k + 1
        BY <3>2
      <4>2. LastFatal(e, i, k) /\ ~Fatal(s)
        BY <2>3, <2>8, <3>2, <4>1 DEF LastFatal
      <4>3. /\ q.exit_code = 128 + e[i]
            /\ (\A j \in i + 1 .. k : e[j] # SIGSTOP) => q.state = "ZOMBIE"
        BY <2>2, <2>3, <3>2, <4>2 DEF Acted
      <4>4. (\A j \in i + 1 .. k + 1 : e[j] # SIGSTOP) => (\A j \in i + 1 .. k : e[j] # SIGSTOP) /\ s # SIGSTOP
        BY <2>3, <4>1
      <4> QED
        BY <2>5, <4>2, <4>3, <4>4
    <3> QED
      BY <2>6, <3>1, <3>2
  <2> QED
    BY <2>3, <2>7, <2>8 DEF Acted
<1> HIDE DEF T
<1>5. n \in T
  BY <1>3, <1>4, Induction
<1>6. Acted(f[n], p, e, n)
  BY <1>5 DEF T
<1> QED
  BY <1>1, <1>2, <1>6

(* Where a process stands agrees with the signals that took effect.        *)
SigInv ==
  /\ process \in SignalSet
  /\ killed \in Sigs \cup {0} /\ stopped \in BOOLEAN
  /\ EndsOnce

LEMMA SigBegins ==
  ASSUME SigInit
  PROVE  SigInv
<1>1. process = [state |-> "READY", exit_code |-> 0, sig_pending |-> {}, sig_handlers |-> [s \in Sigs |-> "SIG_DFL"]]
  BY DEF SigInit
<1>2. [s \in Sigs |-> "SIG_DFL"] \in [Sigs -> Handlers]
  BY DEF Handlers
<1>3. process \in SignalSet
  BY <1>1, <1>2 DEF SignalSet
<1>4. EndsOnce
  BY <1>1 DEF SigInit, EndsOnce
<1> QED
  BY <1>3, <1>4 DEF SigInit, SigInv

LEMMA SignalKeeps ==
  ASSUME SigInv, NEW s \in Sigs, Signal(s)
  PROVE  SigInv'
<1>1. process \in SignalSet /\ process' = [process EXCEPT !.sig_pending = process.sig_pending \cup {s}]
  BY DEF SigInv, Signal
<1>2. process' \in SignalSet /\ process'.state = process.state /\ process'.exit_code = process.exit_code
  BY <1>1 DEF SignalSet
<1> QED
  BY <1>2 DEF SigInv, Signal, EndsOnce

LEMMA SetHandlerKeeps ==
  ASSUME SigInv, NEW s \in Sigs, NEW h \in Handlers, SetHandler(s, h)
  PROVE  SigInv'
<1>1. process \in SignalSet /\ process' = [process EXCEPT !.sig_handlers = [process.sig_handlers EXCEPT ![s] = h]]
  BY DEF SigInv, SetHandler
<1>2. [process.sig_handlers EXCEPT ![s] = h] \in [Sigs -> Handlers]
  BY <1>1 DEF SignalSet
<1>3. process' \in SignalSet /\ process'.state = process.state /\ process'.exit_code = process.exit_code
  BY <1>1, <1>2 DEF SignalSet
<1> QED
  BY <1>3 DEF SigInv, SetHandler, EndsOnce

LEMMA HandleKeeps ==
  ASSUME SigInv, HandleSignals
  PROVE  SigInv'
<1>1. PICK p : p = process /\ p \in SignalSet
  BY DEF SigInv
<1>2. PICK acts \in SUBSET Sigs : acts = {s \in p.sig_pending : p.sig_handlers[s] = "SIG_DFL"}
  BY <1>1 DEF SignalSet
<1>3. PICK dead \in SUBSET acts : dead = {s \in acts : Fatal(s)}
  OBVIOUS
<1>4. PICK e : e = ByNumber(acts)
  OBVIOUS
<1>5. PICK n \in Nat : /\ e \in [1 .. n -> acts] /\ e \in Seq(acts) /\ Len(e) = n
                       /\ \A i, j \in 1 .. n : i < j => e[i] < e[j]
                       /\ \A s \in acts : \E i \in 1 .. n : e[i] = s
  BY <1>4, NumberFacts
<1>6. PICK r : r = FoldLeft(DefaultAction, p, e)
  OBVIOUS
<1>7. r \in SignalSet /\ Acted(r, p, e, n)
  <2>1. e \in Seq(Sigs)
    BY <1>5
  <2> QED
    BY <1>1, <1>5, <1>6, <2>1, ActionsTrue
<1>8. /\ process' = [r EXCEPT !.sig_pending = {}]
      /\ killed' = IF dead = {} THEN killed ELSE Max(dead)
      /\ stopped' = IF dead = {} THEN stopped \/ SIGSTOP \in acts
                    ELSE \E s \in acts : s = SIGSTOP /\ s > Max(dead)
  BY <1>1, <1>2, <1>3, <1>4, <1>6 DEF HandleSignals
<1>9. process' \in SignalSet /\ process'.state = r.state /\ process'.exit_code = r.exit_code
  BY <1>7, <1>8 DEF SignalSet
<1>10. /\ p.exit_code = IF killed = 0 THEN 0 ELSE 128 + killed
       /\ killed = 0 => p.state # "ZOMBIE"
       /\ killed # 0 /\ ~stopped => p.state = "ZOMBIE"
       /\ killed \in Sigs \cup {0} /\ stopped \in BOOLEAN
  BY <1>1 DEF SigInv, EndsOnce
<1>11. CASE dead = {}
  <2>1. Harmless(e, n)
    BY <1>3, <1>5, <1>11 DEF Harmless
  <2>2. /\ r.exit_code = p.exit_code
        /\ p.state # "ZOMBIE" => r.state # "ZOMBIE"
        /\ p.state = "ZOMBIE" /\ (\A j \in 1 .. n : e[j] # SIGSTOP) => r.state = "ZOMBIE"
    BY <1>7, <2>1 DEF Acted
  <2>3. killed' = killed /\ stopped' = (stopped \/ SIGSTOP \in acts)
    BY <1>8, <1>11
  <2>4. ~stopped' => ~stopped /\ \A j \in 1 .. n : e[j] # SIGSTOP
    BY <1>5, <2>3, ZenonT(30)
  <2>5. killed' \in Sigs \cup {0} /\ stopped' \in BOOLEAN
    BY <1>10, <2>3
  <2> QED
    BY <1>9, <1>10, <2>2, <2>3, <2>4, <2>5 DEF SigInv, EndsOnce
<1>12. CASE dead # {}
  <2>1. dead \in SUBSET (1 .. 31) /\ 31 \in Nat
    BY <1>2, <1>3, SignalsAssumption
  <2>2. PICK m : m = Max(dead)
    OBVIOUS
  <2>3. m \in dead /\ \A x \in dead : m >= x
    BY <1>12, <2>1, <2>2, MaxFacts
  <2>4. PICK i \in 1 .. n : e[i] = m
    BY <1>3, <1>5, <2>3
  <2>5. \A j \in i + 1 .. n : j \in 1 .. n /\ e[j] \in acts /\ e[j] \in 1 .. 31 /\ e[j] > m
    <3> SUFFICES ASSUME NEW j \in i + 1 .. n
                 PROVE  j \in 1 .. n /\ e[j] \in acts /\ e[j] \in 1 .. 31 /\ e[j] > m
      OBVIOUS
    <3>1. j \in 1 .. n /\ i < j
      OBVIOUS
    <3>2. e[j] \in acts /\ e[i] < e[j]
      BY <1>5, <3>1
    <3>3. e[j] \in 1 .. 31 /\ m \in 1 .. 31
      BY <1>2, <2>1, <2>3, <3>2, SignalsAssumption
    <3> QED
      BY <2>4, <3>1, <3>2, <3>3
  <2>6. \A j \in i + 1 .. n : ~Fatal(e[j])
    <3> SUFFICES ASSUME NEW j \in i + 1 .. n, Fatal(e[j]) PROVE FALSE
      OBVIOUS
    <3>1. e[j] \in dead /\ e[j] \in 1 .. 31 /\ e[j] > m /\ m \in 1 .. 31
      BY <1>3, <2>1, <2>3, <2>5
    <3> QED
      BY <2>3, <3>1
  <2>7. LastFatal(e, i, n)
    BY <1>3, <2>3, <2>4, <2>6 DEF LastFatal
  <2>8. /\ r.exit_code = 128 + m
        /\ (\A j \in i + 1 .. n : e[j] # SIGSTOP) => r.state = "ZOMBIE"
    BY <1>7, <2>4, <2>7 DEF Acted
  <2>9. killed' = m /\ stopped' = \E s \in acts : s = SIGSTOP /\ s > m
    BY <1>8, <1>12, <2>2
  <2>10. ~stopped' => \A j \in i + 1 .. n : e[j] # SIGSTOP
    BY <2>5, <2>9
  <2>11. m # 0 /\ m \in Sigs
    BY <1>3, <2>1, <2>3
  <2>12. killed' \in Sigs \cup {0} /\ stopped' \in BOOLEAN
    BY <2>9, <2>11
  <2> QED
    BY <1>9, <2>8, <2>9, <2>10, <2>11, <2>12 DEF SigInv, EndsOnce
<1> QED
  BY <1>11, <1>12

LEMMA SigGoesOn ==
  ASSUME SigInv, [Next]_vars
  PROVE  SigInv'
<1>1. SigNext \/ UNCHANGED sigVars
  BY DEF Next, vars, memoryVars, MemoryNext
<1>2. CASE UNCHANGED sigVars
  BY <1>2 DEF sigVars, SigInv, EndsOnce
<1>3. CASE SigNext
  BY <1>3, SignalKeeps, SetHandlerKeeps, HandleKeeps DEF SigNext
<1> QED
  BY <1>1, <1>2, <1>3

THEOREM SignalsEndOnce == Spec => []EndsOnce
<1>1. Init => SigInv
  BY SigBegins DEF Init
<1>2. SigInv /\ [Next]_vars => SigInv'
  BY SigGoesOn
<1>3. SigInv => EndsOnce
  BY DEF SigInv
<1> QED
  BY <1>1, <1>2, <1>3, PTL DEF Spec

-----------------------------------------------------------------------------
(* Slab caches *)

Once(q) == \A i, j \in 1 .. Len(q) : q[i] = q[j] => i = j
Elems(q) == {q[i] : i \in 1 .. Len(q)}

(* Taking out the first place with an element.                             *)
LEMMA TakingOut ==
  ASSUME NEW S, NEW q \in Seq(S), NEW s, s \in Elems(q)
  PROVE  \E i \in 1 .. Len(q) : q[i] = s /\ RemoveFirst(q, s) = RemoveAt(q, i)
<1>1. PICK I \in SUBSET (1 .. Len(q)) : I = {i \in 1 .. Len(q) : q[i] = s}
  OBVIOUS
<1>2. I # {}
  BY <1>1 DEF Elems
<1>3. I \in SUBSET Nat
  OBVIOUS
<1>4. Min(I) \in I
  BY <1>2, <1>3, MinFacts
<1>5. SelectInSeq(q, LAMBDA v : v = s) = Min(I)
  BY <1>1, <1>2 DEF SelectInSeq
<1>6. RemoveFirst(q, s) = RemoveAt(q, Min(I))
  BY <1>1, <1>2, <1>5 DEF RemoveFirst
<1> QED
  BY <1>1, <1>4, <1>6

LEMMA Unlinked ==
  ASSUME NEW S, NEW q \in Seq(S), NEW s, Once(q)
  PROVE  LET r == RemoveFirst(q, s)
         IN  r \in Seq(S) /\ Once(r) /\ Elems(r) = Elems(q) \ {s}
<1>1. PICK r : r = RemoveFirst(q, s)
  OBVIOUS
<1>2. CASE s \notin Elems(q)
  <2>1. r = q
    BY <1>1, <1>2 DEF RemoveFirst, Elems
  <2> QED
    BY <1>1, <1>2, <2>1
<1>3. CASE s \in Elems(q)
  <2>1. PICK i \in 1 .. Len(q) : q[i] = s /\ r = RemoveAt(q, i)
    BY <1>1, <1>3, TakingOut
  <2>2. /\ r \in Seq(S) /\ Len(r) = Len(q) - 1
        /\ \A k \in 1 .. Len(q) - 1 : r[k] = IF k < i THEN q[k] ELSE q[k + 1]
    BY <2>1, Removing
  <2>3. PICK n \in Nat : n = Len(q)
    BY LenProperties
  <2>4. Once(r)
    <3> SUFFICES ASSUME NEW j \in 1 .. n - 1, NEW k \in 1 .. n - 1, r[j] = r[k] PROVE j = k
      BY <2>2, <2>3 DEF Once
    <3>1. PICK a \in 1 .. n : a = (IF j < i THEN j ELSE j + 1) /\ r[j] = q[a]
      BY <2>2, <2>3, SMTT(30)
    <3>2. PICK b \in 1 .. n : b = (IF k < i THEN k ELSE k + 1) /\ r[k] = q[b]
      BY <2>2, <2>3
    <3>3. a = b
      BY <2>3, <3>1, <3>2 DEF Once
    <3> QED
      BY <3>1, <3>2, <3>3
  <2>5. ASSUME NEW x \in Elems(r) PROVE x \in Elems(q) \ {s}
    <3>1. PICK k \in 1 .. n - 1 : x = r[k]
      BY <2>2, <2>3 DEF Elems
    <3>2. PICK a \in 1 .. n : a = (IF k < i THEN k ELSE k + 1) /\ x = q[a]
      BY <2>2, <2>3, <3>1
    <3>3. a # i
      BY <3>2
    <3> QED
      BY <2>1, <2>3, <3>2, <3>3 DEF Elems, Once
  <2>6. ASSUME NEW x \in Elems(q) \ {s} PROVE x \in Elems(r)
    <3>1. PICK a \in 1 .. n : x = q[a]
      BY <2>3 DEF Elems
    <3>2. a # i
      BY <2>1, <3>1
    <3>3. PICK k \in 1 .. n - 1 : k = (IF a < i THEN a ELSE a - 1) /\ r[k] = q[a]
      <4>1. CASE a < i
        <5>1. a \in 1 .. n - 1
          BY <2>3, <4>1
        <5> QED
          BY <2>2, <2>3, <4>1, <5>1
      <4>2. CASE a > i
        <5>1. a - 1 \in 1 .. n - 1 /\ (a - 1) + 1 = a /\ ~(a - 1 < i)
          BY <2>3, <4>2
        <5> QED
          BY <2>2, <2>3, <4>2, <5>1
      <4> QED
        BY <3>2, <4>1, <4>2
    <3> QED
      BY <2>2, <2>3, <3>1, <3>3 DEF Elems
  <2> QED
    BY <1>1, <2>2, <2>4, <2>5, <2>6
<1> QED
  BY <1>2, <1>3

(* An element in front of a sequence.                                      *)
LEMMA PutFirst ==
  ASSUME NEW S, NEW q \in Seq(S), NEW x \in S
  PROVE  LET r == <<x>> \o q
         IN  /\ r \in Seq(S) /\ Len(r) = Len(q) + 1 /\ Elems(r) = Elems(q) \cup {x}
             /\ Once(q) /\ x \notin Elems(q) => Once(r)
<1>1. PICK r : r = <<x>> \o q
  OBVIOUS
<1>2. PICK n \in Nat : n = Len(q)
  BY LenProperties
<1>3. r \in Seq(S) /\ Len(r) = n + 1 /\ r[1] = x /\ \A k \in 2 .. n + 1 : r[k] = q[k - 1]
  BY <1>1, <1>2
<1>4. \A k \in 1 .. n : k + 1 \in 2 .. n + 1 /\ r[k + 1] = q[k]
  BY <1>3
<1>5. Elems(r) = Elems(q) \cup {x}
  <2>1. ASSUME NEW y \in Elems(r) PROVE y \in Elems(q) \cup {x}
    <3>1. PICK k \in 1 .. n + 1 : y = r[k]
      BY <1>3 DEF Elems
    <3>2. k = 1 \/ (k \in 2 .. n + 1 /\ k - 1 \in 1 .. n)
      BY <1>2
    <3> QED
      BY <1>2, <1>3, <3>1, <3>2 DEF Elems
  <2>2. ASSUME NEW y \in Elems(q) PROVE y \in Elems(r)
    <3>1. PICK k \in 1 .. n : y = q[k]
      BY <1>2 DEF Elems
    <3>2. k + 1 \in 1 .. n + 1 /\ y = r[k + 1]
      BY <1>2, <1>4, <3>1
    <3> QED
      BY <1>3, <3>2 DEF Elems
  <2>3. x \in Elems(r)
    <3>1. 1 \in 1 .. n + 1
      BY <1>2
    <3> QED
      BY <1>3, <3>1 DEF Elems
  <2> QED
    BY <2>1, <2>2, <2>3
<1>6. ASSUME Once(q), x \notin Elems(q) PROVE Once(r)
  <2> SUFFICES ASSUME NEW j \in 1 .. n + 1, NEW k \in 1 .. n + 1, r[j] = r[k] PROVE j = k
    BY <1>3 DEF Once
  <2>1. /\ j = 1 \/ (j \in 2 .. n + 1 /\ j - 1 \in 1 .. n)
        /\ k = 1 \/ (k \in 2 .. n + 1 /\ k - 1 \in 1 .. n)
    BY <1>2
  <2>2. \A i \in 1 .. n : q[i] # x
    BY <1>2, <1>6 DEF Elems
  <2>3. CASE j = 1 \/ k = 1
    BY <1>3, <2>1, <2>2, <2>3
  <2>4. CASE j \in 2 .. n + 1 /\ k \in 2 .. n + 1
    <3>1. q[j - 1] = q[k - 1] /\ j - 1 \in 1 .. n /\ k - 1 \in 1 .. n
      BY <1>3, <2>1, <2>4
    <3>2. j - 1 = k - 1
      BY <1>2, <1>6, <3>1 DEF Once
    <3> QED
      BY <3>2
  <2> QED
    BY <2>1, <2>3, <2>4
<1> QED
  BY <1>1, <1>2, <1>3, <1>5, <1>6

(* A sequence of different places is no longer than there are places, and  *)
(* as long only if it has them all.                                        *)
LEMMA FewPlaces ==
  ASSUME NEW m \in Nat, NEW q \in Seq(1 .. m), Once(q)
  PROVE  Len(q) <= m /\ (Len(q) = m => Elems(q) = 1 .. m)
<1>1. PICK n \in Nat : n = Len(q) /\ q \in [1 .. n -> 1 .. m]
  OBVIOUS
<1>2. q \in Injection(1 .. n, 1 .. m)
  <2>1. \A i, j \in 1 .. n : q[i] = q[j] => i = j
    BY <1>1 DEF Once
  <2> QED
    BY <1>1, <2>1 DEF Injection, IsInjective
<1>3. /\ IsFiniteSet(1 .. n) /\ Cardinality(1 .. n) = n
      /\ IsFiniteSet(1 .. m) /\ Cardinality(1 .. m) = m
  <2>1. ASSUME NEW j \in Nat PROVE IsFiniteSet(1 .. j) /\ Cardinality(1 .. j) = j
    BY FS_Interval
  <2> QED
    BY <2>1
<1>4. n <= m /\ (n = m => q \in Surjection(1 .. n, 1 .. m))
  BY <1>2, <1>3, FS_Injection
<1>5. q \in Surjection(1 .. n, 1 .. m) => Elems(q) = 1 .. m
  BY <1>1 DEF Surjection, Elems
<1> QED
  BY <1>1, <1>4, <1>5

SlabSet(k) ==
  k \in [full : Seq(Slabs), partial : Seq(Slabs), empty : Seq(Slabs), slots : [Slabs -> Seq(1 .. Objs)]]

InLists(k) == Elems(k.full) \cup Elems(k.partial) \cup Elems(k.empty)

(* Every slab is in one place of one list,                                 *)
Lists(k) ==
  /\ SlabSet(k)
  /\ Once(k.full) /\ Once(k.partial) /\ Once(k.empty)
  /\ Elems(k.full) \cap Elems(k.partial) = {}
  /\ Elems(k.full) \cap Elems(k.empty) = {}
  /\ Elems(k.partial) \cap Elems(k.empty) = {}

(* the one that its number of free slots says.                             *)
Counted(k, s) ==
  /\ Once(k.slots[s])
  /\ s \in Elems(k.full) => Len(k.slots[s]) = 0
  /\ s \in Elems(k.partial) => Len(k.slots[s]) \in 1 .. Objs - 1
  /\ s \in Elems(k.empty) => Len(k.slots[s]) = Objs

SlabInv(k) == Lists(k) /\ \A s \in Slabs : Counted(k, s)

(* The objects that are given out.                                         *)
GivenOut(k) == {o \in Objects : o[1] \in InLists(k) /\ o[2] \notin Elems(k.slots[o[1]])}

LEMMA WithoutTrue ==
  ASSUME NEW k, Lists(k), NEW s \in Slabs
  PROVE  /\ Lists(Without(k, s)) /\ Without(k, s).slots = k.slots
         /\ Elems(Without(k, s).full) = Elems(k.full) \ {s}
         /\ Elems(Without(k, s).partial) = Elems(k.partial) \ {s}
         /\ Elems(Without(k, s).empty) = Elems(k.empty) \ {s}
<1>1. SlabSet(k) /\ Once(k.full) /\ Once(k.partial) /\ Once(k.empty)
  BY DEF Lists
<1>2. PICK f, p, e : f = RemoveFirst(k.full, s) /\ p = RemoveFirst(k.partial, s) /\ e = RemoveFirst(k.empty, s)
  OBVIOUS
<1>3. f \in Seq(Slabs) /\ Once(f) /\ Elems(f) = Elems(k.full) \ {s}
  BY <1>1, <1>2, Unlinked DEF SlabSet
<1>4. p \in Seq(Slabs) /\ Once(p) /\ Elems(p) = Elems(k.partial) \ {s}
  BY <1>1, <1>2, Unlinked DEF SlabSet
<1>5. e \in Seq(Slabs) /\ Once(e) /\ Elems(e) = Elems(k.empty) \ {s}
  BY <1>1, <1>2, Unlinked DEF SlabSet
<1>6. PICK r : r = Without(k, s)
  OBVIOUS
<1>7. r = [full |-> f, partial |-> p, empty |-> e, slots |-> k.slots]
  BY <1>1, <1>2, <1>6 DEF Without, SlabSet
<1>8. SlabSet(r)
  BY <1>1, <1>3, <1>4, <1>5, <1>7 DEF SlabSet
<1> QED
  BY <1>3, <1>4, <1>5, <1>6, <1>7, <1>8 DEF Lists

(* A slab that is in no list goes into the one it belongs to.              *)
LEMMA ListingTrue ==
  ASSUME NEW k, Lists(k), NEW s \in Slabs, s \notin InLists(k), Once(k.slots[s]), NEW r, r = Listing(k, s)
  PROVE  /\ Lists(r) /\ r.slots = k.slots /\ InLists(r) = InLists(k) \cup {s} /\ Counted(r, s)
         /\ \A t \in Slabs \ {s} : Counted(k, t) => Counted(r, t)
<1>1. SlabSet(k) /\ k.slots[s] \in Seq(1 .. Objs) /\ Objs \in Nat /\ Objs > 1
  BY SlabAssumption DEF Lists, SlabSet
<1>2. PICK n \in 0 .. Objs : n = Len(k.slots[s])
  <2>1. Len(k.slots[s]) \in Nat /\ Len(k.slots[s]) <= Objs
    BY <1>1, FewPlaces, LenProperties
  <2> QED
    BY <1>1, <2>1
<1>3. PICK f, p, e : f = <<s>> \o k.full /\ p = <<s>> \o k.partial /\ e = <<s>> \o k.empty
  OBVIOUS
<1>4. s \notin Elems(k.full) /\ s \notin Elems(k.partial) /\ s \notin Elems(k.empty)
  BY DEF InLists
<1>5. f \in Seq(Slabs) /\ Once(f) /\ Elems(f) = Elems(k.full) \cup {s}
  BY <1>1, <1>3, <1>4, PutFirst DEF SlabSet, Lists
<1>6. p \in Seq(Slabs) /\ Once(p) /\ Elems(p) = Elems(k.partial) \cup {s}
  BY <1>1, <1>3, <1>4, PutFirst DEF SlabSet, Lists
<1>7. e \in Seq(Slabs) /\ Once(e) /\ Elems(e) = Elems(k.empty) \cup {s}
  BY <1>1, <1>3, <1>4, PutFirst DEF SlabSet, Lists
<1>8. CASE n = 0
  <2>1. r = [k EXCEPT !.full = f]
    BY <1>1, <1>2, <1>3, <1>8 DEF Listing
  <2>2. r.full = f /\ r.partial = k.partial /\ r.empty = k.empty /\ r.slots = k.slots /\ SlabSet(r)
    BY <1>1, <1>5, <2>1 DEF SlabSet
  <2>3. Lists(r)
    BY <1>4, <1>5, <2>2 DEF Lists
  <2>4. InLists(r) = InLists(k) \cup {s}
    BY <1>5, <2>2 DEF InLists
  <2>5. Counted(r, s)
    BY <1>2, <1>4, <1>8, <2>2 DEF Counted
  <2>6. \A t \in Slabs \ {s} : Counted(k, t) => Counted(r, t)
    BY <1>5, <2>2 DEF Counted
  <2> QED
    BY <2>2, <2>3, <2>4, <2>5, <2>6
<1>9. CASE n = Objs
  <2>1. r = [k EXCEPT !.empty = e]
    BY <1>1, <1>2, <1>3, <1>9 DEF Listing
  <2>2. r.full = k.full /\ r.partial = k.partial /\ r.empty = e /\ r.slots = k.slots /\ SlabSet(r)
    BY <1>1, <1>7, <2>1 DEF SlabSet
  <2>3. Lists(r)
    BY <1>4, <1>7, <2>2 DEF Lists
  <2>4. InLists(r) = InLists(k) \cup {s}
    BY <1>7, <2>2 DEF InLists
  <2>5. Counted(r, s)
    BY <1>2, <1>4, <1>9, <2>2 DEF Counted
  <2>6. \A t \in Slabs \ {s} : Counted(k, t) => Counted(r, t)
    BY <1>7, <2>2 DEF Counted
  <2> QED
    BY <2>2, <2>3, <2>4, <2>5, <2>6
<1>10. CASE n # 0 /\ n # Objs
  <2>1. r = [k EXCEPT !.partial = p]
    BY <1>1, <1>2, <1>3, <1>10 DEF Listing
  <2>2. r.full = k.full /\ r.partial = p /\ r.empty = k.empty /\ r.slots = k.slots /\ SlabSet(r)
    BY <1>1, <1>6, <2>1 DEF SlabSet
  <2>3. Lists(r)
    BY <1>4, <1>6, <2>2 DEF Lists
  <2>4. InLists(r) = InLists(k) \cup {s}
    BY <1>6, <2>2 DEF InLists
  <2>5. n \in 1 .. Objs - 1
    BY <1>1, <1>10
  <2>6. Counted(r, s)
    BY <1>2, <1>4, <2>2, <2>5 DEF Counted
  <2>7. \A t \in Slabs \ {s} : Counted(k, t) => Counted(r, t)
    BY <1>6, <2>2 DEF Counted
  <2> QED
    BY <2>2, <2>3, <2>4, <2>6, <2>7
<1> QED
  BY <1>8, <1>9, <1>10

(* A slab gets another list of free slots and moves to where it belongs.   *)
LEMMA Relisted ==
  ASSUME NEW k, Lists(k), NEW s \in Slabs, s \in InLists(k), \A t \in Slabs \ {s} : Counted(k, t),
         NEW q \in Seq(1 .. Objs), Once(q), NEW r, r = Listing([Without(k, s) EXCEPT !.slots[s] = q], s)
  PROVE  SlabInv(r) /\ InLists(r) = InLists(k) /\ r.slots = [k.slots EXCEPT ![s] = q]
<1>1. PICK w : w = Without(k, s)
  OBVIOUS
<1>2. /\ Lists(w) /\ w.slots = k.slots
      /\ Elems(w.full) = Elems(k.full) \ {s}
      /\ Elems(w.partial) = Elems(k.partial) \ {s}
      /\ Elems(w.empty) = Elems(k.empty) \ {s}
  BY <1>1, WithoutTrue
<1>3. PICK slots : slots = [k.slots EXCEPT ![s] = q]
  OBVIOUS
<1>4. SlabSet(k) /\ SlabSet(w)
  BY <1>2 DEF Lists
<1>5. slots \in [Slabs -> Seq(1 .. Objs)] /\ slots[s] = q /\ \A t \in Slabs \ {s} : slots[t] = k.slots[t]
  BY <1>3, <1>4 DEF SlabSet
<1>6. PICK x : x = [w EXCEPT !.slots = slots]
  OBVIOUS
<1>7. x.full = w.full /\ x.partial = w.partial /\ x.empty = w.empty /\ x.slots = slots /\ SlabSet(x)
  BY <1>4, <1>5, <1>6 DEF SlabSet
<1>8. r = Listing(x, s)
  BY <1>1, <1>2, <1>3, <1>6
<1>9. Lists(x)
  BY <1>2, <1>7 DEF Lists
<1>10. s \notin InLists(x) /\ InLists(x) \cup {s} = InLists(k)
  BY <1>2, <1>7 DEF InLists
<1>11. Once(x.slots[s])
  BY <1>5, <1>7
<1>12. \A t \in Slabs \ {s} : Counted(x, t)
  BY <1>2, <1>5, <1>7 DEF Counted
<1>13. /\ Lists(r) /\ r.slots = x.slots /\ InLists(r) = InLists(x) \cup {s} /\ Counted(r, s)
       /\ \A t \in Slabs \ {s} : Counted(x, t) => Counted(r, t)
  BY <1>8, <1>9, <1>10, <1>11, ListingTrue
<1> QED
  BY <1>3, <1>7, <1>10, <1>12, <1>13 DEF SlabInv

LEMMA SameObjects ==
  ASSUME NEW G \in SUBSET Objects, NEW H \in SUBSET Objects,
         \A x \in Slabs : \A i \in 1 .. Objs : <<x, i>> \in G <=> <<x, i>> \in H
  PROVE  G = H
<1>1. ASSUME NEW o \in Objects PROVE o \in G <=> o \in H
  <2>1. PICK x \in Slabs, i \in 1 .. Objs : o = <<x, i>>
    BY DEF Objects
  <2> QED
    BY <2>1
<1> QED
  BY <1>1

LEMMA HeadOff ==
  ASSUME NEW S, NEW q \in Seq(S), q # <<>>, Once(q)
  PROVE  /\ Head(q) \in S /\ Head(q) \in Elems(q) /\ Tail(q) \in Seq(S) /\ Once(Tail(q))
         /\ Elems(Tail(q)) = Elems(q) \ {Head(q)}
<1>1. PICK n \in Nat : n = Len(q) /\ n > 0
  OBVIOUS
<1>2. PICK r : r = Tail(q)
  OBVIOUS
<1>3. r \in Seq(S) /\ Len(r) = n - 1 /\ \A k \in 1 .. n - 1 : r[k] = q[k + 1] /\ k + 1 \in 1 .. n
  BY <1>1, <1>2
<1>4. Head(q) = q[1] /\ 1 \in 1 .. n /\ q[1] \in S
  BY <1>1
<1>5. \A i, j \in 1 .. n : q[i] = q[j] => i = j
  BY <1>1 DEF Once
<1>6. Once(r)
  <2> SUFFICES ASSUME NEW i \in 1 .. n - 1, NEW j \in 1 .. n - 1, r[i] = r[j] PROVE i = j
    BY <1>3 DEF Once
  <2>1. i + 1 = j + 1
    BY <1>3, <1>5
  <2> QED
    BY <2>1
<1>7. ASSUME NEW x \in Elems(r) PROVE x \in Elems(q) \ {q[1]}
  <2>1. PICK k \in 1 .. n - 1 : x = q[k + 1] /\ k + 1 \in 1 .. n
    BY <1>3 DEF Elems
  <2>2. k + 1 # 1
    OBVIOUS
  <2> QED
    BY <1>1, <1>4, <1>5, <2>1, <2>2 DEF Elems
<1>8. ASSUME NEW x \in Elems(q) \ {q[1]} PROVE x \in Elems(r)
  <2>1. PICK k \in 1 .. n : x = q[k]
    BY <1>1 DEF Elems
  <2>2. k - 1 \in 1 .. n - 1 /\ (k - 1) + 1 = k
    BY <1>1, <2>1
  <2>3. x = r[k - 1]
    BY <1>3, <2>1, <2>2
  <2> QED
    BY <1>3, <2>2, <2>3 DEF Elems
<1> QED
  BY <1>1, <1>2, <1>3, <1>4, <1>6, <1>7, <1>8 DEF Elems

LEMMA TakeFromTrue ==
  ASSUME NEW k, SlabInv(k), NEW s \in Slabs, s \in InLists(k), k.slots[s] # <<>>, NEW r, r = TakeFrom(k, s)
  PROVE  /\ SlabInv(r.slab) /\ r.object \in Objects /\ r.object \notin GivenOut(k)
         /\ GivenOut(r.slab) = GivenOut(k) \cup {r.object}
<1>1. Lists(k) /\ SlabSet(k) /\ \A t \in Slabs : Counted(k, t)
  BY DEF SlabInv, Lists
<1>2. PICK q \in Seq(1 .. Objs) : q = k.slots[s]
  BY <1>1 DEF SlabSet
<1>3. Once(q) /\ q # <<>>
  BY <1>1, <1>2 DEF Counted
<1>4. PICK h, t : h = Head(q) /\ t = Tail(q)
  OBVIOUS
<1>5. h \in 1 .. Objs /\ h \in Elems(q) /\ t \in Seq(1 .. Objs) /\ Once(t) /\ Elems(t) = Elems(q) \ {h}
  BY <1>3, <1>4, HeadOff
<1>6. PICK l : l = Listing([Without(k, s) EXCEPT !.slots[s] = t], s)
  OBVIOUS
<1>7. Without(k, s).slots = k.slots
  BY <1>1, WithoutTrue
<1>8. r = [slab |-> l, object |-> <<s, h>>]
  BY <1>2, <1>4, <1>6, <1>7 DEF TakeFrom
<1>9. SlabInv(l) /\ InLists(l) = InLists(k) /\ l.slots = [k.slots EXCEPT ![s] = t]
  BY <1>1, <1>5, <1>6, Relisted
<1>10. <<s, h>> \in Objects /\ <<s, h>> \notin GivenOut(k)
  BY <1>2, <1>5 DEF Objects, GivenOut
<1>11. l.slots[s] = t /\ \A x \in Slabs \ {s} : l.slots[x] = k.slots[x]
  BY <1>1, <1>9 DEF SlabSet
<1>12. GivenOut(l) = GivenOut(k) \cup {<<s, h>>}
  <2>1. ASSUME NEW x \in Slabs, NEW i \in 1 .. Objs
        PROVE  <<x, i>> \in GivenOut(l) <=> <<x, i>> \in GivenOut(k) \cup {<<s, h>>}
    <3>1. <<x, i>> \in GivenOut(l) <=> x \in InLists(l) /\ i \notin Elems(l.slots[x])
      BY DEF GivenOut, Objects
    <3>2. <<x, i>> \in GivenOut(k) <=> x \in InLists(k) /\ i \notin Elems(k.slots[x])
      BY DEF GivenOut, Objects
    <3>3. CASE x = s
      BY <1>2, <1>5, <1>9, <1>11, <3>1, <3>2, <3>3
    <3>4. CASE x # s
      BY <1>9, <1>11, <3>1, <3>2, <3>4
    <3> QED
      BY <3>3, <3>4
  <2>2. PICK G, H : G = GivenOut(l) /\ H = GivenOut(k) \cup {<<s, h>>}
    OBVIOUS
  <2>3. G \in SUBSET Objects /\ H \in SUBSET Objects
    BY <1>10, <2>2 DEF GivenOut
  <2>4. \A x \in Slabs : \A i \in 1 .. Objs : <<x, i>> \in G <=> <<x, i>> \in H
    BY <2>1, <2>2
  <2>5. G = H
    BY <2>3, <2>4, SameObjects
  <2> QED
    BY <2>2, <2>5
<1> QED
  BY <1>8, <1>9, <1>10, <1>12

LEMMA NewSlabTrue ==
  ASSUME NEW k, SlabInv(k), k.partial = <<>>, k.empty = <<>>, NEW n \in NewSlabs(k)
  PROVE  \E s \in Slabs : /\ SlabInv(n) /\ n.empty = <<s>> /\ GivenOut(n) = GivenOut(k)
                          /\ s \in InLists(n) /\ n.slots[s] # <<>>
<1>1. Lists(k) /\ SlabSet(k) /\ \A t \in Slabs : Counted(k, t)
  BY DEF SlabInv, Lists
<1>2. PICK s \in Slabs : s \notin ToSet(Listed(k)) /\ n = [k EXCEPT !.slots[s] = [i \in 1 .. Objs |-> i], !.empty = <<s>>]
  BY DEF NewSlabs
<1>3. k.full \in Seq(Slabs) /\ Listed(k) = k.full
  <2>1. k.full \in Seq(Slabs)
    BY <1>1 DEF SlabSet
  <2> QED
    BY <2>1 DEF Listed
<1>4. s \notin Elems(k.full)
  BY <1>2, <1>3 DEF ToSet, Elems
<1>5. PICK q : q = [i \in 1 .. Objs |-> i]
  OBVIOUS
<1>6. Objs \in Nat /\ Objs > 1
  BY SlabAssumption
<1>7. q \in Seq(1 .. Objs) /\ Len(q) = Objs /\ \A i \in 1 .. Objs : q[i] = i
  BY <1>5, <1>6
<1>8. Once(q) /\ Elems(q) = 1 .. Objs /\ q # <<>>
  BY <1>6, <1>7 DEF Once, Elems
<1>9. PICK e : e = <<s>>
  OBVIOUS
<1>10. e \in Seq(Slabs) /\ Once(e) /\ Elems(e) = {s}
  BY <1>9 DEF Once, Elems
<1>11. PICK slots : slots = [k.slots EXCEPT ![s] = q]
  OBVIOUS
<1>12. n = [k EXCEPT !.slots = slots, !.empty = e]
  BY <1>2, <1>5, <1>9, <1>11
<1>13. slots \in [Slabs -> Seq(1 .. Objs)] /\ slots[s] = q /\ \A x \in Slabs \ {s} : slots[x] = k.slots[x]
  BY <1>1, <1>7, <1>11 DEF SlabSet
<1>14. n.full = k.full /\ n.partial = k.partial /\ n.empty = e /\ n.slots = slots /\ SlabSet(n)
  BY <1>1, <1>10, <1>12, <1>13 DEF SlabSet
<1>15. Elems(k.partial) = {} /\ Elems(k.empty) = {}
  BY DEF Elems
<1>16. Lists(n)
  BY <1>1, <1>4, <1>10, <1>14, <1>15 DEF Lists
<1>17. \A x \in Slabs : Counted(n, x)
  <2>1. Counted(n, s)
    BY <1>4, <1>7, <1>8, <1>13, <1>14, <1>15 DEF Counted
  <2>2. \A x \in Slabs \ {s} : Counted(n, x)
    BY <1>1, <1>10, <1>13, <1>14 DEF Counted
  <2> QED
    BY <2>1, <2>2
<1>18. InLists(n) = InLists(k) \cup {s} /\ s \notin InLists(k)
  BY <1>4, <1>10, <1>14, <1>15 DEF InLists
<1>19. GivenOut(n) = GivenOut(k)
  <2>1. ASSUME NEW x \in Slabs, NEW i \in 1 .. Objs
        PROVE  <<x, i>> \in GivenOut(n) <=> <<x, i>> \in GivenOut(k)
    <3>1. <<x, i>> \in GivenOut(n) <=> x \in InLists(n) /\ i \notin Elems(n.slots[x])
      BY DEF GivenOut, Objects
    <3>2. <<x, i>> \in GivenOut(k) <=> x \in InLists(k) /\ i \notin Elems(k.slots[x])
      BY DEF GivenOut, Objects
    <3>3. CASE x = s
      BY <1>8, <1>13, <1>14, <1>18, <3>1, <3>2, <3>3
    <3>4. CASE x # s
      BY <1>13, <1>14, <1>18, <3>1, <3>2, <3>4
    <3> QED
      BY <3>3, <3>4
  <2>2. GivenOut(n) \subseteq Objects /\ GivenOut(k) \subseteq Objects
    BY DEF GivenOut
  <2> QED
    BY <2>1, <2>2, SameObjects
<1> QED
  BY <1>8, <1>9, <1>13, <1>14, <1>16, <1>17, <1>18, <1>19 DEF SlabInv

(* What slab_alloc gives is an object that nobody has.                     *)
Given(k, r) ==
  /\ SlabInv(r.slab)
  /\ r.object = NoObject => r.slab = k
  /\ r.object # NoObject => /\ r.object \in Objects /\ r.object \notin GivenOut(k)
                            /\ GivenOut(r.slab) = GivenOut(k) \cup {r.object}

LEMMA ObjectThere ==
  ASSUME NEW o \in Objects
  PROVE  o # NoObject
<1>1. PICK s, i : o = <<s, i>>
  BY DEF Objects
<1>2. Len(<<s, i>>) = 2 /\ Len(<<>>) = 0
  OBVIOUS
<1>3. <<s, i>> # <<>>
  BY <1>2
<1> QED
  BY <1>1, <1>3 DEF NoObject

LEMMA SlabAllocTrue ==
  ASSUME NEW k, SlabInv(k), NEW r \in SlabAlloc(k)
  PROVE  Given(k, r)
<1>1. SlabSet(k) /\ \A t \in Slabs : Counted(k, t)
  BY DEF SlabInv, Lists
<1>2. Objs \in Nat /\ Objs > 1
  BY SlabAssumption
<1>3. CASE k.partial # <<>>
  <2>1. PICK s : s = Head(k.partial)
    OBVIOUS
  <2>2. s \in Slabs /\ s \in Elems(k.partial)
    BY <1>1, <1>3, <2>1 DEF SlabSet, Elems
  <2>3. Len(k.slots[s]) \in 1 .. Objs - 1
    BY <1>1, <2>2 DEF Counted
  <2>4. k.slots[s] # <<>> /\ s \in InLists(k)
    BY <2>2, <2>3 DEF InLists
  <2>5. r = TakeFrom(k, s)
    BY <1>3, <2>1 DEF SlabAlloc
  <2> QED
    BY <2>2, <2>4, <2>5, TakeFromTrue, ObjectThere DEF Given
<1>4. CASE k.partial = <<>> /\ k.empty # <<>>
  <2>1. PICK s : s = Head(k.empty)
    OBVIOUS
  <2>2. s \in Slabs /\ s \in Elems(k.empty)
    BY <1>1, <1>4, <2>1 DEF SlabSet, Elems
  <2>3. Len(k.slots[s]) = Objs
    BY <1>1, <2>2 DEF Counted
  <2>4. k.slots[s] # <<>> /\ s \in InLists(k)
    BY <1>2, <2>2, <2>3 DEF InLists
  <2>5. r = TakeFrom(k, s)
    BY <1>4, <2>1 DEF SlabAlloc
  <2> QED
    BY <2>2, <2>4, <2>5, TakeFromTrue, ObjectThere DEF Given
<1>5. CASE k.partial = <<>> /\ k.empty = <<>>
  <2>1. r \in {TakeFrom(n, Head(n.empty)) : n \in NewSlabs(k)} \cup {[slab |-> k, object |-> NoObject]}
    BY <1>5 DEF SlabAlloc
  <2>2. CASE r = [slab |-> k, object |-> NoObject]
    BY <2>2 DEF Given
  <2>3. CASE r \in {TakeFrom(n, Head(n.empty)) : n \in NewSlabs(k)}
    <3>1. PICK n \in NewSlabs(k) : r = TakeFrom(n, Head(n.empty))
      BY <2>3
    <3>2. PICK s \in Slabs : /\ SlabInv(n) /\ n.empty = <<s>> /\ GivenOut(n) = GivenOut(k)
                             /\ s \in InLists(n) /\ n.slots[s] # <<>>
      BY <1>5, NewSlabTrue
    <3>3. r = TakeFrom(n, s)
      BY <3>1, <3>2
    <3> QED
      BY <3>2, <3>3, TakeFromTrue, ObjectThere DEF Given
  <2> QED
    BY <2>1, <2>2, <2>3
<1> QED
  BY <1>3, <1>4, <1>5

LEMMA SlabFreeTrue ==
  ASSUME NEW k, SlabInv(k), NEW o \in GivenOut(k)
  PROVE  SlabInv(SlabFree(k, o)) /\ GivenOut(SlabFree(k, o)) = GivenOut(k) \ {o}
<1>1. Lists(k) /\ SlabSet(k) /\ \A t \in Slabs : Counted(k, t)
  BY DEF SlabInv, Lists
<1>2. PICK s \in Slabs, h \in 1 .. Objs : o = <<s, h>>
  BY DEF GivenOut, Objects
<1>3. PICK q \in Seq(1 .. Objs) : q = k.slots[s]
  BY <1>1 DEF SlabSet
<1>4. s \in InLists(k) /\ h \notin Elems(q) /\ Once(q)
  BY <1>1, <1>2, <1>3 DEF GivenOut, Counted
<1>5. PICK t : t = <<h>> \o q
  OBVIOUS
<1>6. t \in Seq(1 .. Objs) /\ Once(t) /\ Elems(t) = Elems(q) \cup {h}
  <2>1. PICK S : S = 1 .. Objs
    OBVIOUS
  <2>2. q \in Seq(S) /\ h \in S
    BY <2>1
  <2>3. t \in Seq(S) /\ Elems(t) = Elems(q) \cup {h} /\ (Once(q) /\ h \notin Elems(q) => Once(t))
    BY <1>5, <2>2, PutFirst
  <2> QED
    BY <1>4, <2>1, <2>3, Zenon
<1>7. PICK l : l = Listing([Without(k, s) EXCEPT !.slots[s] = t], s)
  OBVIOUS
<1>8. Without(k, s).slots = k.slots
  BY <1>1, WithoutTrue
<1>9. SlabFree(k, o) = l
  BY <1>2, <1>3, <1>5, <1>7, <1>8 DEF SlabFree
<1>10. SlabInv(l) /\ InLists(l) = InLists(k) /\ l.slots = [k.slots EXCEPT ![s] = t]
  BY <1>1, <1>4, <1>6, <1>7, Relisted
<1>11. l.slots[s] = t /\ \A x \in Slabs \ {s} : l.slots[x] = k.slots[x]
  BY <1>1, <1>10 DEF SlabSet
<1>12. GivenOut(l) = GivenOut(k) \ {o}
  <2>1. ASSUME NEW x \in Slabs, NEW i \in 1 .. Objs
        PROVE  <<x, i>> \in GivenOut(l) <=> <<x, i>> \in GivenOut(k) \ {o}
    <3>1. <<x, i>> \in GivenOut(l) <=> x \in InLists(l) /\ i \notin Elems(l.slots[x])
      BY DEF GivenOut, Objects
    <3>2. <<x, i>> \in GivenOut(k) <=> x \in InLists(k) /\ i \notin Elems(k.slots[x])
      BY DEF GivenOut, Objects
    <3>3. CASE x = s
      BY <1>2, <1>3, <1>6, <1>10, <1>11, <3>1, <3>2, <3>3
    <3>4. CASE x # s
      BY <1>2, <1>10, <1>11, <3>1, <3>2, <3>4
    <3> QED
      BY <3>3, <3>4
  <2>2. PICK G, H : G = GivenOut(l) /\ H = GivenOut(k) \ {o}
    OBVIOUS
  <2>3. G \in SUBSET Objects /\ H \in SUBSET Objects
    BY <2>2 DEF GivenOut
  <2>4. \A x \in Slabs : \A i \in 1 .. Objs : <<x, i>> \in G <=> <<x, i>> \in H
    BY <2>1, <2>2
  <2>5. G = H
    BY <2>3, <2>4, SameObjects
  <2> QED
    BY <2>2, <2>5
<1> QED
  BY <1>9, <1>10, <1>12

-----------------------------------------------------------------------------
(* Processes and their areas *)

ObjsOf(a) == {a[i].obj : i \in 1 .. Len(a)}

(* The areas of a process ascend and have an object each.                  *)
AreasTrue(a) ==
  /\ a \in Seq(Area)
  /\ \A i, j \in 1 .. Len(a) : i < j => a[i].start <= a[j].start
  /\ \A i, j \in 1 .. Len(a) : a[i].obj = a[j].obj => i = j

LEMMA NoAreas ==
  ASSUME NEW a, a = <<>>
  PROVE  AreasTrue(a) /\ ObjsOf(a) = {}
BY DEF AreasTrue, ObjsOf

LEMMA SortedTrue ==
  ASSUME NEW a, AreasTrue(a), NEW v \in Area, v.obj \notin ObjsOf(a), NEW r, r = Sorted(a, v)
  PROVE  AreasTrue(r) /\ ObjsOf(r) = ObjsOf(a) \cup {v.obj}
<1>1. a \in Seq(Area)
  BY DEF AreasTrue
<1>2. PICK n \in Nat : n = Len(a) /\ \A i \in 1 .. n : a[i] \in Area
  BY <1>1
<1>3. \A w \in Area : w.start \in Nat
  BY ProcessAssumption DEF Area
<1>4. PICK I \in SUBSET (1 .. n) : I = {i \in 1 .. n : a[i].start >= v.start}
  OBVIOUS
<1>5. PICK p \in 1 .. n + 1 : /\ \A i \in 1 .. n : i < p => a[i].start < v.start
                              /\ \A i \in 1 .. n : i = p => a[i].start >= v.start
                              /\ r = InsertAt(a, p, v)
  <2>1. CASE I = {}
    <3>1. SelectInSeq(a, LAMBDA w : w.start >= v.start) = 0
      BY <1>2, <1>4, <2>1 DEF SelectInSeq
    <3>2. r = InsertAt(a, n + 1, v)
      BY <1>2, <3>1 DEF Sorted
    <3>3. \A i \in 1 .. n : a[i].start < v.start
      BY <1>2, <1>3, <1>4, <2>1
    <3>4. n + 1 \in 1 .. n + 1
      OBVIOUS
    <3> QED
      BY <3>2, <3>3, <3>4
  <2>2. CASE I # {}
    <3>1. SelectInSeq(a, LAMBDA w : w.start >= v.start) = Min(I)
      BY <1>2, <1>4, <2>2 DEF SelectInSeq
    <3>2. PICK p : p = Min(I)
      OBVIOUS
    <3>3. I \subseteq Nat
      OBVIOUS
    <3>4. p \in I /\ \A i \in I : p <= i
      BY <2>2, <3>2, <3>3, MinFacts
    <3>5. p \in 1 .. n /\ p # 0
      BY <3>4
    <3>6. r = InsertAt(a, p, v)
      BY <3>1, <3>2, <3>5 DEF Sorted
    <3>7. \A i \in 1 .. n : i < p => a[i].start < v.start
      <4> SUFFICES ASSUME NEW i \in 1 .. n, i < p PROVE a[i].start < v.start
        OBVIOUS
      <4>1. i \notin I
        BY <3>4, <3>5
      <4>2. a[i].start \in Nat /\ v.start \in Nat
        BY <1>2, <1>3
      <4> QED
        BY <1>4, <4>1, <4>2
    <3>8. \A i \in 1 .. n : i = p => a[i].start >= v.start
      BY <1>4, <3>4
    <3>9. p \in 1 .. n + 1
      BY <3>5
    <3> QED
      BY <3>6, <3>7, <3>8, <3>9
  <2> QED
    BY <2>1, <2>2
<1>6. \A i \in 1 .. n : i >= p => a[i].start >= v.start
  <2> SUFFICES ASSUME NEW i \in 1 .. n, i >= p PROVE a[i].start >= v.start
    OBVIOUS
  <2>1. p \in 1 .. n /\ a[p].start >= v.start
    BY <1>5
  <2>2. p < i => a[p].start <= a[i].start
    BY <1>2, <2>1 DEF AreasTrue
  <2>3. a[i].start \in Nat /\ a[p].start \in Nat /\ v.start \in Nat
    BY <1>2, <1>3, <2>1
  <2> QED
    BY <2>1, <2>2, <2>3
<1>7. /\ r \in Seq(Area) /\ Len(r) = n + 1
      /\ \A k \in 1 .. n + 1 : r[k] = IF k < p THEN a[k] ELSE IF k = p THEN v ELSE a[k - 1]
  <2>1. r = PutIn(a, p, v)
    BY <1>5 DEF InsertAt, PutIn
  <2> QED
    BY <1>1, <1>2, <2>1, Inserting, SMTT(30)
<1>8. /\ \A k \in 1 .. n + 1 : k < p => k \in 1 .. n /\ r[k] = a[k]
      /\ r[p] = v
      /\ \A k \in 1 .. n + 1 : k > p => k - 1 \in 1 .. n /\ r[k] = a[k - 1]
  BY <1>7
<1>9. \A i, j \in 1 .. n + 1 : i < j => r[i].start <= r[j].start
  <2> SUFFICES ASSUME NEW i \in 1 .. n + 1, NEW j \in 1 .. n + 1, i < j PROVE r[i].start <= r[j].start
    OBVIOUS
  <2>1. \A x, y \in 1 .. n : x <= y => a[x].start <= a[y].start /\ a[x].start \in Nat /\ a[y].start \in Nat
    <3> SUFFICES ASSUME NEW x \in 1 .. n, NEW y \in 1 .. n, x <= y
                 PROVE  a[x].start <= a[y].start /\ a[x].start \in Nat /\ a[y].start \in Nat
      OBVIOUS
    <3>1. a[x].start \in Nat /\ a[y].start \in Nat
      BY <1>2, <1>3
    <3>2. x < y => a[x].start <= a[y].start
      BY <1>2 DEF AreasTrue
    <3> QED
      BY <3>1, <3>2
  <2>2. v.start \in Nat
    BY <1>3
  <2>3. CASE j < p
    <3>1. i < p
      BY <2>3
    <3> QED
      BY <1>8, <2>1, <2>3, <3>1
  <2>4. CASE j = p
    <3>1. i < p
      BY <2>4
    <3>2. i \in 1 .. n /\ r[i] = a[i] /\ a[i].start < v.start /\ a[i].start \in Nat
      BY <1>5, <1>8, <2>1, <3>1
    <3> QED
      BY <1>8, <2>2, <2>4, <3>2
  <2>5. CASE j > p /\ i < p
    <3>1. j - 1 \in 1 .. n /\ r[j] = a[j - 1] /\ i \in 1 .. n /\ r[i] = a[i] /\ i <= j - 1
      BY <1>8, <2>5
    <3> QED
      BY <2>1, <3>1
  <2>6. CASE j > p /\ i = p
    <3>1. j - 1 \in 1 .. n /\ r[j] = a[j - 1] /\ j - 1 >= p
      BY <1>8, <2>6
    <3>2. a[j - 1].start >= v.start /\ a[j - 1].start \in Nat
      BY <1>6, <2>1, <3>1
    <3> QED
      BY <1>8, <2>2, <2>6, <3>1, <3>2
  <2>7. CASE i > p
    <3>1. j > p
      BY <2>7
    <3>2. i - 1 \in 1 .. n /\ r[i] = a[i - 1] /\ j - 1 \in 1 .. n /\ r[j] = a[j - 1] /\ i - 1 <= j - 1
      BY <1>8, <2>7, <3>1
    <3> QED
      BY <2>1, <3>2
  <2> QED
    BY <2>3, <2>4, <2>5, <2>6, <2>7
<1>10. \A i, j \in 1 .. n : a[i].obj = a[j].obj => i = j
  BY <1>2 DEF AreasTrue
<1>11. \A i \in 1 .. n : a[i].obj # v.obj
  BY <1>2 DEF ObjsOf
<1>12. ASSUME NEW i \in 1 .. n + 1, NEW j \in 1 .. n + 1, r[i].obj = r[j].obj PROVE i = j
  <2>1. CASE i = p \/ j = p
    BY <1>8, <1>11, <1>12, <2>1
  <2>2. CASE i # p /\ j # p
    <3>1. PICK x \in 1 .. n : x = (IF i < p THEN i ELSE i - 1) /\ r[i] = a[x]
      BY <1>8, <2>2
    <3>2. PICK y \in 1 .. n : y = (IF j < p THEN j ELSE j - 1) /\ r[j] = a[y]
      BY <1>8, <2>2
    <3>3. x = y
      BY <1>10, <1>12, <3>1, <3>2
    <3> QED
      BY <2>2, <3>1, <3>2, <3>3
  <2> QED
    BY <2>1, <2>2
<1>13. AreasTrue(r)
  BY <1>7, <1>9, <1>12 DEF AreasTrue
<1>14. ASSUME NEW o \in ObjsOf(r) PROVE o \in ObjsOf(a) \cup {v.obj}
  <2>1. PICK k \in 1 .. n + 1 : o = r[k].obj
    BY <1>7 DEF ObjsOf
  <2>2. k = p \/ k < p \/ k > p
    OBVIOUS
  <2> QED
    BY <1>2, <1>8, <2>1, <2>2 DEF ObjsOf
<1>15. ASSUME NEW o \in ObjsOf(a) PROVE o \in ObjsOf(r)
  <2>1. PICK k \in 1 .. n : o = a[k].obj
    BY <1>2 DEF ObjsOf
  <2>2. PICK x \in 1 .. n + 1 : r[x] = a[k]
    <3>1. CASE k < p
      <4>1. k \in 1 .. n + 1 /\ r[k] = a[k]
        BY <1>8, <3>1
      <4> QED
        BY <4>1
    <3>2. CASE k >= p
      <4>1. k + 1 \in 1 .. n + 1 /\ k + 1 > p /\ (k + 1) - 1 = k
        BY <3>2
      <4>2. r[k + 1] = a[k]
        BY <1>8, <4>1
      <4> QED
        BY <4>1, <4>2
    <3> QED
      BY <3>1, <3>2
  <2> QED
    BY <1>7, <2>1, <2>2 DEF ObjsOf
<1>16. v.obj \in ObjsOf(r)
  BY <1>7, <1>8 DEF ObjsOf
<1> QED
  BY <1>13, <1>14, <1>15, <1>16

(* A new area takes an object that nobody had, or there is none.           *)
Widened(k, a, r) ==
  /\ SlabInv(r.slab) /\ AreasTrue(r.areas)
  /\ \E N \in SUBSET Objects : /\ N \cap GivenOut(k) = {} /\ GivenOut(r.slab) = GivenOut(k) \cup N
                               /\ ObjsOf(r.areas) = ObjsOf(a) \cup N

LEMMA VmaInsertTrue ==
  ASSUME NEW k, SlabInv(k), NEW a, AreasTrue(a), ObjsOf(a) \subseteq GivenOut(k),
         NEW s \in Bounds, NEW e \in Bounds, NEW w \in BOOLEAN, NEW r \in VmaInsert(k, a, s, e, w)
  PROVE  Widened(k, a, r)
<1>1. PICK g \in SlabAlloc(k) :
        r = IF g.object = NoObject THEN [slab |-> k, areas |-> a]
            ELSE [slab |-> g.slab, areas |-> Sorted(a, [obj |-> g.object, start |-> s, end |-> e, write |-> w])]
  BY DEF VmaInsert
<1>2. Given(k, g)
  BY <1>1, SlabAllocTrue
<1>3. CASE g.object = NoObject
  <2>1. r.slab = k /\ r.areas = a
    BY <1>1, <1>3
  <2>2. {} \in SUBSET Objects /\ {} \cap GivenOut(k) = {} /\ GivenOut(r.slab) = GivenOut(k) \cup {}
        /\ ObjsOf(r.areas) = ObjsOf(a) \cup {}
    BY <2>1
  <2> QED
    BY <2>1, <2>2 DEF Widened
<1>4. CASE g.object # NoObject
  <2>1. /\ SlabInv(g.slab) /\ g.object \in Objects /\ g.object \notin GivenOut(k)
        /\ GivenOut(g.slab) = GivenOut(k) \cup {g.object}
    BY <1>2, <1>4 DEF Given
  <2>2. PICK v : v = [obj |-> g.object, start |-> s, end |-> e, write |-> w]
    OBVIOUS
  <2>3. v \in Area /\ v.obj = g.object
    BY <2>1, <2>2 DEF Area
  <2>4. r.slab = g.slab /\ r.areas = Sorted(a, v)
    BY <1>1, <1>4, <2>2
  <2>5. v.obj \notin ObjsOf(a)
    BY <2>1, <2>3
  <2>6. AreasTrue(r.areas) /\ ObjsOf(r.areas) = ObjsOf(a) \cup {v.obj}
    BY <2>3, <2>4, <2>5, SortedTrue
  <2>7. PICK N : N = {g.object}
    OBVIOUS
  <2>8. N \in SUBSET Objects /\ N \cap GivenOut(k) = {} /\ GivenOut(r.slab) = GivenOut(k) \cup N
        /\ ObjsOf(r.areas) = ObjsOf(a) \cup N
    BY <2>1, <2>3, <2>4, <2>6, <2>7
  <2> QED
    BY <2>1, <2>4, <2>6, <2>8 DEF Widened
<1> QED
  BY <1>3, <1>4

(* The ways a copy may come out, from the slabs k on.                      *)
CopyTrue(k, o) ==
  /\ SlabInv(o.slab) /\ AreasTrue(o.areas)
  /\ ObjsOf(o.areas) \cap GivenOut(k) = {}
  /\ GivenOut(o.slab) = GivenOut(k) \cup ObjsOf(o.areas)

CopySet(k) ==
  {o \in [slab : [full : Seq(Slabs), partial : Seq(Slabs), empty : Seq(Slabs), slots : [Slabs -> Seq(1 .. Objs)]],
          areas : Seq(Area)] : CopyTrue(k, o)}

LEMMA CopyStep ==
  ASSUME NEW k, NEW o \in CopySet(k), NEW v \in Area, NEW r \in VmaInsert(o.slab, o.areas, v.start, v.end, FALSE)
  PROVE  r \in CopySet(k)
<1>1. CopyTrue(k, o)
  BY DEF CopySet
<1>2. PICK ks, a : ks = o.slab /\ a = o.areas
  OBVIOUS
<1>3. SlabInv(ks) /\ AreasTrue(a) /\ ObjsOf(a) \cap GivenOut(k) = {} /\ GivenOut(ks) = GivenOut(k) \cup ObjsOf(a)
  BY <1>1, <1>2 DEF CopyTrue
<1>4. PICK s \in Bounds, e \in Bounds : s = v.start /\ e = v.end
  BY DEF Area
<1>5. FALSE \in BOOLEAN /\ ObjsOf(a) \subseteq GivenOut(ks) /\ r \in VmaInsert(ks, a, s, e, FALSE)
  BY <1>2, <1>3, <1>4
<1>6. Widened(ks, a, r)
  BY <1>3, <1>5, VmaInsertTrue
<1>7. PICK N \in SUBSET Objects : N \cap GivenOut(ks) = {} /\ GivenOut(r.slab) = GivenOut(ks) \cup N
                                  /\ ObjsOf(r.areas) = ObjsOf(a) \cup N
  BY <1>6 DEF Widened
<1>8. SlabInv(r.slab) /\ AreasTrue(r.areas)
  BY <1>6 DEF Widened
<1>9. CopyTrue(k, r)
  BY <1>3, <1>7, <1>8 DEF CopyTrue
<1>10. \E ka, aa : r = [slab |-> ka, areas |-> aa]
  <2>1. PICK g \in SlabAlloc(ks) :
          r = IF g.object = NoObject THEN [slab |-> ks, areas |-> a]
              ELSE [slab |-> g.slab, areas |-> Sorted(a, [obj |-> g.object, start |-> s, end |-> e, write |-> FALSE])]
    BY <1>5 DEF VmaInsert
  <2> QED
    BY <2>1
<1>11. r.slab \in [full : Seq(Slabs), partial : Seq(Slabs), empty : Seq(Slabs), slots : [Slabs -> Seq(1 .. Objs)]]
  BY <1>8 DEF SlabInv, Lists, SlabSet
<1>12. r.areas \in Seq(Area)
  BY <1>8 DEF AreasTrue
<1>13. r \in [slab : [full : Seq(Slabs), partial : Seq(Slabs), empty : Seq(Slabs), slots : [Slabs -> Seq(1 .. Objs)]],
              areas : Seq(Area)]
  BY <1>10, <1>11, <1>12
<1> QED
  BY <1>9, <1>13 DEF CopySet

Spread(outs, v) == UNION {VmaInsert(o.slab, o.areas, v.start, v.end, FALSE) : o \in outs}

LEMMA CopiesTrue ==
  ASSUME NEW k, k = slab, SlabInv(k), NEW areas \in Seq(Area), NEW c \in Copies(areas)
  PROVE  c \in CopySet(k)
<1>1. PICK n : n = Len(areas)
  OBVIOUS
<1>2. n \in Nat /\ DOMAIN areas = 1 .. n /\ \A i \in 1 .. n : areas[i] \in Area
  BY <1>1
<1>3. PICK V, base : V = SUBSET CopySet(k) /\ base = {[slab |-> k, areas |-> <<>>]}
  OBVIOUS
<1>4. base \in V
  <2>1. PICK o : o = [slab |-> k, areas |-> <<>>]
    OBVIOUS
  <2>2. o.slab = k /\ o.areas = <<>>
    BY <2>1
  <2>3. AreasTrue(o.areas) /\ ObjsOf(o.areas) = {}
    BY <2>2, NoAreas
  <2>4. CopyTrue(k, o)
    BY <2>2, <2>3 DEF CopyTrue
  <2>5. o \in [slab : [full : Seq(Slabs), partial : Seq(Slabs), empty : Seq(Slabs), slots : [Slabs -> Seq(1 .. Objs)]],
               areas : Seq(Area)]
    <3>1. k \in [full : Seq(Slabs), partial : Seq(Slabs), empty : Seq(Slabs), slots : [Slabs -> Seq(1 .. Objs)]]
      BY DEF SlabInv, Lists, SlabSet
    <3> QED
      BY <2>1, <3>1
  <2>6. o \in CopySet(k)
    BY <2>4, <2>5 DEF CopySet
  <2> QED
    BY <1>3, <2>1, <2>6
<1>5. ASSUME NEW outs \in V, NEW v \in Area PROVE Spread(outs, v) \in V
  <2>1. ASSUME NEW r \in Spread(outs, v) PROVE r \in CopySet(k)
    <3>1. PICK o \in outs : r \in VmaInsert(o.slab, o.areas, v.start, v.end, FALSE)
      BY DEF Spread
    <3>2. o \in CopySet(k)
      BY <1>3
    <3> QED
      BY <3>1, <3>2, CopyStep
  <2> QED
    BY <1>3, <2>1
<1>6. PICK step : step = [x \in (1 .. n) \X V |-> Spread(x[2], areas[x[1]])]
  OBVIOUS
<1>7. step \in [(1 .. n) \X V -> V]
  <2>1. ASSUME NEW x \in (1 .. n) \X V PROVE Spread(x[2], areas[x[1]]) \in V
    <3>1. areas[x[1]] \in Area /\ x[2] \in V
      BY <1>2
    <3> QED
      BY <1>5, <3>1
  <2> QED
    BY <1>6, <2>1
<1>8. PICK it \in [SUBSET (1 .. n) -> V] : IsTable(it, n, base, step)
  BY <1>2, <1>4, <1>7, FoldTable
<1>9. it = [t \in SUBSET (DOMAIN areas) |->
              IF t = {} THEN base ELSE Spread(it[t \ {Max(t)}], areas[Max(t)])]
  <2>1. ASSUME NEW t \in SUBSET (1 .. n), t # {}
        PROVE  step[<<Max(t), it[t \ {Max(t)}]>>] = Spread(it[t \ {Max(t)}], areas[Max(t)])
    <3>1. Max(t) \in 1 .. n
      BY <1>2, <2>1, MaxFacts
    <3>2. it[t \ {Max(t)}] \in V
      BY <1>8
    <3> QED
      BY <1>6, <3>1, <3>2
  <2>2. \A t \in SUBSET (1 .. n) :
          it[t] = IF t = {} THEN base ELSE Spread(it[t \ {Max(t)}], areas[Max(t)])
    BY <1>8, <2>1 DEF IsTable
  <2> QED
    BY <1>2, <2>2
<1>10. PICK fold : /\ fold = [t \in SUBSET (DOMAIN areas) |->
                                IF t = {} THEN base ELSE Spread(fold[t \ {Max(t)}], areas[Max(t)])]
                   /\ Copies(areas) = fold[DOMAIN areas]
  <2> DEFINE made == CHOOSE g : g = [t \in SUBSET (DOMAIN areas) |->
              IF t = {} THEN base ELSE Spread(g[t \ {Max(t)}], areas[Max(t)])]
  <2>1. made = [t \in SUBSET (DOMAIN areas) |->
              IF t = {} THEN base ELSE Spread(made[t \ {Max(t)}], areas[Max(t)])]
    BY <1>9
  <2>2. Copies(areas) = made[DOMAIN areas]
    BY <1>3 DEF Copies, Spread, FoldLeft, MapThenFoldSet
  <2> HIDE DEF made
  <2> QED
    BY <2>1, <2>2
<1>11. fold[{}] = base
  BY <1>10
<1>12. ASSUME NEW t \in SUBSET (1 .. n), t # {}, fold[t \ {Max(t)}] \in V
       PROVE  fold[t] = step[<<Max(t), fold[t \ {Max(t)}]>>]
  <2>1. Max(t) \in 1 .. n
    BY <1>2, <1>12, MaxFacts
  <2>2. step[<<Max(t), fold[t \ {Max(t)}]>>] = Spread(fold[t \ {Max(t)}], areas[Max(t)])
    BY <1>6, <1>12, <2>1
  <2> QED
    BY <1>2, <1>10, <1>12, <2>2
<1>13. PICK f \in [0 .. n -> V] : Accumulates(f, n, base, step, fold)
  <2>1. Tabulates(fold, n, V, step)
    BY <1>12 DEF Tabulates
  <2> QED
    BY <1>2, <1>4, <1>7, <1>11, <2>1, FoldAlong
<1>14. Copies(areas) = f[n]
  BY <1>2, <1>10, <1>13 DEF Accumulates
<1>15. f[n] \in V
  BY <1>2
<1> QED
  BY <1>3, <1>14, <1>15

(* How many areas there are.                                               *)
ProcSet == [ppid : 0 .. PROC_MAX, areas : Seq(Area)]
Total(ps) == FoldLeft(LAMBDA n, p : n + Len(p.areas), 0, ps)

LEMMA TotalSteps ==
  ASSUME NEW ps \in Seq(ProcSet)
  PROVE  \E f \in [0 .. Len(ps) -> Nat] :
           /\ f[0] = 0
           /\ \A k \in 1 .. Len(ps) : f[k] = f[k - 1] + Len(ps[k].areas)
           /\ Total(ps) = f[Len(ps)]
<1>1. PICK n : n = Len(ps)
  OBVIOUS
<1>2. n \in Nat /\ DOMAIN ps = 1 .. n /\ \A i \in 1 .. n : Len(ps[i].areas) \in Nat
  BY <1>1 DEF ProcSet
<1>3. PICK step : step = [x \in (1 .. n) \X Nat |-> x[2] + Len(ps[x[1]].areas)]
  OBVIOUS
<1>4. step \in [(1 .. n) \X Nat -> Nat]
  <2>1. ASSUME NEW x \in (1 .. n) \X Nat PROVE x[2] + Len(ps[x[1]].areas) \in Nat
    <3>1. x[1] \in 1 .. n /\ x[2] \in Nat
      OBVIOUS
    <3>2. Len(ps[x[1]].areas) \in Nat
      BY <1>2, <3>1
    <3> QED
      BY <3>1, <3>2
  <2> QED
    BY <1>3, <2>1
<1>5. PICK it \in [SUBSET (1 .. n) -> Nat] : IsTable(it, n, 0, step)
  <2>1. 0 \in Nat
    OBVIOUS
  <2> QED
    BY <1>2, <1>4, <2>1, FoldTable, Zenon
<1>6. ASSUME NEW t \in SUBSET (1 .. n), t # {}
      PROVE  step[<<Max(t), it[t \ {Max(t)}]>>] = it[t \ {Max(t)}] + Len(ps[Max(t)].areas)
  <2>1. Max(t) \in 1 .. n
    BY <1>2, <1>6, MaxFacts
  <2>2. it[t \ {Max(t)}] \in Nat
    BY <1>5
  <2> QED
    BY <1>3, <2>1, <2>2
<1>7. it = [t \in SUBSET (DOMAIN ps) |-> IF t = {} THEN 0 ELSE it[t \ {Max(t)}] + Len(ps[Max(t)].areas)]
  <2>1. \A t \in SUBSET (1 .. n) : it[t] = IF t = {} THEN 0 ELSE it[t \ {Max(t)}] + Len(ps[Max(t)].areas)
    BY <1>5, <1>6 DEF IsTable
  <2> QED
    BY <1>2, <2>1
<1>8. PICK fold : /\ fold = [t \in SUBSET (DOMAIN ps) |->
                                IF t = {} THEN 0 ELSE fold[t \ {Max(t)}] + Len(ps[Max(t)].areas)]
                   /\ Total(ps) = fold[DOMAIN ps]
  <2> DEFINE made == CHOOSE g : g = [t \in SUBSET (DOMAIN ps) |->
                                       IF t = {} THEN 0 ELSE g[t \ {Max(t)}] + Len(ps[Max(t)].areas)]
  <2>1. made = [t \in SUBSET (DOMAIN ps) |-> IF t = {} THEN 0 ELSE made[t \ {Max(t)}] + Len(ps[Max(t)].areas)]
    BY <1>7
  <2>2. Total(ps) = made[DOMAIN ps]
    BY DEF Total, FoldLeft, MapThenFoldSet
  <2> HIDE DEF made
  <2> QED
    BY <2>1, <2>2
<1>9. fold[{}] = 0
  BY <1>8
<1>10. ASSUME NEW t \in SUBSET (1 .. n), t # {}, fold[t \ {Max(t)}] \in Nat
       PROVE  fold[t] = step[<<Max(t), fold[t \ {Max(t)}]>>]
  <2>1. Max(t) \in 1 .. n
    BY <1>2, <1>10, MaxFacts
  <2>2. step[<<Max(t), fold[t \ {Max(t)}]>>] = fold[t \ {Max(t)}] + Len(ps[Max(t)].areas)
    BY <1>3, <1>10, <2>1
  <2>3. t \in SUBSET (DOMAIN ps)
    BY <1>2
  <2>4. fold[t] = fold[t \ {Max(t)}] + Len(ps[Max(t)].areas)
    BY <1>8, <1>10, <2>3
  <2> QED
    BY <2>2, <2>4
<1>11. PICK f \in [0 .. n -> Nat] : Accumulates(f, n, 0, step, fold)
  <2>1. 0 \in Nat
    OBVIOUS
  <2>2. Tabulates(fold, n, Nat, step)
    BY <1>10 DEF Tabulates
  <2> QED
    BY <1>2, <1>4, <1>9, <2>1, <2>2, FoldAlong
<1>12. \A k \in 1 .. n : f[k] = f[k - 1] + Len(ps[k].areas)
  <2> SUFFICES ASSUME NEW k \in 1 .. n PROVE f[k] = f[k - 1] + Len(ps[k].areas)
    OBVIOUS
  <2>1. f[k - 1] \in Nat
    BY <1>2
  <2>2. step[<<k, f[k - 1]>>] = f[k - 1] + Len(ps[k].areas)
    BY <1>3, <2>1
  <2> QED
    BY <1>11, <2>2 DEF Accumulates
<1> QED
  BY <1>1, <1>2, <1>8, <1>11, <1>12 DEF Accumulates

(* The process table: the objects that are given out are those of areas,   *)
(* each of one area of one process.                                        *)
ProcTrue(ps, k) ==
  /\ ps \in Seq(ProcSet) /\ Len(ps) <= PROC_MAX
  /\ SlabInv(k)
  /\ \A p \in 1 .. Len(ps) : AreasTrue(ps[p].areas)
  /\ \A p, q \in 1 .. Len(ps) : p # q => ObjsOf(ps[p].areas) \cap ObjsOf(ps[q].areas) = {}
  /\ GivenOut(k) = UNION {ObjsOf(ps[p].areas) : p \in 1 .. Len(ps)}

LEMMA ReplaceTrue ==
  ASSUME NEW ps, NEW k, ProcTrue(ps, k), NEW p \in 1 .. Len(ps), NEW a, a = ps[p].areas,
         NEW b, AreasTrue(b), NEW l, SlabInv(l),
         ObjsOf(b) \cap (GivenOut(k) \ ObjsOf(a)) = {},
         GivenOut(l) = (GivenOut(k) \ ObjsOf(a)) \cup ObjsOf(b)
  PROVE  ProcTrue([ps EXCEPT ![p].areas = b], l)
<1>1. PICK n \in Nat : n = Len(ps) /\ ps \in [1 .. n -> ProcSet] /\ n <= PROC_MAX
  BY DEF ProcTrue
<1>2. PICK r : r = [ps EXCEPT ![p].areas = b]
  OBVIOUS
<1>3. PICK x : x = [ps[p] EXCEPT !.areas = b]
  OBVIOUS
<1>4. x \in ProcSet /\ x.areas = b
  BY <1>1, <1>3 DEF ProcSet, AreasTrue
<1>5. r = [ps EXCEPT ![p] = x]
  BY <1>2, <1>3
<1>6. r \in [1 .. n -> ProcSet] /\ r[p] = x /\ \A q \in 1 .. n : q # p => r[q] = ps[q]
  BY <1>1, <1>4, <1>5
<1>7. r \in Seq(ProcSet) /\ Len(r) = n
  BY <1>1, <1>6
<1>8. ASSUME NEW q \in 1 .. n, q # p
      PROVE  ObjsOf(ps[q].areas) \subseteq GivenOut(k) \ ObjsOf(a)
  <2>1. ObjsOf(ps[q].areas) \cap ObjsOf(ps[p].areas) = {}
    BY <1>1, <1>8, Zenon DEF ProcTrue
  <2>2. ObjsOf(ps[q].areas) \subseteq GivenOut(k)
    <3>1. GivenOut(k) = UNION {ObjsOf(ps[i].areas) : i \in 1 .. n}
      BY <1>1, Zenon DEF ProcTrue
    <3> QED
      BY <3>1, Zenon
  <2> QED
    BY <2>1, <2>2, Zenon
<1>9. r[p].areas = b /\ \A q \in 1 .. n : q # p => r[q].areas = ps[q].areas
  BY <1>4, <1>6
<1>10. \A q \in 1 .. n : AreasTrue(r[q].areas)
  BY <1>1, <1>9 DEF ProcTrue
<1>11. \A i, q \in 1 .. n : i # q => ObjsOf(r[i].areas) \cap ObjsOf(r[q].areas) = {}
  <2> SUFFICES ASSUME NEW i \in 1 .. n, NEW q \in 1 .. n, i # q
               PROVE  ObjsOf(r[i].areas) \cap ObjsOf(r[q].areas) = {}
    OBVIOUS
  <2>1. CASE i = p
    BY <1>8, <1>9, <2>1
  <2>2. CASE q = p
    BY <1>8, <1>9, <2>2
  <2>3. CASE i # p /\ q # p
    BY <1>1, <1>9, <2>3 DEF ProcTrue
  <2> QED
    BY <2>1, <2>2, <2>3
<1>12. GivenOut(l) = UNION {ObjsOf(r[q].areas) : q \in 1 .. n}
  <2>1. ASSUME NEW o \in GivenOut(l) PROVE \E q \in 1 .. n : o \in ObjsOf(r[q].areas)
    <3>1. CASE o \in ObjsOf(b)
      BY <1>1, <1>9, <3>1
    <3>2. CASE o \in GivenOut(k) \ ObjsOf(a)
      <4>1. PICK q \in 1 .. n : o \in ObjsOf(ps[q].areas)
        BY <1>1, <3>2 DEF ProcTrue
      <4>2. q # p
        BY <3>2, <4>1
      <4> QED
        BY <1>9, <4>1, <4>2
    <3> QED
      BY <3>1, <3>2
  <2>2. ASSUME NEW q \in 1 .. n, NEW o \in ObjsOf(r[q].areas) PROVE o \in GivenOut(l)
    <3>1. CASE q = p
      BY <1>9, <3>1
    <3>2. CASE q # p
      BY <1>8, <1>9, <3>2
    <3> QED
      BY <3>1, <3>2
  <2> QED
    BY <2>1, <2>2
<1>13. Len(r) <= PROC_MAX
  BY <1>1, <1>7
<1>14. ProcTrue(r, l)
  BY <1>7, <1>10, <1>11, <1>12, <1>13, Zenon DEF ProcTrue
<1> QED
  BY <1>2, <1>14

LEMMA AppendTrue ==
  ASSUME NEW ps, NEW k, ProcTrue(ps, k), Len(ps) < PROC_MAX, NEW x \in 0 .. PROC_MAX,
         NEW b, AreasTrue(b), NEW l, SlabInv(l),
         ObjsOf(b) \cap GivenOut(k) = {}, GivenOut(l) = GivenOut(k) \cup ObjsOf(b)
  PROVE  ProcTrue(Append(ps, [ppid |-> x, areas |-> b]), l)
<1>1. PICK n \in Nat : n = Len(ps) /\ ps \in Seq(ProcSet) /\ n < PROC_MAX
  BY DEF ProcTrue
<1>2. PICK y : y = [ppid |-> x, areas |-> b]
  OBVIOUS
<1>3. y \in ProcSet /\ y.areas = b
  BY <1>2 DEF ProcSet, AreasTrue
<1>4. PICK r : r = Append(ps, y)
  OBVIOUS
<1>5. r \in Seq(ProcSet) /\ Len(r) = n + 1 /\ r[n + 1] = y /\ \A q \in 1 .. n : r[q] = ps[q]
  BY <1>1, <1>3, <1>4
<1>6. \A q \in 1 .. n : ObjsOf(ps[q].areas) \subseteq GivenOut(k)
  BY <1>1 DEF ProcTrue
<1>7. \A q \in 1 .. n + 1 : q = n + 1 \/ q \in 1 .. n
  OBVIOUS
<1>8. r[n + 1].areas = b /\ \A q \in 1 .. n : r[q].areas = ps[q].areas
  BY <1>3, <1>5
<1>9. \A q \in 1 .. n + 1 : AreasTrue(r[q].areas)
  BY <1>1, <1>7, <1>8 DEF ProcTrue
<1>10. \A i, q \in 1 .. n + 1 : i # q => ObjsOf(r[i].areas) \cap ObjsOf(r[q].areas) = {}
  <2> SUFFICES ASSUME NEW i \in 1 .. n + 1, NEW q \in 1 .. n + 1, i # q
               PROVE  ObjsOf(r[i].areas) \cap ObjsOf(r[q].areas) = {}
    OBVIOUS
  <2>1. CASE i = n + 1
    <3>1. q \in 1 .. n
      BY <1>7, <2>1
    <3> QED
      BY <1>6, <1>8, <2>1, <3>1
  <2>2. CASE q = n + 1
    <3>1. i \in 1 .. n
      BY <1>7, <2>2
    <3> QED
      BY <1>6, <1>8, <2>2, <3>1
  <2>3. CASE i \in 1 .. n /\ q \in 1 .. n
    BY <1>1, <1>8, <2>3 DEF ProcTrue
  <2> QED
    BY <1>7, <2>1, <2>2, <2>3
<1>11. GivenOut(l) = UNION {ObjsOf(r[q].areas) : q \in 1 .. n + 1}
  <2>0. n + 1 \in 1 .. n + 1 /\ \A q \in 1 .. n : q \in 1 .. n + 1
    OBVIOUS
  <2>1. ASSUME NEW o \in GivenOut(l) PROVE \E q \in 1 .. n + 1 : o \in ObjsOf(r[q].areas)
    <3>1. CASE o \in ObjsOf(b)
      BY <1>8, <2>0, <3>1
    <3>2. CASE o \in GivenOut(k)
      <4>1. PICK q \in 1 .. n : o \in ObjsOf(ps[q].areas)
        BY <1>1, <3>2 DEF ProcTrue
      <4> QED
        BY <1>8, <2>0, <4>1
    <3> QED
      BY <3>1, <3>2
  <2>2. ASSUME NEW q \in 1 .. n + 1, NEW o \in ObjsOf(r[q].areas) PROVE o \in GivenOut(l)
    <3>1. CASE q = n + 1
      BY <1>8, <3>1
    <3>2. CASE q \in 1 .. n
      BY <1>6, <1>8, <3>2
    <3> QED
      BY <1>7, <3>1, <3>2
  <2> QED
    BY <2>1, <2>2
<1>12. Len(r) <= PROC_MAX
  BY <1>1, <1>5, ProcessAssumption
<1>13. ProcTrue(r, l)
  BY <1>5, <1>9, <1>10, <1>11, <1>12, Zenon DEF ProcTrue
<1> QED
  BY <1>2, <1>4, <1>13

(* An area is taken out.                                                   *)
LEMMA AreaOut ==
  ASSUME NEW a, AreasTrue(a), NEW v \in ToSet(a), NEW r, r = RemoveFirst(a, v)
  PROVE  AreasTrue(r) /\ ObjsOf(r) = ObjsOf(a) \ {v.obj} /\ v.obj \in ObjsOf(a)
<1>1. PICK n \in Nat : n = Len(a) /\ a \in Seq(Area) /\ DOMAIN a = 1 .. n
  BY DEF AreasTrue
<1>2. v \in Elems(a)
  BY <1>1 DEF ToSet, Elems
<1>3. PICK i \in 1 .. n : a[i] = v /\ r = RemoveAt(a, i)
  BY <1>1, <1>2, TakingOut
<1>4. /\ r \in Seq(Area) /\ Len(r) = n - 1
      /\ \A k \in 1 .. n - 1 : r[k] = IF k < i THEN a[k] ELSE a[k + 1]
  BY <1>1, <1>3, Removing
<1>5. \A x, y \in 1 .. n : a[x].obj = a[y].obj => x = y
  BY <1>1 DEF AreasTrue
<1>6. \A x, y \in 1 .. n : x < y => a[x].start <= a[y].start
  BY <1>1 DEF AreasTrue
<1>7. ASSUME NEW j \in 1 .. n - 1
      PROVE  \E x \in 1 .. n : x = (IF j < i THEN j ELSE j + 1) /\ r[j] = a[x] /\ x # i
  BY <1>4
<1>8. ASSUME NEW j \in 1 .. n - 1, NEW k \in 1 .. n - 1
      PROVE  /\ j < k => r[j].start <= r[k].start
             /\ r[j].obj = r[k].obj => j = k
  <2>1. PICK x \in 1 .. n : x = (IF j < i THEN j ELSE j + 1) /\ r[j] = a[x]
    BY <1>7
  <2>2. PICK y \in 1 .. n : y = (IF k < i THEN k ELSE k + 1) /\ r[k] = a[y]
    BY <1>7
  <2>3. (j < k => x < y) /\ (x = y => j = k)
    BY <2>1, <2>2
  <2> QED
    BY <1>5, <1>6, <2>1, <2>2, <2>3
<1>9. AreasTrue(r)
  BY <1>4, <1>8 DEF AreasTrue
<1>10. ASSUME NEW o \in ObjsOf(r) PROVE o \in ObjsOf(a) \ {v.obj}
  <2>1. PICK j \in 1 .. n - 1 : o = r[j].obj
    BY <1>4 DEF ObjsOf
  <2>2. PICK x \in 1 .. n : r[j] = a[x] /\ x # i
    BY <1>7
  <2>3. o # a[i].obj
    BY <1>5, <2>1, <2>2
  <2> QED
    BY <1>1, <1>3, <2>1, <2>2, <2>3 DEF ObjsOf
<1>11. ASSUME NEW o \in ObjsOf(a) \ {v.obj} PROVE o \in ObjsOf(r)
  <2>1. PICK x \in 1 .. n : o = a[x].obj
    BY <1>1 DEF ObjsOf
  <2>2. x # i
    BY <1>3, <2>1
  <2>3. PICK j \in 1 .. n - 1 : r[j] = a[x]
    <3>1. CASE x < i
      <4>1. x \in 1 .. n - 1 /\ r[x] = a[x]
        BY <1>4, <3>1
      <4> QED
        BY <4>1
    <3>2. CASE x > i
      <4>1. x - 1 \in 1 .. n - 1 /\ (x - 1) + 1 = x /\ ~(x - 1 < i)
        BY <3>2
      <4>2. r[x - 1] = a[x]
        BY <1>4, <4>1
      <4> QED
        BY <4>1, <4>2
    <3> QED
      BY <2>2, <3>1, <3>2
  <2> QED
    BY <1>4, <2>1, <2>3 DEF ObjsOf
<1>12. v.obj \in ObjsOf(a)
  BY <1>1, <1>3 DEF ObjsOf
<1> QED
  BY <1>9, <1>10, <1>11, <1>12

ProcInv == ProcTrue(procs, slab)

LEMMA ProcBegins ==
  ASSUME ProcInit
  PROVE  ProcInv
<1>1. PICK k : k = [full |-> <<>>, partial |-> <<>>, empty |-> <<>>, slots |-> [s \in Slabs |-> <<>>]]
  OBVIOUS
<1>2. slab = k /\ procs = <<>>
  BY <1>1 DEF ProcInit, SlabInit
<1>3. k.full = <<>> /\ k.partial = <<>> /\ k.empty = <<>> /\ \A s \in Slabs : k.slots[s] = <<>>
  BY <1>1
<1>4. SlabSet(k)
  BY <1>1 DEF SlabSet
<1>5. Elems(<<>>) = {} /\ Once(<<>>)
  BY DEF Elems, Once
<1>6. SlabInv(k)
  BY <1>3, <1>4, <1>5 DEF SlabInv, Lists, Counted
<1>7. GivenOut(k) = {}
  BY <1>3, <1>5 DEF GivenOut, InLists
<1>8. PICK ps : ps = procs
  OBVIOUS
<1>9. ps \in Seq(ProcSet) /\ Len(ps) = 0 /\ PROC_MAX \in Nat
  BY <1>2, <1>8, ProcessAssumption
<1>10. ProcTrue(ps, k)
  BY <1>6, <1>7, <1>9 DEF ProcTrue
<1> QED
  BY <1>2, <1>8, <1>10 DEF ProcInv

LEMMA ProcPick ==
  ASSUME ProcInv
  PROVE  \E ps, k : ps = procs /\ k = slab /\ ProcTrue(ps, k)
BY DEF ProcInv

LEMMA CreateKeeps ==
  ASSUME ProcInv, Create
  PROVE  ProcInv'
<1>1. PICK ps, k : ps = procs /\ k = slab /\ ProcTrue(ps, k)
  BY ProcPick
<1>2. PICK b : b = <<>>
  OBVIOUS
<1>3. AreasTrue(b) /\ ObjsOf(b) = {}
  BY <1>2, NoAreas
<1>4. SlabInv(k) /\ 0 \in 0 .. PROC_MAX /\ Len(ps) < PROC_MAX
  BY <1>1, ProcessAssumption DEF ProcTrue, Create
<1>5. ProcTrue(Append(ps, [ppid |-> 0, areas |-> b]), k)
  BY <1>1, <1>3, <1>4, AppendTrue
<1>6. procs' = Append(ps, [ppid |-> 0, areas |-> b]) /\ slab' = k
  BY <1>1, <1>2 DEF Create
<1>7. PICK qs, l : qs = procs' /\ l = slab'
  OBVIOUS
<1>8. ProcTrue(qs, l)
  BY <1>5, <1>6, <1>7
<1> QED
  BY <1>7, <1>8 DEF ProcInv

LEMMA ForkKeeps ==
  ASSUME ProcInv, NEW p \in DOMAIN procs, Fork(p)
  PROVE  ProcInv'
<1>1. PICK ps, k : ps = procs /\ k = slab /\ ProcTrue(ps, k)
  BY ProcPick
<1>2. PICK n \in Nat : n = Len(ps) /\ DOMAIN ps = 1 .. n /\ n < PROC_MAX
  BY <1>1 DEF ProcTrue, Fork
<1>3. p \in 1 .. n /\ SlabInv(k) /\ AreasTrue(ps[p].areas)
  BY <1>1, <1>2 DEF ProcTrue
<1>4. PICK c \in Copies(ps[p].areas) : slab' = c.slab /\ procs' = Append(ps, [ppid |-> p, areas |-> c.areas])
  BY <1>1 DEF Fork
<1>5. ps[p].areas \in Seq(Area)
  BY <1>3 DEF AreasTrue
<1>6. c \in CopySet(k)
  BY <1>1, <1>3, <1>4, <1>5, CopiesTrue
<1>7. PICK l, b : l = c.slab /\ b = c.areas
  OBVIOUS
<1>8. /\ SlabInv(l) /\ AreasTrue(b) /\ ObjsOf(b) \cap GivenOut(k) = {}
      /\ GivenOut(l) = GivenOut(k) \cup ObjsOf(b)
  BY <1>6, <1>7 DEF CopySet, CopyTrue
<1>9. p \in 0 .. PROC_MAX
  BY <1>2, <1>3, ProcessAssumption
<1>10. ProcTrue(Append(ps, [ppid |-> p, areas |-> b]), l)
  BY <1>1, <1>2, <1>8, <1>9, AppendTrue
<1>11. PICK qs, m : qs = procs' /\ m = slab'
  OBVIOUS
<1>12. ProcTrue(qs, m)
  BY <1>4, <1>7, <1>10, <1>11
<1> QED
  BY <1>11, <1>12 DEF ProcInv

LEMMA InsertKeeps ==
  ASSUME ProcInv, NEW p \in DOMAIN procs, NEW start \in Bounds, NEW end \in Bounds, Insert(p, start, end)
  PROVE  ProcInv'
<1>1. PICK ps, k : ps = procs /\ k = slab /\ ProcTrue(ps, k)
  BY ProcPick
<1>2. p \in 1 .. Len(ps)
  BY <1>1 DEF ProcTrue
<1>3. PICK a : a = ps[p].areas
  OBVIOUS
<1>4. SlabInv(k) /\ AreasTrue(a) /\ ObjsOf(a) \subseteq GivenOut(k)
  BY <1>1, <1>2, <1>3 DEF ProcTrue
<1>5. PICK r \in VmaInsert(k, a, start, end, TRUE) : slab' = r.slab /\ procs' = [ps EXCEPT ![p].areas = r.areas]
  BY <1>1, <1>3 DEF Insert
<1>6. Widened(k, a, r)
  <2>1. TRUE \in BOOLEAN
    OBVIOUS
  <2> QED
    BY <1>4, <1>5, <2>1, VmaInsertTrue
<1>7. PICK l, b : l = r.slab /\ b = r.areas
  OBVIOUS
<1>8. PICK N \in SUBSET Objects : N \cap GivenOut(k) = {} /\ GivenOut(l) = GivenOut(k) \cup N
                                  /\ ObjsOf(b) = ObjsOf(a) \cup N
  BY <1>6, <1>7 DEF Widened
<1>9. SlabInv(l) /\ AreasTrue(b)
  BY <1>6, <1>7 DEF Widened
<1>10. ObjsOf(b) \cap (GivenOut(k) \ ObjsOf(a)) = {} /\ GivenOut(l) = (GivenOut(k) \ ObjsOf(a)) \cup ObjsOf(b)
  BY <1>4, <1>8
<1>11. ProcTrue([ps EXCEPT ![p].areas = b], l)
  BY <1>1, <1>2, <1>3, <1>9, <1>10, ReplaceTrue
<1>12. PICK qs, m : qs = procs' /\ m = slab'
  OBVIOUS
<1>13. ProcTrue(qs, m)
  BY <1>5, <1>7, <1>11, <1>12
<1> QED
  BY <1>12, <1>13 DEF ProcInv

LEMMA VmaRemoveKeeps ==
  ASSUME ProcInv, NEW p \in DOMAIN procs, NEW v \in ToSet(procs[p].areas), VmaRemove(p, v)
  PROVE  ProcInv'
<1>1. PICK ps, k : ps = procs /\ k = slab /\ ProcTrue(ps, k)
  BY ProcPick
<1>2. p \in 1 .. Len(ps)
  BY <1>1 DEF ProcTrue
<1>3. PICK a : a = ps[p].areas
  OBVIOUS
<1>4. SlabInv(k) /\ AreasTrue(a) /\ ObjsOf(a) \subseteq GivenOut(k) /\ v \in ToSet(a)
  BY <1>1, <1>2, <1>3 DEF ProcTrue
<1>5. PICK b : b = RemoveFirst(a, v)
  OBVIOUS
<1>6. AreasTrue(b) /\ ObjsOf(b) = ObjsOf(a) \ {v.obj} /\ v.obj \in ObjsOf(a)
  BY <1>4, <1>5, AreaOut
<1>7. PICK l : l = SlabFree(k, v.obj)
  OBVIOUS
<1>8. SlabInv(l) /\ GivenOut(l) = GivenOut(k) \ {v.obj}
  BY <1>4, <1>6, <1>7, SlabFreeTrue
<1>9. ObjsOf(b) \cap (GivenOut(k) \ ObjsOf(a)) = {} /\ GivenOut(l) = (GivenOut(k) \ ObjsOf(a)) \cup ObjsOf(b)
  BY <1>4, <1>6, <1>8
<1>10. ProcTrue([ps EXCEPT ![p].areas = b], l)
  BY <1>1, <1>2, <1>3, <1>6, <1>8, <1>9, ReplaceTrue
<1>11. procs' = [ps EXCEPT ![p].areas = b] /\ slab' = l
  BY <1>1, <1>3, <1>5, <1>7 DEF VmaRemove
<1>12. PICK qs, m : qs = procs' /\ m = slab'
  OBVIOUS
<1>13. ProcTrue(qs, m)
  BY <1>10, <1>11, <1>12
<1> QED
  BY <1>12, <1>13 DEF ProcInv

LEMMA ProcGoesOn ==
  ASSUME ProcInv, [Next]_vars
  PROVE  ProcInv'
<1>1. ProcNext \/ UNCHANGED procVars
  BY DEF Next, vars, memoryVars, MemoryNext
<1>2. CASE UNCHANGED procVars
  <2>1. procs' = procs /\ slab' = slab
    BY <1>2 DEF procVars
  <2>2. PICK ps, k : ps = procs /\ k = slab /\ ProcTrue(ps, k)
    BY ProcPick
  <2> QED
    BY <2>1, <2>2 DEF ProcInv
<1>3. CASE ProcNext
  BY <1>3, CreateKeeps, ForkKeeps, InsertKeeps, VmaRemoveKeeps DEF ProcNext
<1> QED
  BY <1>1, <1>2, <1>3

(* Every area of every process has an object of the cache of its own, and  *)
(* every slab is in the list that its count of free slots says.            *)
THEOREM ProcessInvariant == Spec => []ProcInv
<1>1. Init => ProcInv
  BY ProcBegins DEF Init
<1>2. ProcInv /\ [Next]_vars => ProcInv'
  BY ProcGoesOn
<1> QED
  BY <1>1, <1>2, PTL DEF Spec

LEMMA Joined ==
  ASSUME NEW S, NEW q \in Seq(S), NEW r \in Seq(S), Once(q), Once(r), Elems(q) \cap Elems(r) = {}
  PROVE  q \o r \in Seq(S) /\ Once(q \o r) /\ Elems(q \o r) = Elems(q) \cup Elems(r)
<1>1. PICK m \in Nat, n \in Nat : m = Len(q) /\ n = Len(r)
  BY LenProperties
<1>2. PICK c : c = q \o r
  OBVIOUS
<1>3. /\ c \in Seq(S) /\ Len(c) = m + n
      /\ \A k \in 1 .. m + n : c[k] = IF k <= m THEN q[k] ELSE r[k - m]
  BY <1>1, <1>2, ConcatProperties
<1>4. ASSUME NEW k \in 1 .. m + n
      PROVE  \/ k \in 1 .. m /\ c[k] = q[k] /\ c[k] \in Elems(q)
             \/ k - m \in 1 .. n /\ c[k] = r[k - m] /\ c[k] \in Elems(r)
  <2>1. CASE k <= m
    <3>1. k \in 1 .. m /\ c[k] = q[k]
      BY <1>3, <2>1
    <3> QED
      BY <1>1, <3>1 DEF Elems
  <2>2. CASE k > m
    <3>1. k - m \in 1 .. n /\ c[k] = r[k - m]
      BY <1>3, <2>2
    <3> QED
      BY <1>1, <3>1 DEF Elems
  <2> QED
    BY <2>1, <2>2
<1>5. Once(c)
  <2> SUFFICES ASSUME NEW i \in 1 .. m + n, NEW j \in 1 .. m + n, c[i] = c[j] PROVE i = j
    BY <1>3 DEF Once
  <2>1. CASE i \in 1 .. m /\ c[i] = q[i] /\ c[i] \in Elems(q)
    <3>1. j \in 1 .. m /\ c[j] = q[j]
      BY <1>4, <2>1
    <3> QED
      BY <1>1, <2>1, <3>1 DEF Once
  <2>2. CASE i - m \in 1 .. n /\ c[i] = r[i - m] /\ c[i] \in Elems(r)
    <3>1. j - m \in 1 .. n /\ c[j] = r[j - m]
      BY <1>4, <2>2
    <3>2. i - m = j - m
      BY <1>1, <2>2, <3>1 DEF Once
    <3> QED
      BY <3>2
  <2> QED
    BY <1>4, <2>1, <2>2
<1>6. ASSUME NEW x \in Elems(c) PROVE x \in Elems(q) \cup Elems(r)
  <2>1. PICK k \in 1 .. m + n : x = c[k]
    BY <1>3 DEF Elems
  <2> QED
    BY <1>4, <2>1
<1>7. ASSUME NEW x \in Elems(q) PROVE x \in Elems(c)
  <2>1. PICK k \in 1 .. m : x = q[k]
    BY <1>1 DEF Elems
  <2>2. k \in 1 .. m + n /\ x = c[k]
    BY <1>3, <2>1
  <2> QED
    BY <1>3, <2>2 DEF Elems
<1>8. ASSUME NEW x \in Elems(r) PROVE x \in Elems(c)
  <2>1. PICK k \in 1 .. n : x = r[k]
    BY <1>1 DEF Elems
  <2>2. k + m \in 1 .. m + n /\ ~(k + m <= m) /\ (k + m) - m = k
    BY <2>1
  <2>3. x = c[k + m]
    BY <1>3, <2>1, <2>2
  <2> QED
    BY <1>3, <2>2, <2>3 DEF Elems
<1> QED
  BY <1>2, <1>3, <1>5, <1>6, <1>7, <1>8

LEMMA ListedTrue ==
  ASSUME NEW k, Lists(k)
  PROVE  IsInjective(Listed(k)) /\ ToSet(Listed(k)) = InLists(k)
<1>1. k.full \in Seq(Slabs) /\ k.partial \in Seq(Slabs) /\ k.empty \in Seq(Slabs)
  BY DEF Lists, SlabSet
<1>2. PICK a : a = k.full \o k.partial
  OBVIOUS
<1>3. a \in Seq(Slabs) /\ Once(a) /\ Elems(a) = Elems(k.full) \cup Elems(k.partial)
  BY <1>1, <1>2, Joined DEF Lists
<1>4. PICK b : b = a \o k.empty
  OBVIOUS
<1>5. Elems(a) \cap Elems(k.empty) = {} /\ Once(k.empty)
  BY <1>3 DEF Lists
<1>6. b \in Seq(Slabs) /\ Once(b) /\ Elems(b) = Elems(a) \cup Elems(k.empty)
  BY <1>1, <1>3, <1>4, <1>5, Joined
<1>7. Listed(k) = b
  BY <1>2, <1>4 DEF Listed
<1>8. DOMAIN b = 1 .. Len(b)
  BY <1>6
<1>9. IsInjective(b) /\ ToSet(b) = Elems(b)
  BY <1>6, <1>8 DEF IsInjective, ToSet, Once, Elems
<1> QED
  BY <1>3, <1>6, <1>7, <1>9 DEF InLists

LEMMA AreaCount ==
  ASSUME NEW a, AreasTrue(a)
  PROVE  IsFiniteSet(ObjsOf(a)) /\ Cardinality(ObjsOf(a)) = Len(a) /\ Len(a) \in Nat
<1>1. PICK n \in Nat : n = Len(a)
  BY LenProperties DEF AreasTrue
<1>2. PICK f : f = [i \in 1 .. n |-> a[i].obj]
  OBVIOUS
<1>3. f \in [1 .. n -> ObjsOf(a)]
  BY <1>1, <1>2 DEF ObjsOf
<1>4. \A i, j \in 1 .. n : f[i] = f[j] => i = j
  BY <1>1, <1>2 DEF AreasTrue
<1>5. \A o \in ObjsOf(a) : \E i \in 1 .. n : f[i] = o
  BY <1>1, <1>2 DEF ObjsOf
<1>6. f \in Injection(1 .. n, ObjsOf(a))
  BY <1>3, <1>4 DEF Injection, IsInjective
<1>7. f \in Surjection(1 .. n, ObjsOf(a))
  BY <1>3, <1>5 DEF Surjection
<1>8. ExistsBijection(1 .. n, ObjsOf(a))
  BY <1>6, <1>7 DEF ExistsBijection, Bijection
<1>9. IsFiniteSet(1 .. n) /\ Cardinality(1 .. n) = n
  BY FS_Interval
<1> QED
  BY <1>1, <1>8, <1>9, FS_Bijection

LEMMA TotalTrue ==
  ASSUME NEW ps, NEW k, ProcTrue(ps, k)
  PROVE  Total(ps) = Cardinality(GivenOut(k))
<1>1. PICK n \in Nat : n = Len(ps) /\ ps \in Seq(ProcSet)
  BY DEF ProcTrue
<1>2. PICK f \in [0 .. n -> Nat] : /\ f[0] = 0
                                   /\ \A i \in 1 .. n : f[i] = f[i - 1] + Len(ps[i].areas)
                                   /\ Total(ps) = f[n]
  BY <1>1, TotalSteps
<1>3. PICK U : U = [i \in 0 .. n |-> UNION {ObjsOf(ps[p].areas) : p \in 1 .. i}]
  OBVIOUS
<1> DEFINE T == {i \in Nat : i <= n => IsFiniteSet(U[i]) /\ Cardinality(U[i]) = f[i]}
<1>4. 0 \in T
  <2>1. U[0] = {}
    BY <1>3
  <2> QED
    BY <1>2, <2>1, FS_EmptySet
<1>5. ASSUME NEW i \in Nat, i \in T PROVE i + 1 \in T
  <2> SUFFICES ASSUME i + 1 <= n PROVE IsFiniteSet(U[i + 1]) /\ Cardinality(U[i + 1]) = f[i + 1]
    OBVIOUS
  <2>1. i \in 0 .. n /\ i + 1 \in 0 .. n /\ i + 1 \in 1 .. n /\ (i + 1) - 1 = i
    BY <1>1
  <2>2. IsFiniteSet(U[i]) /\ Cardinality(U[i]) = f[i] /\ f[i] \in Nat
    BY <1>2, <1>5, <2>1
  <2>3. PICK O : O = ObjsOf(ps[i + 1].areas)
    OBVIOUS
  <2>4. AreasTrue(ps[i + 1].areas)
    BY <1>1, <2>1 DEF ProcTrue
  <2>5. IsFiniteSet(O) /\ Cardinality(O) = Len(ps[i + 1].areas) /\ Cardinality(O) \in Nat
    BY <2>3, <2>4, AreaCount
  <2>6. U[i + 1] = U[i] \cup O
    <3>1. U[i] = UNION {ObjsOf(ps[p].areas) : p \in 1 .. i} /\ U[i + 1] = UNION {ObjsOf(ps[p].areas) : p \in 1 .. i + 1}
      BY <1>3, <2>1
    <3>2. 1 .. i + 1 = (1 .. i) \cup {i + 1}
      BY <2>1
    <3> QED
      BY <2>3, <3>1, <3>2
  <2>7. U[i] \cap O = {}
    <3>1. ASSUME NEW p \in 1 .. i PROVE ObjsOf(ps[p].areas) \cap O = {}
      <4>1. p \in 1 .. n /\ p # i + 1
        BY <2>1
      <4> QED
        BY <1>1, <2>1, <2>3, <4>1 DEF ProcTrue
    <3>2. U[i] = UNION {ObjsOf(ps[p].areas) : p \in 1 .. i}
      BY <1>3, <2>1
    <3> QED
      BY <3>1, <3>2
  <2>8. IsFiniteSet(U[i] \cup O) /\ Cardinality(U[i] \cup O) = Cardinality(U[i]) + Cardinality(O) - Cardinality(U[i] \cap O)
    BY <2>2, <2>5, FS_Union
  <2>9. Cardinality(U[i] \cap O) = 0
    BY <2>7, FS_EmptySet
  <2>10. f[i + 1] = f[i] + Len(ps[i + 1].areas)
    BY <1>2, <2>1
  <2> QED
    BY <2>2, <2>5, <2>6, <2>8, <2>9, <2>10
<1> HIDE DEF T
<1>6. n \in T
  BY <1>4, <1>5, Induction
<1>7. Cardinality(U[n]) = f[n]
  BY <1>6 DEF T
<1>8. U[n] = GivenOut(k)
  <2>1. n \in 0 .. n
    BY <1>1
  <2>2. U[n] = UNION {ObjsOf(ps[p].areas) : p \in 1 .. n}
    BY <1>3, <2>1
  <2> QED
    BY <1>1, <2>2 DEF ProcTrue
<1> QED
  BY <1>2, <1>7, <1>8

(* Every object of the cache is in one place, on the freelist of its slab  *)
(* or an area of one process, every slab in the list that its count says,  *)
(* and areas stay sorted through fork, insert and remove.                  *)
THEOREM AreasOwned == Spec => []ObjectsOwned
<1>1. ProcInv => ObjectsOwned
  <2> SUFFICES ASSUME ProcInv PROVE ObjectsOwned
    OBVIOUS
  <2>1. PICK ps, k : ps = procs /\ k = slab /\ ProcTrue(ps, k)
    BY ProcPick
  <2>2. PICK n \in Nat : n = Len(ps) /\ DOMAIN ps = 1 .. n
    BY <2>1 DEF ProcTrue
  <2>3. Lists(k) /\ \A s \in Slabs : Counted(k, s)
    BY <2>1 DEF ProcTrue, SlabInv
  <2>4. IsInjective(Listed(k)) /\ ToSet(Listed(k)) = InLists(k)
    BY <2>3, ListedTrue
  <2>5. /\ k.full \in Seq(Slabs) /\ k.partial \in Seq(Slabs) /\ k.empty \in Seq(Slabs)
        /\ \A s \in Slabs : k.slots[s] \in Seq(1 .. Objs)
    BY <2>3 DEF Lists, SlabSet
  <2>6. ToSet(k.full) = Elems(k.full) /\ ToSet(k.empty) = Elems(k.empty)
    <3>1. ASSUME NEW q \in Seq(Slabs) PROVE ToSet(q) = Elems(q)
      <4>1. DOMAIN q = 1 .. Len(q)
        OBVIOUS
      <4> QED
        BY <4>1, Zenon DEF ToSet, Elems
    <3> QED
      BY <2>5, <3>1
  <2>7. Held = GivenOut(k)
    <3>1. \A p \in 1 .. n : {v.obj : v \in ToSet(ps[p].areas)} = ObjsOf(ps[p].areas)
      <4> SUFFICES ASSUME NEW p \in 1 .. n PROVE {v.obj : v \in ToSet(ps[p].areas)} = ObjsOf(ps[p].areas)
        OBVIOUS
      <4>1. PICK a : a = ps[p].areas
        OBVIOUS
      <4>2. a \in Seq(Area)
        BY <2>1, <2>2, <4>1 DEF ProcTrue, AreasTrue
      <4>3. DOMAIN a = 1 .. Len(a)
        BY <4>2
      <4> QED
        BY <4>1, <4>3 DEF ToSet, ObjsOf
    <3>2. Held = UNION {{v.obj : v \in ToSet(ps[p].areas)} : p \in 1 .. n}
      BY <2>1, <2>2 DEF Held
    <3>3. Held = UNION {ObjsOf(ps[p].areas) : p \in 1 .. n}
      BY <3>1, <3>2
    <3> QED
      BY <2>1, <2>2, <3>3 DEF ProcTrue
  <2>8. \A s \in ToSet(Listed(slab)) :
          /\ IsInjective(slab.slots[s])
          /\ {o \in Held : o[1] = s} = {s} \X ((1 .. Objs) \ ToSet(slab.slots[s]))
          /\ s \in ToSet(slab.full)  <=> slab.slots[s] = <<>>
          /\ s \in ToSet(slab.empty) <=> Len(slab.slots[s]) = Objs
    <3> SUFFICES ASSUME NEW s \in InLists(k)
                 PROVE  /\ IsInjective(k.slots[s])
                        /\ {o \in Held : o[1] = s} = {s} \X ((1 .. Objs) \ ToSet(k.slots[s]))
                        /\ s \in ToSet(k.full)  <=> k.slots[s] = <<>>
                        /\ s \in ToSet(k.empty) <=> Len(k.slots[s]) = Objs
      BY <2>1, <2>4
    <3>1. s \in Slabs
      BY <2>5 DEF InLists, Elems
    <3>2. PICK q : q = k.slots[s]
      OBVIOUS
    <3>3. q \in Seq(1 .. Objs) /\ DOMAIN q = 1 .. Len(q) /\ Len(q) \in Nat
      BY <2>5, <3>1, <3>2
    <3>4. /\ Once(q)
          /\ s \in Elems(k.full) => Len(q) = 0
          /\ s \in Elems(k.partial) => Len(q) \in 1 .. Objs - 1
          /\ s \in Elems(k.empty) => Len(q) = Objs
      BY <2>3, <3>1, <3>2 DEF Counted
    <3>5. IsInjective(q) /\ ToSet(q) = Elems(q)
      BY <3>3, <3>4 DEF IsInjective, ToSet, Once, Elems
    <3>6. {o \in Held : o[1] = s} = {s} \X ((1 .. Objs) \ Elems(q))
      <4>1. PICK G, H : G = {o \in GivenOut(k) : o[1] = s} /\ H = {s} \X ((1 .. Objs) \ Elems(q))
        OBVIOUS
      <4>2. G \in SUBSET Objects /\ H \in SUBSET Objects
        BY <3>1, <4>1 DEF GivenOut, Objects
      <4>3. ASSUME NEW x \in Slabs, NEW i \in 1 .. Objs PROVE <<x, i>> \in G <=> <<x, i>> \in H
        <5>1. <<x, i>> \in G <=> x \in InLists(k) /\ i \notin Elems(k.slots[x]) /\ x = s
          BY <4>1 DEF GivenOut, Objects
        <5>2. <<x, i>> \in H <=> x = s /\ i \notin Elems(q)
          BY <4>1
        <5> QED
          BY <3>2, <5>1, <5>2
      <4>4. G = H
        BY <4>2, <4>3, SameObjects
      <4> QED
        BY <2>7, <4>1, <4>4
    <3>7. Objs \in Nat /\ Objs > 1
      BY SlabAssumption
    <3>8. PICK m \in Nat : m = Len(q)
      BY <3>3
    <3>9. s \in Elems(k.full) \/ s \in Elems(k.partial) \/ s \in Elems(k.empty)
      BY DEF InLists
    <3>10. s \in Elems(k.partial) => m # 0 /\ m # Objs
      BY <3>4, <3>7, <3>8
    <3>11. s \in Elems(k.full) <=> m = 0
      BY <3>4, <3>7, <3>8, <3>9, <3>10
    <3>12. s \in Elems(k.empty) <=> m = Objs
      BY <3>4, <3>7, <3>8, <3>9, <3>10
    <3>13. m = 0 <=> q = <<>>
      BY <3>3, <3>8
    <3> QED
      BY <2>6, <3>2, <3>5, <3>6, <3>8, <3>11, <3>12, <3>13
  <2>9. \A o \in Held : o[1] \in ToSet(Listed(slab))
    BY <2>1, <2>4, <2>7 DEF GivenOut
  <2>10. FoldLeft(LAMBDA m, p : m + Len(p.areas), 0, procs) = Cardinality(Held)
    <3>1. Total(ps) = Cardinality(GivenOut(k))
      BY <2>1, TotalTrue
    <3> QED
      BY <2>1, <2>7, <3>1 DEF Total
  <2>11. \A p \in DOMAIN procs : \A i \in 1 .. Len(procs[p].areas) - 1 :
           procs[p].areas[i].start <= procs[p].areas[i + 1].start
    <3> SUFFICES ASSUME NEW p \in 1 .. n, NEW i \in 1 .. Len(ps[p].areas) - 1
                 PROVE  ps[p].areas[i].start <= ps[p].areas[i + 1].start
      BY <2>1, <2>2
    <3>1. PICK a : a = ps[p].areas
      OBVIOUS
    <3>2. AreasTrue(a)
      BY <2>1, <2>2, <3>1 DEF ProcTrue
    <3>3. Len(a) \in Nat /\ i \in 1 .. Len(a) - 1
      BY <3>1, <3>2 DEF AreasTrue
    <3>4. i \in 1 .. Len(a) /\ i + 1 \in 1 .. Len(a) /\ i < i + 1
      BY <3>3
    <3> QED
      BY <3>1, <3>2, <3>4 DEF AreasTrue
  <2>12. IsInjective(Listed(slab))
    BY <2>1, <2>4
  <2> QED
    BY <2>8, <2>9, <2>10, <2>11, <2>12, Zenon DEF ObjectsOwned
<1> QED
  BY <1>1, ProcessInvariant, PTL

(* Both together are what the runs check of processes.                     *)
THEOREM ProcessesKeep == Spec => []ProcessesTrue
<1>1. ObjectsOwned /\ EndsOnce => ProcessesTrue
  BY DEF ProcessesTrue
<1> QED
  BY <1>1, AreasOwned, SignalsEndOnce, PTL

-----------------------------------------------------------------------------
(* What is stored is found                                                 *)

(* Each side steps by its own next-state relation or not at all.           *)
LEMMA SidesStep ==
  ASSUME [Next]_vars
  PROVE  /\ [SockNext]_sockVars /\ [EnvNext]_envVars /\ [ProbeNext]_probeVars
         /\ [IdeNext]_ideVars /\ [PartNext]_partJob /\ [NvNext]_nv /\ [LeakNext]_leakVars
         /\ [IsoNext]_isoVars /\ [ExtNext]_extVars /\ [FatNext]_fatVars /\ [ExeNext]_exeVars
         /\ [ElfNext]_elfVars /\ [VfsNext]_vfsVars /\ [GdbNext]_gdbVars
<1>1. CASE UNCHANGED vars
  BY <1>1 DEF vars, memoryVars, fileVars, debugVars, driveVars
<1>2. CASE MemoryNext /\ UNCHANGED <<fileVars, debugVars>>
  BY <1>2 DEF MemoryNext, fileVars, debugVars, driveVars
<1>3. CASE FilesNext /\ UNCHANGED <<memoryVars, debugVars>>
  BY <1>3 DEF FilesNext, memoryVars, debugVars, driveVars
<1>4. CASE DebugNext /\ UNCHANGED <<memoryVars, fileVars>>
  BY <1>4 DEF DebugNext, memoryVars, fileVars, driveVars
<1> QED
  BY <1>1, <1>2, <1>3, <1>4 DEF Next

(* What heap_leak_report names is what callers hold: each slot of the      *)
(* table has a block of theirs and no two the same one, and while none was *)
(* overwritten every block of theirs has a slot.                           *)
Reported(slots, owned) ==
  /\ \A i \in LeakSlots : slots[i] # NoBlock => slots[i] \in owned
  /\ \A i, j \in LeakSlots : slots[i] # NoBlock /\ slots[i] = slots[j] => i = j

LeakInv ==
  \E slots \in [LeakSlots -> Blocks \cup {NoBlock}], next \in LeakSlots, overwritten \in BOOLEAN, moved \in BOOLEAN :
    /\ leaks = [slots |-> slots, next |-> next, overwritten |-> overwritten, moved |-> moved]
    /\ held \subseteq Blocks
    /\ ~moved => /\ Reported(slots, held)
                 /\ ~overwritten => \A b \in held : \E i \in LeakSlots : slots[i] = b

LEMMA BlocksReal == NoBlock \notin Blocks
BY KHeapAssumption DEF NoBlock

LEMMA LeakBegins ==
  ASSUME LeakInit
  PROVE  LeakInv
<1>1. PICK slots : slots = [i \in LeakSlots |-> NoBlock]
  OBVIOUS
<1>2. slots \in [LeakSlots -> Blocks \cup {NoBlock}] /\ \A i \in LeakSlots : slots[i] = NoBlock
  BY <1>1
<1>3. 0 \in LeakSlots
  BY KHeapAssumption DEF LeakSlots
<1>4. leaks = [slots |-> slots, next |-> 0, overwritten |-> FALSE, moved |-> FALSE] /\ held = {}
  BY <1>1 DEF LeakInit
<1> QED
  BY <1>2, <1>3, <1>4 DEF LeakInv, Reported

LEMMA AllocKeepsLeaks ==
  ASSUME LeakInv, NEW at \in Blocks \ held, TrackedAlloc(at)
  PROVE  LeakInv'
<1>1. PICK s \in [LeakSlots -> Blocks \cup {NoBlock}], n \in LeakSlots, o \in BOOLEAN, m \in BOOLEAN :
        /\ leaks = [slots |-> s, next |-> n, overwritten |-> o, moved |-> m]
        /\ held \subseteq Blocks
        /\ ~m => Reported(s, held) /\ (~o => \A b \in held : \E i \in LeakSlots : s[i] = b)
  BY DEF LeakInv
<1>2. PICK vacant : vacant = {i \in LeakSlots : s[i] = NoBlock}
  OBVIOUS
<1>3. held' = held \cup {at} /\ at # NoBlock /\ at \in Blocks /\ at \notin held
  BY BlocksReal DEF TrackedAlloc
<1>4. CASE vacant # {}
  <2>1. PICK k \in LeakSlots : k = Min(vacant) /\ s[k] = NoBlock
    <3>1. vacant \subseteq Nat
      BY <1>2, KHeapAssumption DEF LeakSlots
    <3> QED
      BY <1>2, <1>4, <3>1, MinFacts
  <2>2. PICK t : t = [s EXCEPT ![k] = at]
    OBVIOUS
  <2>3. t \in [LeakSlots -> Blocks \cup {NoBlock}] /\ t[k] = at /\ \A i \in LeakSlots \ {k} : t[i] = s[i]
    BY <1>3, <2>2
  <2>4. leaks' = [leaks EXCEPT !.slots[k] = at]
    BY <1>1, <1>2, <1>4, <2>1 DEF TrackedAlloc, Recorded
  <2>5. leaks' = [slots |-> t, next |-> n, overwritten |-> o, moved |-> m]
    BY <1>1, <2>2, <2>4
  <2>6. ASSUME ~m PROVE Reported(t, held') /\ (~o => \A b \in held' : \E i \in LeakSlots : t[i] = b)
    <3>1. Reported(s, held) /\ (~o => \A b \in held : \E i \in LeakSlots : s[i] = b)
      BY <1>1, <2>6
    <3>2. Reported(t, held')
      BY <1>3, <2>3, <3>1 DEF Reported
    <3>3. ASSUME ~o, NEW b \in held' PROVE \E i \in LeakSlots : t[i] = b
      <4>1. CASE b = at
        BY <2>3, <4>1
      <4>2. CASE b # at
        <5>1. PICK i \in LeakSlots : s[i] = b
          BY <1>3, <3>1, <3>3, <4>2
        <5>2. b # NoBlock
          BY <1>1, <1>3, <4>2, <3>3, BlocksReal
        <5> QED
          BY <2>1, <2>3, <5>1, <5>2
      <4> QED
        BY <4>1, <4>2
    <3> QED
      BY <3>2, <3>3
  <2>7. held' \subseteq Blocks
    BY <1>1, <1>3
  <2> QED
    BY <2>3, <2>5, <2>6, <2>7 DEF LeakInv
<1>5. CASE vacant = {}
  <2>1. PICK t : t = [s EXCEPT ![n] = at]
    OBVIOUS
  <2>2. t \in [LeakSlots -> Blocks \cup {NoBlock}] /\ t[n] = at /\ \A i \in LeakSlots \ {n} : t[i] = s[i]
    BY <1>3, <2>1
  <2>3. PICK w : w = (n + 1) % LEAKSLOTS
    OBVIOUS
  <2>4. w \in LeakSlots
    BY <2>3, KHeapAssumption DEF LeakSlots
  <2>5. leaks' = [leaks EXCEPT !.slots[leaks.next] = at, !.next = (@ + 1) % LEAKSLOTS, !.overwritten = TRUE]
    BY <1>1, <1>2, <1>5 DEF TrackedAlloc, Recorded
  <2>6. leaks' = [slots |-> t, next |-> w, overwritten |-> TRUE, moved |-> m]
    BY <1>1, <2>1, <2>3, <2>5
  <2>7. ASSUME ~m PROVE Reported(t, held')
    <3>1. Reported(s, held)
      BY <1>1, <2>7
    <3> QED
      BY <1>3, <2>2, <3>1 DEF Reported
  <2>8. held' \subseteq Blocks
    BY <1>1, <1>3
  <2> QED
    BY <2>2, <2>4, <2>6, <2>7, <2>8 DEF LeakInv
<1> QED
  BY <1>4, <1>5

LEMMA FreeKeepsLeaks ==
  ASSUME LeakInv, NEW at \in held, TrackedFree(at)
  PROVE  LeakInv'
<1>1. PICK s \in [LeakSlots -> Blocks \cup {NoBlock}], n \in LeakSlots, o \in BOOLEAN, m \in BOOLEAN :
        /\ leaks = [slots |-> s, next |-> n, overwritten |-> o, moved |-> m]
        /\ held \subseteq Blocks
        /\ ~m => Reported(s, held) /\ (~o => \A b \in held : \E i \in LeakSlots : s[i] = b)
  BY DEF LeakInv
<1>2. PICK same : same = {i \in LeakSlots : s[i] = at}
  OBVIOUS
<1>3. held' = held \ {at} /\ at # NoBlock /\ held' \subseteq Blocks
  BY <1>1, BlocksReal DEF TrackedFree
<1>4. CASE same = {}
  <2>1. leaks' = leaks
    BY <1>1, <1>2, <1>4 DEF TrackedFree, Unrecorded
  <2>2. ASSUME ~m PROVE Reported(s, held') /\ (~o => \A b \in held' : \E i \in LeakSlots : s[i] = b)
    <3>1. Reported(s, held) /\ (~o => \A b \in held : \E i \in LeakSlots : s[i] = b)
      BY <1>1, <2>2
    <3> QED
      BY <1>2, <1>3, <1>4, <3>1 DEF Reported
  <2> QED
    BY <1>1, <1>3, <2>1, <2>2 DEF LeakInv
<1>5. CASE same # {}
  <2>1. PICK k \in LeakSlots : k = Min(same) /\ s[k] = at
    <3>1. same \subseteq Nat
      BY <1>2, KHeapAssumption DEF LeakSlots
    <3> QED
      BY <1>2, <1>5, <3>1, MinFacts
  <2>2. PICK t : t = [s EXCEPT ![k] = NoBlock]
    OBVIOUS
  <2>3. t \in [LeakSlots -> Blocks \cup {NoBlock}] /\ t[k] = NoBlock /\ \A i \in LeakSlots \ {k} : t[i] = s[i]
    BY <2>2
  <2>4. leaks' = [leaks EXCEPT !.slots[k] = NoBlock]
    BY <1>1, <1>2, <1>5, <2>1 DEF TrackedFree, Unrecorded
  <2>5. leaks' = [slots |-> t, next |-> n, overwritten |-> o, moved |-> m]
    BY <1>1, <2>2, <2>4
  <2>6. ASSUME ~m PROVE Reported(t, held') /\ (~o => \A b \in held' : \E i \in LeakSlots : t[i] = b)
    <3>1. Reported(s, held) /\ (~o => \A b \in held : \E i \in LeakSlots : s[i] = b)
      BY <1>1, <2>6
    <3>2. Reported(t, held')
      BY <1>3, <2>1, <2>3, <3>1 DEF Reported
    <3>3. ASSUME ~o, NEW b \in held' PROVE \E i \in LeakSlots : t[i] = b
      <4>1. PICK i \in LeakSlots : s[i] = b
        BY <1>3, <3>1, <3>3
      <4> QED
        BY <1>3, <2>1, <2>3, <4>1
    <3> QED
      BY <3>2, <3>3
  <2> QED
    BY <1>3, <2>3, <2>5, <2>6 DEF LeakInv
<1> QED
  BY <1>4, <1>5

LEMMA LeakGoesOn ==
  ASSUME LeakInv, [LeakNext]_leakVars
  PROVE  LeakInv'
<1>1. CASE UNCHANGED leakVars
  BY <1>1 DEF leakVars, LeakInv
<1>2. ASSUME NEW at \in Blocks \ held, NEW from \in held, UntrackedMove(from, at) PROVE LeakInv'
  <2>1. PICK s \in [LeakSlots -> Blocks \cup {NoBlock}], n \in LeakSlots, o \in BOOLEAN, m \in BOOLEAN :
          leaks = [slots |-> s, next |-> n, overwritten |-> o, moved |-> m] /\ held \subseteq Blocks
    BY DEF LeakInv
  <2>2. leaks' = [slots |-> s, next |-> n, overwritten |-> o, moved |-> TRUE] /\ held' \subseteq Blocks
    BY <1>2, <2>1 DEF UntrackedMove
  <2> QED
    BY <2>2 DEF LeakInv
<1> QED
  BY <1>1, <1>2, AllocKeepsLeaks, FreeKeepsLeaks DEF LeakNext

LEMMA LeakPromises ==
  ASSUME LeakInv
  PROVE  LeaksListed
<1>1. PICK s \in [LeakSlots -> Blocks \cup {NoBlock}], n \in LeakSlots, o \in BOOLEAN, m \in BOOLEAN :
        /\ leaks = [slots |-> s, next |-> n, overwritten |-> o, moved |-> m]
        /\ held \subseteq Blocks
        /\ ~m => Reported(s, held) /\ (~o => \A b \in held : \E i \in LeakSlots : s[i] = b)
  BY DEF LeakInv
<1>2. PICK listed : listed = {i \in LeakSlots : s[i] # NoBlock}
  OBVIOUS
<1>3. leaks.slots = s /\ leaks.overwritten = o /\ leaks.moved = m
  BY <1>1
<1> SUFFICES ASSUME ~m
    PROVE  /\ {s[i] : i \in listed} \subseteq held
           /\ \A i, j \in listed : s[i] = s[j] => i = j
           /\ ~o => Cardinality(listed) = Cardinality(held)
  BY <1>2, <1>3 DEF LeaksListed
<1>4. Reported(s, held) /\ (~o => \A b \in held : \E i \in LeakSlots : s[i] = b)
  BY <1>1
<1>5. {s[i] : i \in listed} \subseteq held /\ \A i, j \in listed : s[i] = s[j] => i = j
  BY <1>2, <1>4 DEF Reported
<1>6. ASSUME ~o PROVE Cardinality(listed) = Cardinality(held)
  <2>1. PICK f : f = [i \in listed |-> s[i]]
    OBVIOUS
  <2>2. f \in [listed -> held] /\ \A i \in listed : f[i] = s[i]
    BY <1>5, <2>1
  <2>3. \A i, j \in listed : f[i] = f[j] => i = j
    BY <1>5, <2>2
  <2>4. ASSUME NEW b \in held PROVE \E i \in listed : f[i] = b
    <3>1. PICK i \in LeakSlots : s[i] = b
      BY <1>4, <1>6
    <3>2. b # NoBlock
      BY <1>1, BlocksReal
    <3> QED
      BY <1>2, <2>2, <3>1, <3>2
  <2>5. ExistsBijection(listed, held)
    BY <2>2, <2>3, <2>4 DEF ExistsBijection, Bijection, Injection, Surjection, IsInjective
  <2>6. IsFiniteSet(listed)
    <3>1. IsFiniteSet(LeakSlots)
      BY FS_Interval, KHeapAssumption DEF LeakSlots
    <3> QED
      BY <1>2, <3>1, FS_Subset
  <2> QED
    BY <2>5, <2>6, FS_Bijection
<1> QED
  BY <1>5, <1>6

-----------------------------------------------------------------------------
(* Programs and the page tables                                           *)

Virtuals == 0 .. PDSIZE * PTSIZE - 1
Dirs     == 0 .. PDSIZE - 1
PtIds    == 0 .. PTSIZE - 1
Dir(v)   == v \div PTSIZE
Nth(v)   == v % PTSIZE
OwnFrames == RamFrames \ {0}

LEMMA PageParts ==
  ASSUME NEW v \in Virtuals
  PROVE  Dir(v) \in Dirs /\ Nth(v) \in PtIds /\ v = PTSIZE * Dir(v) + Nth(v)
<1>1. PICK n \in Nat, q \in Nat \ {0} : n = PDSIZE /\ q = PTSIZE
  BY ElfAssumption
<1>2. v \in 0 .. n * q - 1
  BY <1>1 DEF Virtuals
<1>3. v \in Nat /\ v < n * q
  BY <1>2
<1>4. PICK d \in Int : d = v \div q
  BY <1>3
<1>5. PICK i \in 0 .. q - 1 : i = v % q
  BY <1>3
<1>6. v = q * d + i
  BY <1>3, <1>4, <1>5
<1>7. d >= 0
  BY <1>3, <1>5, <1>6, SMTT(30)
<1>8. d < n
  BY <1>3, <1>5, <1>6, SMTT(30)
<1> QED
  BY <1>1, <1>4, <1>5, <1>6, <1>7, <1>8 DEF Dir, Nth, Dirs, PtIds

LEMMA PageApart ==
  ASSUME NEW v \in Virtuals, NEW w \in Virtuals, Dir(v) = Dir(w), Nth(v) = Nth(w)
  PROVE  v = w
BY PageParts, Zenon

LEMMA LayoutOne ==
  ASSUME NEW d \in Dirs
  PROVE  Layout(d) \in [kind : {"none", "huge"}, base : Virtuals]
<1>1. PICK n \in Nat, q \in Nat \ {0}, m \in Nat, r \in Nat : n = PDSIZE /\ q = PTSIZE /\ m = MIRROR /\ r = RAMTABLES
  BY ElfAssumption
<1>2. 0 < r /\ r <= m /\ m + r <= n /\ d \in 0 .. n - 1
  BY <1>1, ElfAssumption DEF Dirs
<1>3. ASSUME NEW e \in 0 .. n - 1 PROVE e * q \in Virtuals
  <2>1. e * q \in Nat /\ e * q + q = (e + 1) * q
    BY <1>1
  <2>2. (e + 1) * q <= n * q
    BY <1>1, <1>3, SMTT(30)
  <2>3. n * q \in Nat
    BY <1>1
  <2>4. e * q <= n * q - 1
    BY <1>1, <2>1, <2>2, <2>3
  <2> QED
    BY <1>1, <2>1, <2>3, <2>4 DEF Virtuals
<1>4. 0 \in Virtuals
  <2>1. 0 * q = 0 /\ 0 \in 0 .. n - 1
    BY <1>1, <1>2
  <2>2. 0 * q \in Virtuals
    BY <1>3, <2>1
  <2> QED
    BY <2>1, <2>2
<1>5. Layout(d) = [kind |-> "huge", base |-> d * PTSIZE] \/ Layout(d) = NoTable
      \/ (d \in MIRROR .. MIRROR + RAMTABLES - 1 /\ Layout(d) = [kind |-> "huge", base |-> (d - MIRROR) * PTSIZE])
  BY DEF Layout
<1>6. d * PTSIZE \in Virtuals
  BY <1>1, <1>2, <1>3
<1>7. d \in MIRROR .. MIRROR + RAMTABLES - 1 => (d - MIRROR) * PTSIZE \in Virtuals
  <2>1. d \in MIRROR .. MIRROR + RAMTABLES - 1 => d - m \in 0 .. n - 1
    BY <1>1, <1>2
  <2>2. ASSUME NEW e \in Int, e = d - m, e \in 0 .. n - 1 PROVE (d - MIRROR) * PTSIZE \in Virtuals
    <3>1. e * q \in Virtuals
      BY <1>3, <2>2
    <3> QED
      BY <1>1, <2>2, <3>1
  <2> QED
    BY <1>1, <1>2, <2>1, <2>2
<1> QED
  BY <1>4, <1>5, <1>6, <1>7 DEF NoTable

(* the pages that no large page covers                                     *)
LEMMA LayoutFree ==
  ASSUME NEW d \in (RAMTABLES .. MIRROR - 1) \ MmioTables
  PROVE  Layout(d) = NoTable
<1>1. d \notin 0 .. RAMTABLES - 1 /\ d \notin MmioTables /\ d \notin MIRROR .. MIRROR + RAMTABLES - 1
  BY ElfAssumption
<1> QED
  BY <1>1 DEF Layout

PdEntries   == [kind : {"none", "huge", "table"}, base : Virtuals]
Directories == [Dirs -> PdEntries]
PdEntry(d, e) ==
  /\ e \in PdEntries
  /\ \/ e = Layout(d)
     \/ Layout(d).kind = "none" /\ e.kind = "table" /\ e.base \in OwnFrames

(* what a page may be mapped to                                            *)
MappedTo(v, f) ==
  \/ f = Absent
  \/ f \in OwnFrames /\ v \notin DevicePages
  \/ f = PDSIZE * PTSIZE + v /\ v \in DevicePages

TablesAre(pd, pt, to) ==
  /\ pd \in Directories /\ \A d \in Dirs : PdEntry(d, pd[d])
  /\ DOMAIN pt = RamFrames /\ \A t \in RamFrames : DOMAIN pt[t] = PtIds
  /\ DOMAIN to = Virtuals /\ \A v \in Virtuals : MappedTo(v, to[v])
  /\ \A v \in Virtuals :
       to[v] = IF pd[Dir(v)].kind = "table" THEN pt[pd[Dir(v)].base][Nth(v)] ELSE Absent

FramesAre(pd, left, to) ==
  /\ left \subseteq OwnFrames
  /\ \A d \in Dirs : pd[d].kind = "table" =>
       pd[d].base \notin left /\ \A e \in Dirs : pd[e].kind = "table" /\ pd[e].base = pd[d].base => d = e
  /\ \A v \in Virtuals : to[v] \in RamFrames =>
       /\ to[v] \notin left
       /\ \A d \in Dirs : pd[d].kind = "table" => pd[d].base # to[v]
       /\ \A w \in Virtuals : to[w] = to[v] => v = w

LEMMA FrameFacts ==
  /\ Absent \notin RamFrames /\ OwnFrames \subseteq RamFrames /\ OwnFrames \subseteq Nat /\ OwnFrames \subseteq Virtuals
  /\ \A v \in Virtuals : PDSIZE * PTSIZE + v \notin RamFrames /\ PDSIZE * PTSIZE + v # Absent
<1>1. PICK n \in Nat, q \in Nat \ {0}, r \in Nat : n = PDSIZE /\ q = PTSIZE /\ r = RAMTABLES /\ r <= n
  BY ElfAssumption
<1>2. PICK x \in Nat, y \in Nat : x = r * q /\ y = n * q
  BY <1>1
<1>3. x <= y
  <2>1. r * q <= n * q
    BY <1>1, SMTT(30)
  <2> QED
    BY <1>2, <2>1
<1>4. RamFrames = 0 .. x - 1 /\ Virtuals = 0 .. y - 1 /\ PDSIZE * PTSIZE = y
  BY <1>1, <1>2 DEF RamFrames, Virtuals
<1> QED
  BY <1>3, <1>4 DEF OwnFrames, Absent

(* A page enters a table: one that is there, or one that takes a frame of  *)
(* those left.                                                             *)
MayMap(pd, free, v, f, left, t) ==
  /\ left \subseteq free /\ MappedTo(v, f) /\ f # Absent
  /\ f \in RamFrames => f \in free /\ f \notin left
  /\ \/ pd[Dir(v)].kind = "table" /\ pd[Dir(v)].base = t
     \/ pd[Dir(v)].kind = "none" /\ t \in left
TableRow(pd, pt, v, t) == IF pd[Dir(v)].kind = "table" THEN pt[t] ELSE [i \in PtIds |-> Absent]
IsMapped(pd, pt, to, pd1, pt1, to1, v, f, t) ==
  /\ pd1 = [pd EXCEPT ![Dir(v)] = [kind |-> "table", base |-> t]]
  /\ pt1 = [pt EXCEPT ![t] = [TableRow(pd, pt, v, t) EXCEPT ![Nth(v)] = f]]
  /\ to1 = [to EXCEPT ![v] = f]

LEMMA MapInKeeps ==
  ASSUME NEW pd, NEW pt, NEW free, NEW to, TablesAre(pd, pt, to), FramesAre(pd, free, to),
         NEW v \in Virtuals, NEW f, NEW left, NEW t, MayMap(pd, free, v, f, left, t),
         NEW pd1, NEW pt1, NEW to1, IsMapped(pd, pt, to, pd1, pt1, to1, v, f, t)
  PROVE  TablesAre(pd1, pt1, to1) /\ FramesAre(pd1, left \ {t}, to1)
<1> USE DEF MayMap
<1> DEFINE row == TableRow(pd, pt, v, t)
<1>20. row = IF pd[Dir(v)].kind = "table" THEN pt[t] ELSE [i \in PtIds |-> Absent]
  BY DEF TableRow
<1>21. /\ pd1 = [pd EXCEPT ![Dir(v)] = [kind |-> "table", base |-> t]]
       /\ pt1 = [pt EXCEPT ![t] = [row EXCEPT ![Nth(v)] = f]]
       /\ to1 = [to EXCEPT ![v] = f]
  BY DEF IsMapped
<1> HIDE DEF row
<1>1. PICK d \in Dirs, i \in PtIds : d = Dir(v) /\ i = Nth(v)
  BY PageParts, Zenon
<1>2. \A w \in Virtuals : Dir(w) \in Dirs /\ Nth(w) \in PtIds /\ (Dir(w) = d /\ Nth(w) = i => w = v)
  BY <1>1, PageParts, PageApart, Zenon
<1>3. PdEntry(d, pd[d]) /\ Layout(d).kind \in {"none", "huge"}
  BY LayoutOne DEF TablesAre
<1>4. t \in OwnFrames /\ t \in RamFrames
  BY <1>1, <1>3, FrameFacts DEF PdEntry, FramesAre
<1>5. PICK en : en = [kind |-> "table", base |-> t]
  OBVIOUS
<1>6. en.kind = "table" /\ en.base = t
  BY <1>5
<1>7. PdEntry(d, en)
  <2>1. Layout(d).kind = "none"
    BY <1>1, <1>3 DEF PdEntry
  <2>2. t \in Virtuals
    BY <1>4, FrameFacts
  <2>3. en \in PdEntries
    BY <1>5, <2>2 DEF PdEntries
  <2> QED
    BY <1>4, <1>6, <2>1, <2>3 DEF PdEntry
<1>8. pd1 \in Directories /\ pd1[d] = en /\ \A e \in Dirs : e # d => pd1[e] = pd[e]
  BY <1>1, <1>5, <1>7, <1>21 DEF TablesAre, Directories, PdEntry
<1>9. PICK new : new = [row EXCEPT ![i] = f]
  OBVIOUS
<1>10. DOMAIN row = PtIds
  BY <1>4, <1>20 DEF TablesAre
<1>11. DOMAIN new = PtIds /\ new[i] = f /\ \A j \in PtIds : j # i => new[j] = row[j]
  BY <1>9, <1>10
<1>12. DOMAIN pt1 = RamFrames /\ pt1[t] = new /\ \A u \in RamFrames : u # t => pt1[u] = pt[u]
  BY <1>1, <1>4, <1>9, <1>21 DEF TablesAre
<1>13. DOMAIN to1 = Virtuals /\ to1[v] = f /\ \A w \in Virtuals : w # v => to1[w] = to[w]
  BY <1>21 DEF TablesAre
<1>14. ASSUME NEW e \in Dirs, e # d, pd[e].kind = "table" PROVE pd[e].base # t /\ pd[e].base \in RamFrames
  <2>1. PdEntry(e, pd[e]) /\ Layout(e).kind # "table"
    BY LayoutOne DEF TablesAre
  <2>2. pd[e].base \in RamFrames
    BY <1>14, <2>1, FrameFacts DEF PdEntry
  <2>3. pd[e].base # t
    BY <1>1, <1>14 DEF FramesAre
  <2> QED
    BY <2>2, <2>3
<1>15. ASSUME NEW w \in Virtuals
       PROVE  to1[w] = IF pd1[Dir(w)].kind = "table" THEN pt1[pd1[Dir(w)].base][Nth(w)] ELSE Absent
  <2>1. PICK e \in Dirs, j \in PtIds : e = Dir(w) /\ j = Nth(w)
    BY <1>2
  <2>2. to[w] = IF pd[e].kind = "table" THEN pt[pd[e].base][j] ELSE Absent
    BY <2>1, Zenon DEF TablesAre
  <2>3. CASE w = v
    BY <1>1, <1>6, <1>8, <1>11, <1>12, <1>13, <2>1, <2>3
  <2>4. CASE w # v /\ e = d
    <3>1. j # i
      BY <1>2, <2>1, <2>4
    <3>2. to1[w] = to[w] /\ pd1[e] = en
      BY <1>8, <1>13, <2>4
    <3>3. pt1[t][j] = row[j]
      BY <1>11, <1>12, <3>1
    <3>4. row[j] = to[w]
      BY <1>1, <1>20, <2>2, <2>4
    <3> QED
      BY <1>6, <2>1, <3>2, <3>3, <3>4
  <2>5. CASE e # d
    <3>1. to1[w] = to[w] /\ pd1[e] = pd[e]
      BY <1>1, <1>8, <1>13, <2>1, <2>5
    <3>2. CASE pd[e].kind = "table"
      BY <1>12, <1>14, <2>1, <2>2, <2>5, <3>1, <3>2
    <3>3. CASE pd[e].kind # "table"
      BY <2>1, <2>2, <3>1, <3>3
    <3> QED
      BY <3>2, <3>3
  <2> QED
    BY <2>3, <2>4, <2>5
<1>16. TablesAre(pd1, pt1, to1)
  <2>1. \A e \in Dirs : PdEntry(e, pd1[e])
    BY <1>7, <1>8 DEF TablesAre
  <2>2. \A u \in RamFrames : DOMAIN pt1[u] = PtIds
    BY <1>11, <1>12 DEF TablesAre
  <2>3. \A w \in Virtuals : MappedTo(w, to1[w])
    BY <1>13 DEF TablesAre
  <2> QED
    BY <1>8, <1>12, <1>13, <1>15, <2>1, <2>2, <2>3, Zenon DEF TablesAre
<1>17. ASSUME NEW e \in Dirs, pd1[e].kind = "table"
       PROVE  /\ pd1[e].base \notin left \ {t}
              /\ \A c \in Dirs : pd1[c].kind = "table" /\ pd1[c].base = pd1[e].base => e = c
  <2>1. pd1[e].base \notin left \ {t}
    BY <1>6, <1>8, <1>17 DEF FramesAre
  <2>2. ASSUME NEW c \in Dirs, pd1[c].kind = "table", pd1[c].base = pd1[e].base PROVE e = c
    <3>1. CASE e = d /\ c # d
      BY <1>6, <1>8, <1>14, <2>2, <3>1
    <3>2. CASE e # d /\ c = d
      BY <1>6, <1>8, <1>14, <1>17, <2>2, <3>2
    <3>3. CASE e # d /\ c # d
      BY <1>8, <1>17, <2>2, <3>3 DEF FramesAre
    <3> QED
      BY <3>1, <3>2, <3>3
  <2> QED
    BY <2>1, <2>2
<1>18. ASSUME NEW w \in Virtuals, to1[w] \in RamFrames
       PROVE  /\ to1[w] \notin left \ {t}
              /\ \A e \in Dirs : pd1[e].kind = "table" => pd1[e].base # to1[w]
              /\ \A x \in Virtuals : to1[x] = to1[w] => w = x
  <2>1. to1[w] \notin left \ {t}
    BY <1>13, <1>18 DEF FramesAre
  <2>2. t # to1[w]
    <3>1. CASE w = v
      <4>1. f \in free /\ f \notin left
        BY <1>13, <1>18, <3>1
      <4> QED
        BY <1>1, <1>13, <3>1, <4>1 DEF FramesAre
    <3>2. CASE w # v
      BY <1>1, <1>13, <1>18, <3>2 DEF FramesAre
    <3> QED
      BY <3>1, <3>2
  <2>3. ASSUME NEW e \in Dirs, pd1[e].kind = "table" PROVE pd1[e].base # to1[w]
    <3>1. CASE e = d
      BY <1>6, <1>8, <2>2, <3>1
    <3>2. CASE e # d /\ w = v
      <4>1. f \in free /\ to1[w] = f /\ pd1[e] = pd[e]
        BY <1>8, <1>13, <1>18, <3>2
      <4> QED
        BY <2>3, <4>1 DEF FramesAre
    <3>3. CASE e # d /\ w # v
      BY <1>8, <1>13, <1>18, <2>3, <3>3 DEF FramesAre
    <3> QED
      BY <3>1, <3>2, <3>3
  <2>4. ASSUME NEW x \in Virtuals, to1[x] = to1[w] PROVE w = x
    <3>1. ASSUME NEW z \in Virtuals, z # v, to[z] = f, f \in RamFrames PROVE FALSE
      BY <3>1 DEF FramesAre
    <3>2. CASE w # v /\ x # v
      BY <1>13, <1>18, <2>4, <3>2 DEF FramesAre
    <3> QED
      BY <1>13, <1>18, <2>4, <3>1, <3>2
  <2> QED
    BY <2>1, <2>3, <2>4
<1>19. left \ {t} \subseteq OwnFrames
  BY DEF FramesAre
<1> QED
  BY <1>16, <1>17, <1>18, <1>19, Zenon DEF FramesAre

(* When nothing is mapped frames may be gone, but no more.                 *)
LEMMA FewerLeft ==
  ASSUME NEW pd, NEW free, NEW to, FramesAre(pd, free, to), NEW left \in SUBSET free
  PROVE  FramesAre(pd, left, to)
BY DEF FramesAre

LEMMA PagingMapKeeps ==
  ASSUME TablesAre(kernel_pd, ptables, mapped), FramesAre(kernel_pd, pmmFree, mapped),
         NEW v \in Virtuals, NEW f, NEW left \in SUBSET pmmFree, MappedTo(v, f), f # Absent,
         f \in RamFrames => f \in pmmFree /\ f \notin left,
         PagingMap(v, f, left)
  PROVE  /\ TablesAre(kernel_pd, ptables, mapped)' /\ FramesAre(kernel_pd, pmmFree, mapped)'
         /\ \A w \in Virtuals : w # v => mapped'[w] = mapped[w]
<1>1. PICK d \in Dirs : d = Dir(v)
  BY PageParts, Zenon
<1>2. kernel_pd[d].kind \in {"none", "huge", "table"}
  BY DEF TablesAre, PdEntry, PdEntries
<1>3. \/ MapFails(left)
      \/ kernel_pd[d].kind = "table" /\ MapIn(kernel_pd[d].base, v, f, left)
      \/ kernel_pd[d].kind = "none" /\ left # {} /\ MapIn(Min(left), v, f, left)
  BY <1>1, <1>2 DEF PagingMap, Dir
<1>4. CASE MapFails(left)
  <2>1. FramesAre(kernel_pd, left, mapped)
    BY FewerLeft, Zenon
  <2> QED
    BY <1>4, <2>1 DEF MapFails
<1>5. ASSUME NEW t, MapIn(t, v, f, left),
             \/ kernel_pd[d].kind = "table" /\ kernel_pd[d].base = t
             \/ kernel_pd[d].kind = "none" /\ t \in left
      PROVE  /\ TablesAre(kernel_pd', ptables', mapped') /\ FramesAre(kernel_pd', pmmFree', mapped')
             /\ \A w \in Virtuals : w # v => mapped'[w] = mapped[w]
  <2>1. PICK row : row = TableRow(kernel_pd, ptables, v, t)
    OBVIOUS
  <2>2. /\ ptables' = [ptables EXCEPT ![t] = [row EXCEPT ![Nth(v)] = f]]
        /\ kernel_pd' = [kernel_pd EXCEPT ![Dir(v)] = [kind |-> "table", base |-> t]]
        /\ pmmFree' = left \ {t} /\ mapped' = [mapped EXCEPT ![v] = f]
    <3>1. row = IF kernel_pd[v \div PTSIZE].kind = "table" THEN ptables[t] ELSE [i \in 0 .. PTSIZE - 1 |-> Absent]
      BY <2>1 DEF TableRow, Dir, PtIds
    <3>2. /\ ptables' = [ptables EXCEPT ![t] = [row EXCEPT ![v % PTSIZE] = f]]
          /\ kernel_pd' = [kernel_pd EXCEPT ![v \div PTSIZE] = [kind |-> "table", base |-> t]]
          /\ pmmFree' = left \ {t} /\ mapped' = [mapped EXCEPT ![v] = f]
      BY <1>5, <3>1 DEF MapIn
    <3> QED
      BY <3>2 DEF Dir, Nth
  <2>4. IsMapped(kernel_pd, ptables, mapped, kernel_pd', ptables', mapped', v, f, t)
    BY <2>1, <2>2, Zenon DEF IsMapped
  <2>5. MayMap(kernel_pd, pmmFree, v, f, left, t)
    BY <1>1, <1>5 DEF MayMap
  <2>3. TablesAre(kernel_pd', ptables', mapped') /\ FramesAre(kernel_pd', left \ {t}, mapped')
    BY <2>4, <2>5, MapInKeeps, Zenon
  <2> QED
    BY <2>2, <2>3 DEF TablesAre
<1>6. left # {} => Min(left) \in left
  <2>1. left \subseteq Nat
    BY FrameFacts DEF FramesAre
  <2> QED
    BY <2>1, MinFacts
<1> QED
  BY <1>3, <1>4, <1>5, <1>6

LEMMA PagingUnmapKeeps ==
  ASSUME TablesAre(kernel_pd, ptables, mapped), FramesAre(kernel_pd, pmmFree, mapped),
         NEW v \in Virtuals, PagingUnmap(v)
  PROVE  /\ TablesAre(kernel_pd, ptables, mapped)' /\ FramesAre(kernel_pd, pmmFree, mapped)'
         /\ mapped' = [mapped EXCEPT ![v] = Absent]
<1>1. PICK d \in Dirs, i \in PtIds : d = Dir(v) /\ i = Nth(v)
  BY PageParts, Zenon
<1>2. \A w \in Virtuals : Dir(w) \in Dirs /\ Nth(w) \in PtIds /\ (Dir(w) = d /\ Nth(w) = i => w = v)
  BY <1>1, PageParts, PageApart, Zenon
<1>3. PICK t : t = kernel_pd[d].base
  OBVIOUS
<1>4. kernel_pd[d].kind = "table" /\ GetPhys(v) \in RamFrames
  BY <1>1 DEF PagingUnmap, Dir
<1>5. GetPhys(v) = ptables[t][i]
  BY <1>1, <1>3, <1>4 DEF GetPhys, Dir, Nth
<1>6. GetPhys(v) = mapped[v]
  BY <1>1, <1>3, <1>4, <1>5, Zenon DEF TablesAre
<1>7. PICK f : f = mapped[v]
  OBVIOUS
<1>8. /\ ptables' = [ptables EXCEPT ![t][i] = Absent] /\ pmmFree' = pmmFree \cup {f}
      /\ mapped' = [mapped EXCEPT ![v] = Absent] /\ kernel_pd' = kernel_pd
  BY <1>1, <1>3, <1>6, <1>7 DEF PagingUnmap, Dir, Nth
<1>9. \A e \in Dirs : kernel_pd[e].kind = "table" => kernel_pd[e].base \in RamFrames
  BY LayoutOne, FrameFacts DEF TablesAre, PdEntry
<1>10. t \in RamFrames
  BY <1>3, <1>4, <1>9
<1>11. f \in OwnFrames
  <2>1. MappedTo(v, f) /\ f \in RamFrames
    BY <1>4, <1>6, <1>7 DEF TablesAre
  <2> QED
    BY <2>1, FrameFacts DEF MappedTo
<1>12. PICK row : row = ptables[t]
  OBVIOUS
<1>13. DOMAIN row = PtIds
  BY <1>10, <1>12 DEF TablesAre
<1>14. PICK new : new = [row EXCEPT ![i] = Absent]
  OBVIOUS
<1>15. DOMAIN new = PtIds /\ new[i] = Absent /\ \A j \in PtIds : j # i => new[j] = row[j]
  BY <1>13, <1>14
<1>16. DOMAIN ptables' = RamFrames /\ ptables'[t] = new /\ \A u \in RamFrames : u # t => ptables'[u] = ptables[u]
  BY <1>8, <1>10, <1>12, <1>14 DEF TablesAre
<1>17. DOMAIN mapped' = Virtuals /\ mapped'[v] = Absent /\ \A w \in Virtuals : w # v => mapped'[w] = mapped[w]
  BY <1>8 DEF TablesAre
<1>18. ASSUME NEW w \in Virtuals
       PROVE  mapped'[w] = IF kernel_pd'[Dir(w)].kind = "table" THEN ptables'[kernel_pd'[Dir(w)].base][Nth(w)] ELSE Absent
  <2>1. PICK e \in Dirs, j \in PtIds : e = Dir(w) /\ j = Nth(w)
    BY <1>2
  <2>2. mapped[w] = IF kernel_pd[e].kind = "table" THEN ptables[kernel_pd[e].base][j] ELSE Absent
    BY <2>1, Zenon DEF TablesAre
  <2>3. CASE w = v
    BY <1>1, <1>3, <1>4, <1>8, <1>15, <1>16, <1>17, <2>1, <2>3
  <2>4. CASE w # v /\ e = d
    <3>1. j # i
      BY <1>2, <2>1, <2>4
    <3> QED
      BY <1>3, <1>4, <1>8, <1>12, <1>15, <1>16, <1>17, <2>1, <2>2, <2>4, <3>1
  <2>5. CASE w # v /\ e # d
    <3>1. kernel_pd[e].kind = "table" => kernel_pd[e].base # t
      BY <1>3, <1>4, <2>5 DEF FramesAre
    <3> QED
      BY <1>8, <1>9, <1>16, <1>17, <2>1, <2>2, <2>5, <3>1
  <2> QED
    BY <2>3, <2>4, <2>5
<1>19. TablesAre(kernel_pd', ptables', mapped')
  <2>1. \A u \in RamFrames : DOMAIN ptables'[u] = PtIds
    BY <1>15, <1>16 DEF TablesAre
  <2>2. \A w \in Virtuals : MappedTo(w, mapped'[w])
    BY <1>17 DEF TablesAre, MappedTo
  <2>3. kernel_pd' \in Directories /\ \A e \in Dirs : PdEntry(e, kernel_pd'[e])
    BY <1>8 DEF TablesAre
  <2> QED
    BY <1>16, <1>17, <1>18, <2>1, <2>2, <2>3, Zenon DEF TablesAre
<1>20. \A w \in Virtuals : w # v => mapped[w] # f
  BY <1>7, <1>11, FrameFacts DEF FramesAre
<1>21. \A e \in Dirs : kernel_pd[e].kind = "table" => kernel_pd[e].base # f
  BY <1>7, <1>11, FrameFacts DEF FramesAre
<1>22. FramesAre(kernel_pd', pmmFree', mapped')
  <2>1. pmmFree' \subseteq OwnFrames
    BY <1>8, <1>11 DEF FramesAre
  <2>2. ASSUME NEW w \in Virtuals, mapped'[w] \in RamFrames PROVE w # v /\ mapped'[w] = mapped[w]
    BY <1>17, <2>2, FrameFacts
  <2> QED
    BY <1>8, <1>20, <1>21, <2>1, <2>2 DEF FramesAre
<1> QED
  BY <1>8, <1>19, <1>22

LEMMA GetPhysTrue ==
  ASSUME TablesAre(kernel_pd, ptables, mapped), NEW v \in Virtuals
  PROVE  GetPhys(v) = IF Layout(Dir(v)).kind = "huge" THEN Layout(Dir(v)).base + Nth(v) ELSE mapped[v]
<1>1. PICK d \in Dirs, i \in PtIds : d = Dir(v) /\ i = Nth(v)
  BY PageParts, Zenon
<1>2. PdEntry(d, kernel_pd[d]) /\ Layout(d).kind \in {"none", "huge"}
  BY LayoutOne DEF TablesAre
<1>3. mapped[v] = IF kernel_pd[d].kind = "table" THEN ptables[kernel_pd[d].base][i] ELSE Absent
  BY <1>1, Zenon DEF TablesAre
<1>4. PICK e : e = kernel_pd[d]
  OBVIOUS
<1>5. GetPhys(v) = CASE e.kind = "none" -> Absent [] e.kind = "huge" -> e.base + i [] e.kind = "table" -> ptables[e.base][i]
  BY <1>1, <1>4 DEF GetPhys, Dir, Nth
<1>6. CASE Layout(d).kind = "huge"
  <2>1. e = Layout(d)
    BY <1>2, <1>4, <1>6 DEF PdEntry
  <2> QED
    BY <1>1, <1>5, <1>6, <2>1
<1>7. CASE Layout(d).kind = "none"
  <2>1. e.kind = "none" \/ e.kind = "table"
    BY <1>2, <1>4, <1>7 DEF PdEntry
  <2> QED
    BY <1>1, <1>3, <1>4, <1>5, <1>7, <2>1
<1> QED
  BY <1>2, <1>6, <1>7

-----------------------------------------------------------------------------
PagesOf(f, i) == FirstPage(f.segments[i]) .. LastPage(f.segments[i])
WordsOf(f, i) == f.segments[i].vaddr .. f.segments[i].vaddr + f.segments[i].memsz - 1
Within(a)     == a % PAGEWORDS

LEMMA SegmentFacts ==
  ASSUME NEW f \in Programs, NEW i \in Loads(f)
  PROVE  /\ Len(f.segments) \in Nat /\ i \in 1 .. Len(f.segments)
         /\ f.segments[i].vaddr \in Nat /\ f.segments[i].memsz \in Nat \ {0}
         /\ PagesOf(f, i) \cap DevicePages = {}
         /\ \A v \in PagesOf(f, i) : Dir(v) \in (RAMTABLES .. MIRROR - 1) \ MmioTables
<1>1. PICK sg, S : sg = f.segments /\ S = Range(f.segments)
  OBVIOUS
<1>2. sg \in Seq(S)
  BY <1>1, ElfAssumption, Zenon
<1>3. Len(sg) \in Nat /\ DOMAIN sg = 1 .. Len(sg)
  BY <1>2
<1>4. i \in {j \in DOMAIN f.segments : f.segments[j].load}
  BY DEF Loads
<1>5. PICK s : s = f.segments[i]
  OBVIOUS
<1>6. /\ {s.vaddr, s.memsz, s.offset, s.filesz} \subseteq Nat
      /\ 0 < s.memsz
      /\ (s.vaddr \div PAGEWORDS .. (s.vaddr + s.memsz - 1) \div PAGEWORDS) \cap DevicePages = {}
      /\ \A v \in s.vaddr \div PAGEWORDS .. (s.vaddr + s.memsz - 1) \div PAGEWORDS :
           v \div PTSIZE \in (RAMTABLES .. MIRROR - 1) \ MmioTables
  BY <1>4, <1>5, ElfAssumption, Zenon
<1>7. s.vaddr \in Nat /\ s.memsz \in Nat \ {0}
  BY <1>6
<1>8. PagesOf(f, i) = s.vaddr \div PAGEWORDS .. (s.vaddr + s.memsz - 1) \div PAGEWORDS
  BY <1>5, Zenon DEF PagesOf, FirstPage, LastPage, PageOf
<1>9. PagesOf(f, i) \cap DevicePages = {}
  BY <1>6, <1>8, Zenon
<1>10. \A v \in PagesOf(f, i) : Dir(v) \in (RAMTABLES .. MIRROR - 1) \ MmioTables
  BY <1>6, <1>8, Zenon DEF Dir
<1> QED
  BY <1>1, <1>3, <1>4, <1>5, <1>7, <1>9, <1>10

(* dividing keeps the order                                                *)
LEMMA DivOrder ==
  ASSUME NEW q \in Nat \ {0}, NEW x \in Int, NEW y \in Int, x <= y
  PROVE  (x \div q) \in Int /\ (y \div q) \in Int /\ x \div q <= y \div q
<1>1. PICK d \in Int, r \in 0 .. q - 1 : d = x \div q /\ r = x % q /\ x = q * d + r
  OBVIOUS
<1>2. PICK e \in Int, s \in 0 .. q - 1 : e = y \div q /\ s = y % q /\ y = q * e + s
  OBVIOUS
<1>3. d <= e
  <2> SUFFICES ASSUME e + 1 <= d PROVE FALSE
    BY <1>1, <1>2
  <2>1. q * (e + 1) <= q * d
    BY SMTT(30)
  <2>2. q * (e + 1) = q * e + q
    OBVIOUS
  <2> QED
    BY <1>1, <1>2, <2>1, <2>2
<1> QED
  BY <1>1, <1>2, <1>3

LEMMA PagesOfSegment ==
  ASSUME NEW f \in Programs, NEW i \in Loads(f)
  PROVE  /\ FirstPage(f.segments[i]) \in Nat /\ LastPage(f.segments[i]) \in Int
         /\ \A v \in PagesOf(f, i) : v \in Virtuals /\ v \notin DevicePages /\ Layout(Dir(v)) = NoTable
         /\ \A a \in WordsOf(f, i) : PageOf(a) \in PagesOf(f, i)
<1>1. PICK x \in Nat, z \in Nat \ {0} : x = f.segments[i].vaddr /\ z = f.segments[i].memsz
  BY SegmentFacts, Zenon
<1>2. PICK w \in Nat \ {0} : w = PAGEWORDS
  BY ElfAssumption
<1>3. PICK lo \in Int, hi \in Int : lo = FirstPage(f.segments[i]) /\ hi = LastPage(f.segments[i])
                                    /\ lo = x \div w /\ hi = (x + z - 1) \div w
  BY <1>1, <1>2 DEF FirstPage, LastPage, PageOf
<1>4. lo >= 0
  <2>1. 0 \div w <= x \div w
    BY DivOrder
  <2>2. 0 \div w = 0
    <3>1. (w * 0 + 0) \div w = 0
      BY DivUnique
    <3>2. w * 0 + 0 = 0
      OBVIOUS
    <3> QED
      BY <3>1, <3>2
  <2> QED
    BY <1>3, <2>1, <2>2
<1>5. ASSUME NEW a \in WordsOf(f, i) PROVE PageOf(a) \in PagesOf(f, i)
  <2>1. a \in Nat /\ x <= a /\ a <= x + z - 1 /\ x + z - 1 \in Int
    BY <1>1, <1>5 DEF WordsOf
  <2>2. x \div w <= a \div w /\ a \div w \in Int
    BY <2>1, DivOrder
  <2>3. a \div w <= (x + z - 1) \div w
    BY <2>1, DivOrder
  <2> QED
    BY <1>2, <1>3, <2>2, <2>3 DEF PagesOf, PageOf
<1>6. ASSUME NEW v \in PagesOf(f, i) PROVE v \in Virtuals /\ v \notin DevicePages /\ Layout(Dir(v)) = NoTable
  <2>1. v \notin DevicePages
    BY <1>6, SegmentFacts
  <2>2. Dir(v) \in (RAMTABLES .. MIRROR - 1) \ MmioTables
    BY <1>6, SegmentFacts, Zenon
  <2>3. Layout(Dir(v)) = NoTable
    BY <2>2, LayoutFree, Zenon
  <2>4. v \in Nat
    BY <1>3, <1>4, <1>6 DEF PagesOf
  <2>5. PICK n \in Nat, q \in Nat \ {0} : n = PDSIZE /\ q = PTSIZE
    BY ElfAssumption
  <2>6. PICK d \in Int, r \in 0 .. q - 1 : d = v \div q /\ r = v % q /\ v = q * d + r
    BY <2>4
  <2>7. d <= n - 1
    <3>1. d = Dir(v)
      BY <2>5, <2>6 DEF Dir
    <3> QED
      BY <2>2, <2>5, <3>1, ElfAssumption
  <2>8. q * d <= q * (n - 1)
    BY <2>7, SMTT(30)
  <2>9. q * (n - 1) = n * q - q
    OBVIOUS
  <2>10. v <= n * q - 1
    BY <2>6, <2>8, <2>9
  <2>11. v \in Virtuals
    BY <2>4, <2>5, <2>10 DEF Virtuals
  <2> QED
    BY <2>1, <2>3, <2>11
<1> QED
  BY <1>3, <1>4, <1>5, <1>6

LEMMA WordsApart ==
  ASSUME NEW a \in Nat, NEW b \in Nat, PageOf(a) = PageOf(b), Within(a) = Within(b)
  PROVE  a = b
<1>1. PICK w \in Nat \ {0} : w = PAGEWORDS
  BY ElfAssumption
<1>2. PICK d \in Int, r \in 0 .. w - 1 : d = a \div w /\ r = a % w /\ a = w * d + r
  OBVIOUS
<1>3. PICK e \in Int, s \in 0 .. w - 1 : e = b \div w /\ s = b % w /\ b = w * e + s
  OBVIOUS
<1>4. d = e /\ r = s
  BY <1>1, <1>2, <1>3 DEF PageOf, Within
<1> QED
  BY <1>2, <1>3, <1>4

(* After segment m, where the pages of those up to k are not looked at: a  *)
(* word of an earlier segment is where its page is.                        *)
WordsKept(f, m, k, to, ws) ==
  \A i \in Loads(f) : i <= m =>
    \A a \in WordsOf(f, i) :
      (/\ \A j \in Loads(f) : i < j /\ j <= k => PageOf(a) \notin PagesOf(f, j)
       /\ to[PageOf(a)] # Absent) =>
        ws[to[PageOf(a)]][Within(a)] = SegmentWord(f, f.segments[i], a)

ElfJobs == [phase : {"idle", "load", "done", "panic"}, file : Programs \cup {{}}, segment : Nat, page : Int]

JobKept(e, to, ws) ==
  /\ e \in ElfJobs
  /\ e.phase = "load" =>
       /\ e.file \in Programs /\ e.segment \in Loads(e.file)
       /\ FirstPage(e.file.segments[e.segment]) <= e.page
       /\ WordsKept(e.file, e.segment - 1, e.segment, to, ws)
  /\ e.phase = "done" =>
       e.file \in Programs /\ WordsKept(e.file, Len(e.file.segments), Len(e.file.segments), to, ws)

ElfInv ==
  /\ TablesAre(kernel_pd, ptables, mapped)
  /\ FramesAre(kernel_pd, pmmFree, mapped)
  /\ JobKept(elf, mapped, words)

LEMMA LoadPages ==
  ASSUME NEW f \in Programs, NEW i \in Loads(f), NEW a \in WordsOf(f, i)
  PROVE  /\ a \in Nat /\ PageOf(a) \in PagesOf(f, i) /\ PageOf(a) \in Virtuals
         /\ PageOf(a) \notin DevicePages /\ Layout(Dir(PageOf(a))).kind # "huge"
<1>1. PageOf(a) \in PagesOf(f, i)
  BY PagesOfSegment, Zenon
<1>2. PageOf(a) \in Virtuals /\ PageOf(a) \notin DevicePages /\ Layout(Dir(PageOf(a))) = NoTable
  BY <1>1, PagesOfSegment, Zenon
<1>3. a \in Nat
  <2>1. PICK x \in Nat, z \in Nat \ {0} : x = f.segments[i].vaddr /\ z = f.segments[i].memsz
    BY SegmentFacts, Zenon
  <2> QED
    BY <2>1 DEF WordsOf
<1> QED
  BY <1>1, <1>2, <1>3 DEF NoTable

(* Pages that are not a segment's may be mapped or given back meanwhile.   *)
LEMMA OtherPage ==
  ASSUME NEW to, NEW ws, NEW e, JobKept(e, to, ws), NEW v, NEW to1,
         \A w \in Virtuals : w # v => to1[w] = to[w],
         v \in DevicePages \/ to1[v] = Absent
  PROVE  JobKept(e, to1, ws)
<1>1. ASSUME NEW f \in Programs, NEW m, NEW k, WordsKept(f, m, k, to, ws) PROVE WordsKept(f, m, k, to1, ws)
  <2> SUFFICES ASSUME NEW i \in Loads(f), i <= m, NEW a \in WordsOf(f, i),
                      \A j \in Loads(f) : i < j /\ j <= k => PageOf(a) \notin PagesOf(f, j),
                      to1[PageOf(a)] # Absent
               PROVE  ws[to1[PageOf(a)]][Within(a)] = SegmentWord(f, f.segments[i], a)
    BY Zenon DEF WordsKept
  <2>1. PageOf(a) \in Virtuals /\ PageOf(a) \notin DevicePages
    BY LoadPages, Zenon
  <2>2. PageOf(a) # v
    BY <2>1
  <2>3. to1[PageOf(a)] = to[PageOf(a)]
    BY <2>1, <2>2
  <2>4. to[PageOf(a)] # Absent
    BY <2>3
  <2>5. ws[to[PageOf(a)]][Within(a)] = SegmentWord(f, f.segments[i], a)
    BY <1>1, <2>4, Zenon DEF WordsKept
  <2> QED
    BY <2>3, <2>5
<1> QED
  BY <1>1, Zenon DEF JobKept

(* the next segment, or the end                                            *)
LEMMA NextKeeps ==
  ASSUME NEW f \in Programs, NEW after \in Nat, NEW to, NEW ws, WordsKept(f, after, after, to, ws)
  PROVE  JobKept(NextSegment(f, after), to, ws)
<1>1. PICK rest : rest = {i \in Loads(f) : i > after}
  OBVIOUS
<1>2. \A i \in Loads(f) : i \in Nat /\ i <= Len(f.segments)
  BY SegmentFacts
<1>3. CASE rest = {}
  <2>1. NextSegment(f, after) = [phase |-> "done", file |-> f, segment |-> 0, page |-> 0]
    BY <1>1, <1>3 DEF NextSegment
  <2>2. \A i \in Loads(f) : i <= after
    BY <1>1, <1>2, <1>3
  <2>3. WordsKept(f, Len(f.segments), Len(f.segments), to, ws)
    <3> SUFFICES ASSUME NEW i \in Loads(f), NEW a \in WordsOf(f, i),
                        \A j \in Loads(f) : i < j /\ j <= Len(f.segments) => PageOf(a) \notin PagesOf(f, j),
                        to[PageOf(a)] # Absent
                 PROVE  ws[to[PageOf(a)]][Within(a)] = SegmentWord(f, f.segments[i], a)
      BY Zenon DEF WordsKept
    <3>1. \A j \in Loads(f) : i < j /\ j <= after => PageOf(a) \notin PagesOf(f, j)
      BY <1>2
    <3> QED
      BY <2>2, <3>1, Zenon DEF WordsKept
  <2>4. PICK e : e = NextSegment(f, after)
    OBVIOUS
  <2>5. e \in ElfJobs /\ e.phase = "done" /\ e.file = f
    BY <2>1, <2>4 DEF ElfJobs
  <2>6. JobKept(e, to, ws)
    BY <2>3, <2>5 DEF JobKept
  <2> QED
    BY <2>4, <2>6
<1>4. CASE rest # {}
  <2>1. Min(rest) \in rest /\ \A i \in rest : Min(rest) <= i
    <3>1. rest \subseteq Nat
      BY <1>1, <1>2
    <3> QED
      BY <1>4, <3>1, MinFacts
  <2>2. PICK n \in Loads(f) : n = Min(rest) /\ n > after
    BY <1>1, <2>1
  <2>3. PICK p \in Nat : p = FirstPage(f.segments[n])
    BY PagesOfSegment, Zenon
  <2>4. NextSegment(f, after) = [phase |-> "load", file |-> f, segment |-> n, page |-> p]
    BY <1>1, <1>4, <2>2, <2>3 DEF NextSegment
  <2>5. n \in Nat /\ \A i \in Loads(f) : i <= n - 1 => i <= after
    <3>1. n \in Nat
      BY <1>2
    <3>2. ASSUME NEW i \in Loads(f), i <= n - 1 PROVE i <= after
      <4>1. i \in Nat
        BY <1>2
      <4>2. i > after => n <= i
        BY <1>1, <2>1, <2>2
      <4> QED
        BY <3>1, <3>2, <4>1, <4>2
    <3> QED
      BY <3>1, <3>2
  <2>6. WordsKept(f, n - 1, n, to, ws)
    <3> SUFFICES ASSUME NEW i \in Loads(f), i <= n - 1, NEW a \in WordsOf(f, i),
                        \A j \in Loads(f) : i < j /\ j <= n => PageOf(a) \notin PagesOf(f, j),
                        to[PageOf(a)] # Absent
                 PROVE  ws[to[PageOf(a)]][Within(a)] = SegmentWord(f, f.segments[i], a)
      BY Zenon DEF WordsKept
    <3>1. \A j \in Loads(f) : j <= after => j <= n
      BY <1>2, <2>2
    <3>2. \A j \in Loads(f) : i < j /\ j <= after => PageOf(a) \notin PagesOf(f, j)
      BY <3>1
    <3> QED
      BY <2>5, <3>2, Zenon DEF WordsKept
  <2>7. PICK e : e = NextSegment(f, after)
    OBVIOUS
  <2>8. e \in ElfJobs /\ e.phase = "load" /\ e.file = f /\ e.segment = n /\ e.page = p
    BY <2>4, <2>5, <2>7 DEF ElfJobs
  <2>9. FirstPage(e.file.segments[e.segment]) <= e.page
    BY <2>3, <2>8
  <2>10. JobKept(e, to, ws)
    BY <2>6, <2>8, <2>9 DEF JobKept
  <2> QED
    BY <2>7, <2>10
<1> QED
  BY <1>3, <1>4

LEMMA ElfPageKeeps ==
  ASSUME ElfInv, ElfPage
  PROVE  ElfInv'
<1>0. PICK f \in Programs : f = elf.file
  BY DEF ElfInv, JobKept, ElfPage, ElfCopy
<1>1. PICK k \in Loads(f) :
        /\ f = elf.file /\ k = elf.segment /\ Segment = f.segments[k]
        /\ FirstPage(f.segments[k]) <= elf.page /\ WordsKept(f, k - 1, k, mapped, words)
  BY <1>0 DEF ElfInv, JobKept, ElfPage, Segment
<1>2. PICK v \in Int : v = elf.page
  BY DEF ElfInv, JobKept, ElfJobs
<1>3. v \in PagesOf(f, k)
  <2>1. FirstPage(f.segments[k]) \in Nat /\ LastPage(f.segments[k]) \in Int
    BY PagesOfSegment, Zenon
  <2> QED
    BY <1>1, <1>2, <2>1 DEF PagesOf, ElfPage
<1>4. v \in Virtuals /\ v \notin DevicePages
  BY <1>3, PagesOfSegment, Zenon
<1>5. PICK g \in pmmFree : g = Min(pmmFree)
  <2>1. pmmFree \subseteq Nat /\ pmmFree # {}
    BY FrameFacts DEF ElfInv, FramesAre, ElfPage
  <2> QED
    BY <2>1, MinFacts
<1>6. PICK left \in SUBSET pmmFree : left = pmmFree \ {g}
  OBVIOUS
<1>7. PagingMap(v, g, left) /\ elf' = [elf EXCEPT !.page = @ + 1] /\ UNCHANGED words /\ elf.phase = "load"
  BY <1>2, <1>5, <1>6 DEF ElfPage
<1>8. MappedTo(v, g) /\ g # Absent /\ g \in pmmFree /\ g \notin left
  BY <1>4, <1>5, <1>6, FrameFacts DEF MappedTo, ElfInv, FramesAre
<1>9. /\ TablesAre(kernel_pd, ptables, mapped)' /\ FramesAre(kernel_pd, pmmFree, mapped)'
      /\ \A w \in Virtuals : w # v => mapped'[w] = mapped[w]
  BY <1>4, <1>7, <1>8, PagingMapKeeps DEF ElfInv
<1>10. WordsKept(f, k - 1, k, mapped', words)
  <2> SUFFICES ASSUME NEW i \in Loads(f), i <= k - 1, NEW a \in WordsOf(f, i),
                      \A j \in Loads(f) : i < j /\ j <= k => PageOf(a) \notin PagesOf(f, j),
                      mapped'[PageOf(a)] # Absent
               PROVE  words[mapped'[PageOf(a)]][Within(a)] = SegmentWord(f, f.segments[i], a)
    BY Zenon DEF WordsKept
  <2>1. i \in Int /\ k \in Int
    BY SegmentFacts
  <2>2. i < k /\ k <= k
    BY <2>1
  <2>3. PageOf(a) \notin PagesOf(f, k)
    BY <2>2
  <2>4. PageOf(a) # v
    BY <1>3, <2>3
  <2>5. PageOf(a) \in Virtuals
    BY LoadPages, Zenon
  <2>6. mapped'[PageOf(a)] = mapped[PageOf(a)]
    BY <1>9, <2>4, <2>5
  <2>7. mapped[PageOf(a)] # Absent
    BY <2>6
  <2>8. words[mapped[PageOf(a)]][Within(a)] = SegmentWord(f, f.segments[i], a)
    BY <1>1, <2>7, Zenon DEF WordsKept
  <2> QED
    BY <2>6, <2>8
<1>11. elf' \in ElfJobs /\ elf'.phase = "load" /\ elf'.file = f /\ elf'.segment = k /\ elf'.page = v + 1
  BY <1>1, <1>2, <1>7 DEF ElfInv, JobKept, ElfJobs
<1>12. FirstPage(f.segments[k]) <= v + 1
  <2>1. FirstPage(f.segments[k]) \in Nat
    BY PagesOfSegment, Zenon
  <2> QED
    BY <1>1, <1>2, <2>1
<1>13. JobKept(elf', mapped', words)
  BY <1>10, <1>11, <1>12 DEF JobKept
<1> QED
  BY <1>7, <1>9, <1>13 DEF ElfInv

(* The words of a segment, on the frames its pages are mapped to.          *)
LoadStep(places, f, s, k) ==
  IF Absent \in Range(places)
  THEN elf' = [elf EXCEPT !.phase = "panic"] /\ UNCHANGED words
  ELSE /\ words' = [t \in RamFrames |-> [i \in 0 .. PAGEWORDS - 1 |->
             IF {a \in DOMAIN places : places[a] = t /\ Within(a) = i} = {} THEN words[t][i]
             ELSE SegmentWord(f, s, Max({a \in DOMAIN places : places[a] = t /\ Within(a) = i}))]]
       /\ elf' = NextSegment(f, k)

LEMMA ElfCopyKeeps ==
  ASSUME ElfInv, ElfCopy
  PROVE  ElfInv'
<1>0. PICK f \in Programs : f = elf.file
  BY DEF ElfInv, JobKept, ElfPage, ElfCopy
<1>1. PICK k \in Loads(f) :
        /\ f = elf.file /\ k = elf.segment /\ Segment = f.segments[k]
        /\ WordsKept(f, k - 1, k, mapped, words)
  BY <1>0 DEF ElfInv, JobKept, ElfCopy, Segment
<1>2. PICK places : places = [a \in WordsOf(f, k) |-> GetPhys(PageOf(a))]
  OBVIOUS
<1>3. \A a \in WordsOf(f, k) : places[a] = mapped[PageOf(a)]
  <2> SUFFICES ASSUME NEW a \in WordsOf(f, k) PROVE GetPhys(PageOf(a)) = mapped[PageOf(a)]
    BY <1>2
  <2>1. PageOf(a) \in Virtuals /\ Layout(Dir(PageOf(a))).kind # "huge"
    BY LoadPages, Zenon
  <2>2. PICK v \in Virtuals : v = PageOf(a)
    BY <2>1
  <2>3. GetPhys(v) = IF Layout(Dir(v)).kind = "huge" THEN Layout(Dir(v)).base + Nth(v) ELSE mapped[v]
    BY GetPhysTrue DEF ElfInv
  <2> QED
    BY <2>1, <2>2, <2>3
<1>4. UNCHANGED <<kernel_pd, ptables, pmmFree, mapped>>
  BY DEF ElfCopy
<1>5. \/ elf' = [elf EXCEPT !.phase = "panic"] /\ UNCHANGED words
      \/ /\ Absent \notin Range(places)
         /\ words' = [t \in RamFrames |-> [i \in 0 .. PAGEWORDS - 1 |->
              IF {a \in WordsOf(f, k) : places[a] = t /\ Within(a) = i} = {} THEN words[t][i]
              ELSE SegmentWord(f, f.segments[k], Max({a \in WordsOf(f, k) : places[a] = t /\ Within(a) = i}))]]
         /\ elf' = NextSegment(f, k)
  <2>1. places = [a \in Segment.vaddr .. Segment.vaddr + Segment.memsz - 1 |-> GetPhys(PageOf(a))]
        /\ DOMAIN places = WordsOf(f, k)
    BY <1>1, <1>2 DEF WordsOf
  <2>2. LoadStep([a \in Segment.vaddr .. Segment.vaddr + Segment.memsz - 1 |-> GetPhys(PageOf(a))],
                 elf.file, Segment, elf.segment)
    BY DEF ElfCopy, Within, LoadStep
  <2>3. LoadStep(places, f, f.segments[k], k)
    BY <1>1, <2>1, <2>2, Zenon
  <2>4. DOMAIN places = WordsOf(f, k)
    BY <2>1
  <2>5. \/ elf' = [elf EXCEPT !.phase = "panic"] /\ UNCHANGED words
        \/ /\ Absent \notin Range(places)
           /\ words' = [t \in RamFrames |-> [i \in 0 .. PAGEWORDS - 1 |->
                IF {a \in DOMAIN places : places[a] = t /\ Within(a) = i} = {} THEN words[t][i]
                ELSE SegmentWord(f, f.segments[k], Max({a \in DOMAIN places : places[a] = t /\ Within(a) = i}))]]
           /\ elf' = NextSegment(f, k)
    BY <2>3, Zenon DEF LoadStep
  <2> QED
    BY <2>4, <2>5, Zenon
<1>6. CASE elf' = [elf EXCEPT !.phase = "panic"] /\ UNCHANGED words
  <2>1. elf' \in ElfJobs /\ elf'.phase = "panic"
    BY <1>6 DEF ElfInv, JobKept, ElfJobs
  <2>2. JobKept(elf', mapped', words')
    BY <2>1 DEF JobKept
  <2> QED
    BY <1>4, <2>2 DEF ElfInv
<1>7. CASE /\ Absent \notin Range(places)
           /\ words' = [t \in RamFrames |-> [i \in 0 .. PAGEWORDS - 1 |->
                IF {a \in WordsOf(f, k) : places[a] = t /\ Within(a) = i} = {} THEN words[t][i]
                ELSE SegmentWord(f, f.segments[k], Max({a \in WordsOf(f, k) : places[a] = t /\ Within(a) = i}))]]
           /\ elf' = NextSegment(f, k)
  <2>1. ASSUME NEW i \in Loads(f), NEW a \in WordsOf(f, i), mapped[PageOf(a)] # Absent
        PROVE  /\ mapped[PageOf(a)] \in RamFrames /\ Within(a) \in 0 .. PAGEWORDS - 1
               /\ \A b \in WordsOf(f, k) : places[b] = mapped[PageOf(a)] => PageOf(b) = PageOf(a)
    <3>1. /\ a \in Nat /\ PageOf(a) \in Virtuals /\ PageOf(a) \notin DevicePages
      BY LoadPages, Zenon
    <3>2. MappedTo(PageOf(a), mapped[PageOf(a)])
      BY <3>1 DEF ElfInv, TablesAre
    <3>3. mapped[PageOf(a)] \in RamFrames
      BY <2>1, <3>1, <3>2, FrameFacts DEF MappedTo
    <3>4. Within(a) \in 0 .. PAGEWORDS - 1
      <4>1. PICK w \in Nat \ {0} : w = PAGEWORDS
        BY ElfAssumption
      <4>2. a % w \in 0 .. w - 1
        BY <3>1
      <4> QED
        BY <4>1, <4>2 DEF Within
    <3>5. ASSUME NEW b \in WordsOf(f, k), places[b] = mapped[PageOf(a)] PROVE PageOf(b) = PageOf(a)
      <4>1. PageOf(b) \in Virtuals
        BY LoadPages, Zenon
      <4>2. mapped[PageOf(b)] = mapped[PageOf(a)]
        BY <1>3, <3>5
      <4> QED
        BY <3>1, <3>3, <4>1, <4>2 DEF ElfInv, FramesAre
    <3> QED
      BY <3>3, <3>4, <3>5
  <2>2. ASSUME NEW t \in RamFrames, NEW o \in 0 .. PAGEWORDS - 1, NEW here,
               here = {a \in WordsOf(f, k) : places[a] = t /\ Within(a) = o}
        PROVE  words'[t][o] = IF here = {} THEN words[t][o] ELSE SegmentWord(f, f.segments[k], Max(here))
    <3>1. words'[t][o] = IF {a \in WordsOf(f, k) : places[a] = t /\ Within(a) = o} = {} THEN words[t][o]
                         ELSE SegmentWord(f, f.segments[k], Max({a \in WordsOf(f, k) : places[a] = t /\ Within(a) = o}))
      BY <1>7
    <3> QED
      BY <2>2, <3>1, Zenon
  <2>3. WordsKept(f, k, k, mapped, words')
    <3> SUFFICES ASSUME NEW i \in Loads(f), i <= k, NEW a \in WordsOf(f, i),
                        \A j \in Loads(f) : i < j /\ j <= k => PageOf(a) \notin PagesOf(f, j),
                        mapped[PageOf(a)] # Absent
                 PROVE  words'[mapped[PageOf(a)]][Within(a)] = SegmentWord(f, f.segments[i], a)
      BY Zenon DEF WordsKept
    <3>1. /\ mapped[PageOf(a)] \in RamFrames /\ Within(a) \in 0 .. PAGEWORDS - 1
          /\ \A b \in WordsOf(f, k) : places[b] = mapped[PageOf(a)] => PageOf(b) = PageOf(a)
      BY <2>1
    <3>2. PICK t \in RamFrames, o \in 0 .. PAGEWORDS - 1 : t = mapped[PageOf(a)] /\ o = Within(a)
      BY <3>1
    <3>3. PICK here : here = {b \in WordsOf(f, k) : places[b] = t /\ Within(b) = o}
      OBVIOUS
    <3>4. words'[t][o] = IF here = {} THEN words[t][o] ELSE SegmentWord(f, f.segments[k], Max(here))
      BY <2>2, <3>3
    <3>5. \A b \in here : PageOf(b) = PageOf(a) /\ Within(b) = Within(a) /\ b \in WordsOf(f, k)
      BY <3>1, <3>2, <3>3
    <3>6. a \in Nat
      BY LoadPages, Zenon
    <3>7. CASE i = k
      <4>1. a \in here
        BY <1>3, <3>2, <3>3, <3>7
      <4>2. ASSUME NEW b \in here PROVE b = a
        <5>1. b \in Nat
          BY <3>5, LoadPages, Zenon
        <5>2. PageOf(b) = PageOf(a) /\ Within(b) = Within(a)
          BY <3>5
        <5> QED
          BY <3>6, <5>1, <5>2, WordsApart
      <4>3. here = {a}
        BY <4>1, <4>2
      <4>4. Max({a}) = a
        <5>1. {a} \in SUBSET (0 .. a) /\ {a} # {}
          BY <3>6
        <5>2. Max({a}) \in {a}
          BY <3>6, <5>1, MaxFromZero, Zenon
        <5> QED
          BY <5>2
      <4> QED
        BY <3>2, <3>4, <3>7, <4>3, <4>4
    <3>8. CASE i # k
      <4>1. i \in Int /\ k \in Int
        BY SegmentFacts
      <4>2. i < k /\ k <= k /\ i <= k - 1
        BY <3>8, <4>1
      <4>3. PageOf(a) \notin PagesOf(f, k)
        BY <4>2
      <4>4. here = {}
        <5>1. ASSUME NEW b \in here PROVE FALSE
          <6>1. PageOf(b) \in PagesOf(f, k)
            BY <3>5, LoadPages, Zenon
          <6> QED
            BY <3>5, <4>3, <6>1
        <5> QED
          BY <5>1
      <4>5. words[mapped[PageOf(a)]][Within(a)] = SegmentWord(f, f.segments[i], a)
        BY <1>1, <4>2, Zenon DEF WordsKept
      <4> QED
        BY <3>2, <3>4, <4>4, <4>5
    <3> QED
      BY <3>7, <3>8
  <2>4. JobKept(NextSegment(f, k), mapped, words')
    <3>1. k \in Nat
      BY SegmentFacts
    <3> QED
      BY <2>3, <3>1, NextKeeps, Zenon
  <2> QED
    BY <1>4, <1>7, <2>4 DEF ElfInv
<1> QED
  BY <1>5, <1>6, <1>7

LEMMA ElfBegins == PagingInit => ElfInv
<1> SUFFICES ASSUME PagingInit PROVE ElfInv
  OBVIOUS
<1>1. \A v \in Virtuals : Dir(v) \in Dirs /\ Nth(v) \in PtIds
  BY PageParts, Zenon
<1>2. kernel_pd = [d \in Dirs |-> Layout(d)] /\ mapped = [v \in Virtuals |-> Absent]
      /\ ptables = [t \in RamFrames |-> [i \in PtIds |-> Absent]] /\ pmmFree = OwnFrames
  BY DEF PagingInit, Dirs, Virtuals, PtIds, OwnFrames
<1>3. \A d \in Dirs : kernel_pd[d] = Layout(d) /\ kernel_pd[d].kind \in {"none", "huge"}
  BY <1>2, LayoutOne
<1>4. \A d \in Dirs : PdEntry(d, kernel_pd[d])
  <2>1. \A d \in Dirs : Layout(d) \in PdEntries
    BY LayoutOne DEF PdEntries
  <2> QED
    BY <1>3, <2>1 DEF PdEntry
<1>5. TablesAre(kernel_pd, ptables, mapped)
  <2>1. \A v \in Virtuals : kernel_pd[Dir(v)].kind # "table" /\ mapped[v] = Absent
    BY <1>1, <1>2, <1>3
  <2>2. kernel_pd \in Directories /\ DOMAIN mapped = Virtuals
    BY <1>2, <1>4 DEF Directories, PdEntry
  <2>3. DOMAIN ptables = RamFrames /\ \A t \in RamFrames : DOMAIN ptables[t] = PtIds
    BY <1>2
  <2> QED
    BY <1>4, <2>1, <2>2, <2>3 DEF TablesAre, MappedTo
<1>6. FramesAre(kernel_pd, pmmFree, mapped)
  BY <1>2, <1>3, FrameFacts DEF FramesAre
<1>7. JobKept(elf, mapped, words)
  BY DEF PagingInit, JobKept, ElfJobs
<1> QED
  BY <1>5, <1>6, <1>7 DEF ElfInv

LEMMA ElfGoesOn == ElfInv /\ [ElfNext]_elfVars => ElfInv'
<1> SUFFICES ASSUME ElfInv, [ElfNext]_elfVars PROVE ElfInv'
  OBVIOUS
<1>1. ASSUME NEW f \in Programs, ElfBegin(f) PROVE ElfInv'
  <2>1. UNCHANGED <<kernel_pd, ptables, pmmFree, words, mapped>>
    BY <1>1 DEF ElfBegin
  <2>2. CASE elf' = NextSegment(f, 0)
    <3>1. WordsKept(f, 0, 0, mapped, words)
      <4>1. \A i \in Loads(f) : ~(i <= 0)
        BY SegmentFacts
      <4> QED
        BY <4>1, Zenon DEF WordsKept
    <3>2. JobKept(NextSegment(f, 0), mapped, words)
      BY <3>1, NextKeeps
    <3> QED
      BY <2>1, <2>2, <3>2 DEF ElfInv
  <2>3. CASE elf' = [elf EXCEPT !.phase = "idle"]
    <3>1. elf' \in ElfJobs /\ elf'.phase = "idle"
      BY <2>3 DEF ElfInv, JobKept, ElfJobs
    <3> QED
      BY <2>1, <3>1 DEF ElfInv, JobKept
  <2> QED
    BY <1>1, <2>2, <2>3 DEF ElfBegin
<1>2. ASSUME ElfPage PROVE ElfInv'
  BY <1>2, ElfPageKeeps
<1>3. ASSUME ElfNoFrame PROVE ElfInv'
  <2>1. elf' = [elf EXCEPT !.phase = "idle"] /\ UNCHANGED <<kernel_pd, ptables, pmmFree, words, mapped>>
    BY <1>3 DEF ElfNoFrame
  <2>2. elf' \in ElfJobs /\ elf'.phase = "idle"
    BY <2>1 DEF ElfInv, JobKept, ElfJobs
  <2> QED
    BY <2>1, <2>2 DEF ElfInv, JobKept
<1>4. ASSUME ElfCopy PROVE ElfInv'
  BY <1>4, ElfCopyKeeps
<1>5. ASSUME NEW v \in DevicePages, DeviceMap(v) PROVE ElfInv'
  <2>1. v \in Virtuals
    BY ElfAssumption DEF Virtuals
  <2>2. PICK g : g = PDSIZE * PTSIZE + v
    OBVIOUS
  <2>3. g \notin RamFrames /\ g # Absent /\ MappedTo(v, g)
    BY <2>1, <2>2, FrameFacts DEF MappedTo
  <2>4. PICK left \in SUBSET pmmFree : left = pmmFree
    OBVIOUS
  <2>5. PagingMap(v, g, left) /\ UNCHANGED <<words, elf>>
    BY <1>5, <2>2, <2>4 DEF DeviceMap
  <2>6. /\ TablesAre(kernel_pd, ptables, mapped)' /\ FramesAre(kernel_pd, pmmFree, mapped)'
        /\ \A w \in Virtuals : w # v => mapped'[w] = mapped[w]
    BY <2>1, <2>3, <2>5, PagingMapKeeps DEF ElfInv
  <2>7. JobKept(elf, mapped', words)
    BY <2>6, OtherPage, Zenon DEF ElfInv
  <2> QED
    BY <2>5, <2>6, <2>7 DEF ElfInv
<1>6. ASSUME NEW v \in DOMAIN mapped, PagingUnmap(v) PROVE ElfInv'
  <2>1. v \in Virtuals
    BY DEF ElfInv, TablesAre
  <2>2. /\ TablesAre(kernel_pd, ptables, mapped)' /\ FramesAre(kernel_pd, pmmFree, mapped)'
        /\ mapped' = [mapped EXCEPT ![v] = Absent]
    BY <1>6, <2>1, PagingUnmapKeeps DEF ElfInv
  <2>3. mapped'[v] = Absent /\ \A w \in Virtuals : w # v => mapped'[w] = mapped[w]
    BY <2>1, <2>2 DEF ElfInv, TablesAre
  <2>4. JobKept(elf, mapped', words)
    BY <2>3, OtherPage, Zenon DEF ElfInv
  <2>5. UNCHANGED <<words, elf>>
    BY <1>6 DEF PagingUnmap
  <2> QED
    BY <2>2, <2>4, <2>5 DEF ElfInv
<1>7. CASE UNCHANGED elfVars
  BY <1>7 DEF elfVars, ElfInv
<1> QED
  BY <1>1, <1>2, <1>3, <1>4, <1>5, <1>6, <1>7, Zenon DEF ElfNext

LEMMA ElfPromises == ElfInv => ElfTypeOK /\ TranslationTrue /\ ElfTrue
<1> SUFFICES ASSUME ElfInv PROVE ElfTypeOK /\ TranslationTrue /\ ElfTrue
  OBVIOUS
<1>1. TablesAre(kernel_pd, ptables, mapped) /\ FramesAre(kernel_pd, pmmFree, mapped) /\ JobKept(elf, mapped, words)
  BY DEF ElfInv
<1>2. ElfTypeOK
  <2>2. kernel_pd \in [0 .. PDSIZE - 1 -> [kind : {"none", "huge", "table"}, base : 0 .. PDSIZE * PTSIZE - 1]]
    BY <1>1 DEF TablesAre, Directories, PdEntries, Dirs, Virtuals
  <2> QED
    BY <1>1, <2>2 DEF ElfTypeOK, FramesAre, JobKept, ElfJobs, OwnFrames
<1>3. ASSUME NEW v \in Virtuals
      PROVE  GetPhys(v) = IF Layout(v \div PTSIZE).kind = "huge" THEN Layout(v \div PTSIZE).base + (v % PTSIZE) ELSE mapped[v]
  BY <1>1, GetPhysTrue DEF Dir, Nth
<1>4. PICK inUse : inUse = {d \in Dirs : kernel_pd[d].kind = "table"}
  OBVIOUS
<1>5. PICK frames : frames = {kernel_pd[d].base : d \in inUse}
  OBVIOUS
<1>6. Cardinality(frames) = Cardinality(inUse)
  <2>1. PICK f : f = [d \in inUse |-> kernel_pd[d].base]
    OBVIOUS
  <2>2. f \in [inUse -> frames] /\ \A d \in inUse : f[d] = kernel_pd[d].base
    BY <1>5, <2>1
  <2>3. \A d, e \in inUse : f[d] = f[e] => d = e
    BY <1>1, <1>4, <2>2 DEF FramesAre
  <2>4. \A b \in frames : \E d \in inUse : f[d] = b
    BY <1>5, <2>2
  <2>5. ExistsBijection(inUse, frames)
    BY <2>2, <2>3, <2>4 DEF ExistsBijection, Bijection, Injection, Surjection, IsInjective
  <2>6. IsFiniteSet(inUse)
    <3>1. IsFiniteSet(Dirs)
      BY FS_Interval, ElfAssumption DEF Dirs
    <3> QED
      BY <1>4, <3>1, FS_Subset
  <2> QED
    BY <2>5, <2>6, FS_Bijection
<1>7. PICK pages : pages = {v \in Virtuals : mapped[v] \in RamFrames}
  OBVIOUS
<1>8. /\ \A v, w \in pages : mapped[v] = mapped[w] => v = w
      /\ (frames \cup {mapped[v] : v \in pages}) \cap pmmFree = {}
      /\ frames \cap {mapped[v] : v \in pages} = {}
  <2>1. \A v, w \in pages : mapped[v] = mapped[w] => v = w
    BY <1>1, <1>7 DEF FramesAre
  <2>2. \A b \in frames : b \notin pmmFree /\ \A v \in pages : mapped[v] # b
    BY <1>1, <1>4, <1>5, <1>7 DEF FramesAre
  <2>3. \A v \in pages : mapped[v] \notin pmmFree
    BY <1>1, <1>7 DEF FramesAre
  <2> QED
    BY <2>1, <2>2, <2>3
<1>9. DOMAIN kernel_pd = Dirs /\ DOMAIN mapped = Virtuals
  BY <1>1 DEF TablesAre, Directories
<1>10. TranslationTrue
  BY <1>3, <1>4, <1>5, <1>6, <1>7, <1>8, <1>9, Zenon DEF TranslationTrue
<1>11. ElfTrue
  <2> SUFFICES ASSUME elf.phase = "done", NEW i \in Loads(elf.file), NEW a \in WordsOf(elf.file, i),
                      \A j \in Loads(elf.file) : j > i =>
                         PageOf(a) \notin FirstPage(elf.file.segments[j]) .. LastPage(elf.file.segments[j]),
                      GetPhys(PageOf(a)) # Absent
               PROVE  words[GetPhys(PageOf(a))][a % PAGEWORDS] = SegmentWord(elf.file, elf.file.segments[i], a)
    BY DEF ElfTrue, WordsOf
  <2>1. PICK f \in Programs : f = elf.file
    BY <1>1 DEF JobKept
  <2>2. WordsKept(f, Len(f.segments), Len(f.segments), mapped, words)
    BY <1>1, <2>1 DEF JobKept
  <2>3. PageOf(a) \in Virtuals /\ Layout(Dir(PageOf(a))).kind # "huge"
    BY <2>1, LoadPages, Zenon
  <2>4. PICK v \in Virtuals : v = PageOf(a)
    BY <2>3
  <2>5. GetPhys(v) = mapped[v]
    BY <1>1, <2>3, <2>4, GetPhysTrue, Zenon
  <2>6. i \in Loads(f) /\ a \in WordsOf(f, i) /\ i <= Len(f.segments) /\ i \in Int /\ \A j \in Loads(f) : j \in Int
    BY <2>1, SegmentFacts
  <2>7. \A j \in Loads(f) : i < j /\ j <= Len(f.segments) => PageOf(a) \notin PagesOf(f, j)
    BY <2>1, <2>6 DEF PagesOf
  <2>8. mapped[PageOf(a)] # Absent
    BY <2>4, <2>5
  <2>9. words[mapped[PageOf(a)]][Within(a)] = SegmentWord(f, f.segments[i], a)
    BY <2>2, <2>6, <2>7, <2>8, Zenon DEF WordsKept
  <2> QED
    BY <2>1, <2>4, <2>5, <2>9 DEF Within
<1> QED
  BY <1>2, <1>10, <1>11

-----------------------------------------------------------------------------
(* The stub and its debugger                                               *)

Chars == {"$", "#", "+", "-", "x", "sum", "packet"} \cup UNION {Range(cmd) : cmd \in GdbCommands}
Texts == {<<>>, <<"S">>, <<"OK">>} \cup GdbCommands
Items == [c : Chars, of : Texts, nr : Nat]
Stubs == [at : {"running", "ack", "start", "data", "sum"}, buf : Seq(Chars), reply : Texts,
          aktiv : BOOLEAN, tf : BOOLEAN, int3 : BOOLEAN]
Hosts == [at : {"stop", "idle", "ack", "answer"}, took : Seq([nr : Nat, of : Texts])]
Dones == [cmd : GdbCommands, nr : Nat]
Goes  == {<<"c">>, <<"s">>}

StubTyped == stub \in Stubs /\ Len(stub.buf) < GDBBUF
HostTyped ==
  /\ host \in Hosts /\ asked \in Seq(GdbCommands) /\ Len(asked) <= MaxAsked
  /\ host.at \in {"ack", "answer"} => Len(asked) > 0
LineTyped == toStub \in Seq(Items) /\ toHost \in Seq(Items) /\ done \in Seq(Dones) /\ faults \in 0 .. MaxFaults
GdbTyped  == StubTyped /\ HostTyped /\ LineTyped

(* The checksums on the line are those of what was asked, in its order,    *)
(* and none is of a command before one that was run.                       *)
SumsOf(line, cmds) ==
  \A j \in 1 .. Len(line) : line[j].c = "sum" => line[j].nr \in 1 .. Len(cmds) /\ line[j].of = cmds[line[j].nr]
SumsRise(line) ==
  \A i, j \in 1 .. Len(line) : i < j /\ line[i].c = "sum" /\ line[j].c = "sum" => line[i].nr <= line[j].nr
SumsAfter(line, ran) ==
  \A i \in 1 .. Len(ran), j \in 1 .. Len(line) : line[j].c = "sum" => ran[i].nr <= line[j].nr
RanAsked(ran, cmds) ==
  /\ \A i \in 1 .. Len(ran) : ran[i].nr \in 1 .. Len(cmds) /\ ran[i].cmd = cmds[ran[i].nr]
  /\ \A i, j \in 1 .. Len(ran) : i < j => ran[i].nr <= ran[j].nr
SumsTrue == SumsOf(toStub, asked) /\ SumsRise(toStub) /\ SumsAfter(toStub, done) /\ RanAsked(done, asked)

(* While the stub listens the kernel is halted; it was let go by "c" or    *)
(* "s" only, and traces only after "s" or where an INT3 was met in a step. *)
Freed(ran, cmds) == Len(ran) > 0 /\ ran[Len(ran)].cmd \in cmds
HaltedTrue ==
  /\ stub.at = "running" => ~stub.aktiv
  /\ stub.at \in {"start", "data", "sum"} => stub.aktiv
  /\ ~stub.aktiv /\ Len(done) > 0 => Freed(done, Goes)
  /\ stub.tf => stub.int3 \/ (~stub.aktiv /\ Freed(done, {<<"s">>}))

(* On a line without faults: all of a frame from one place on.             *)
Dollarless(line) == \A j \in 1 .. Len(line) : line[j].c # "$"
Framed(line, k, n) ==
  /\ Len(line) >= k + 2
  /\ line[Len(line)].c = "sum" /\ line[Len(line)].nr = n /\ line[Len(line) - 1].c = "#"
  /\ \A j \in 1 .. Len(line) : line[j].c = "$" <=> j = k
  /\ \A j \in 1 .. Len(line) - 2 : j > k => line[j].c \notin {"#", "sum"}
Summed(line, n) ==
  /\ Len(line) >= 1 /\ Dollarless(line)
  /\ line[1].c = "sum" => Len(line) = 1 /\ line[1].nr = n
Sole(line, c, of) == Len(line) = 1 /\ line[1].c = c /\ line[1].of = of

TalkStops ==
  /\ host.at = "stop" /\ Len(done) = Len(asked)
  /\ \/ stub.at = "running" /\ toStub = <<>> /\ toHost = <<>>
     \/ stub.at = "ack" /\ stub.aktiv /\ toStub = <<>> /\ Sole(toHost, "packet", StopReply)
     \/ stub.at = "ack" /\ ~stub.aktiv /\ toStub = <<>> /\ Sole(toHost, "packet", <<"OK">>)
     \/ stub.at = "ack" /\ ~stub.aktiv /\ toHost = <<>> /\ Sole(toStub, "+", <<>>)
TalkIdle ==
  /\ host.at = "idle" /\ Len(done) = Len(asked) /\ toHost = <<>> /\ stub.aktiv
  /\ \/ stub.at = "ack" /\ Sole(toStub, "+", <<>>)
     \/ stub.at = "start" /\ toStub = <<>>
TalkAsks ==
  /\ host.at = "ack" /\ Len(asked) = Len(done) + 1
  /\ \/ /\ toHost = <<>>
        /\ \/ stub.at = "ack" /\ stub.aktiv /\ Len(toStub) > 0 /\ toStub[1].c = "+" /\ Framed(toStub, 2, Len(asked))
           \/ stub.at = "start" /\ \E k \in Nat : k >= 1 /\ Framed(toStub, k, Len(asked))
           \/ stub.at = "data" /\ Framed(toStub, 0, Len(asked))
           \/ stub.at = "sum" /\ Summed(toStub, Len(asked))
     \/ stub.at = "start" /\ Sole(toHost, "-", <<>>) /\ Dollarless(toStub)
TalkRan ==
  /\ host.at = "ack" /\ Len(asked) = Len(done) /\ stub.at = "ack" /\ toStub = <<>>
  /\ stub.aktiv <=> asked[Len(asked)] \notin Goes
  /\ Len(toHost) = 2 /\ toHost[1].c = "+" /\ toHost[2].c = "packet" /\ toHost[2].of = Answer(asked[Len(asked)])
TalkAnswers ==
  /\ host.at = "answer" /\ Len(asked) = Len(done) /\ stub.at = "ack" /\ stub.aktiv /\ toStub = <<>>
  /\ Sole(toHost, "packet", Answer(asked[Len(asked)]))
Talk == TalkStops \/ TalkIdle \/ TalkAsks \/ TalkRan \/ TalkAnswers

EachOnce == \A i \in 1 .. Len(done) : done[i].nr = i
TookTrue ==
  \A i \in 1 .. Len(host.took) : host.took[i].nr \in 1 .. Len(asked) /\ host.took[i].of = Answer(asked[host.took[i].nr])
ClearTrue == faults = 0 => Talk /\ EachOnce /\ TookTrue

GdbInv == GdbTyped /\ SumsTrue /\ HaltedTrue /\ ClearTrue

(* What a command is made of, and what its frame is.                       *)
LEMMA CommandWords ==
  ASSUME NEW d \in GdbCommands
  PROVE  /\ d \in Seq(Chars) /\ Len(d) \in Nat /\ d \in Texts
         /\ \A i \in 1 .. Len(d) : d[i] \in Chars /\ d[i] # "$" /\ d[i] # "#" /\ d[i] # "sum"
<1>1. d \in Seq(Range(d)) /\ {"$", "#", "sum"} \cap Range(d) = {}
  BY DebugAssumption
<1>2. Range(d) \subseteq Chars
  BY DEF Chars
<1>3. Len(d) \in Nat /\ \A i \in 1 .. Len(d) : d[i] \in Range(d)
  BY <1>1, LenProperties, ElementOfSeq
<1>4. d \in Seq(Chars)
  BY <1>1, <1>2, SeqMonotonic
<1> QED
  BY <1>1, <1>2, <1>3, <1>4 DEF Texts

LEMMA OnItem ==
  ASSUME NEW c \in Chars
  PROVE  On(c) \in Items /\ On(c).c = c /\ On(c).of = <<>> /\ On(c).nr = 0
BY DEF On, Items, Texts

LEMMA PacketItem ==
  ASSUME NEW d \in Texts
  PROVE  Packet(d) \in Items /\ Packet(d).c = "packet" /\ Packet(d).of = d /\ Packet(d).nr = 0
BY DEF Packet, Items, Chars

(* A sequence between one element and two.                                 *)
LEMMA LineFramed ==
  ASSUME NEW S, NEW first \in S, NEW mid \in Seq(S), NEW hash \in S, NEW sum \in S,
         NEW f, f = <<first>> \o mid \o <<hash, sum>>
  PROVE  /\ f \in Seq(S) /\ Len(f) = Len(mid) + 3 /\ Len(mid) \in Nat
         /\ f[1] = first /\ f[Len(mid) + 2] = hash /\ f[Len(mid) + 3] = sum
         /\ \A i \in 1 .. Len(mid) : f[i + 1] = mid[i]
<1>1. <<first>> \in Seq(S) /\ Len(<<first>>) = 1 /\ <<first>>[1] = first
  OBVIOUS
<1>2. <<hash, sum>> \in Seq(S) /\ Len(<<hash, sum>>) = 2 /\ <<hash, sum>>[1] = hash /\ <<hash, sum>>[2] = sum
  OBVIOUS
<1>3. PICK a \in Seq(S) : a = <<first>> /\ Len(a) = 1 /\ a[1] = first
  BY <1>1
<1>4. PICK z \in Seq(S) : z = <<hash, sum>> /\ Len(z) = 2 /\ z[1] = hash /\ z[2] = sum
  BY <1>2
<1>5. PICK m \in Nat : m = Len(mid)
  BY LenProperties
<1>6. PICK am \in Seq(S) : /\ am = a \o mid /\ Len(am) = 1 + m /\ am[1] = first
                           /\ \A i \in 1 .. m : am[1 + i] = mid[i]
  <2>1. /\ a \o mid \in Seq(S) /\ Len(a \o mid) = 1 + m
        /\ \A i \in 1 .. 1 : (a \o mid)[i] = a[i]
        /\ \A i \in 1 .. m : (a \o mid)[1 + i] = mid[i]
    BY <1>3, <1>5, LineJoined
  <2>2. 1 \in 1 .. 1
    OBVIOUS
  <2>3. (a \o mid)[1] = first
    BY <1>3, <2>1, <2>2, Zenon
  <2> QED
    BY <2>1, <2>3, Zenon
<1>7. /\ f \in Seq(S) /\ f = am \o z /\ Len(f) = 1 + m + 2
      /\ \A i \in 1 .. 1 + m : f[i] = am[i]
      /\ \A i \in 1 .. 2 : f[1 + m + i] = z[i]
  <2>1. /\ am \o z \in Seq(S) /\ Len(am \o z) = 1 + m + 2
        /\ \A i \in 1 .. 1 + m : (am \o z)[i] = am[i]
        /\ \A i \in 1 .. 2 : (am \o z)[1 + m + i] = z[i]
    <3>1. /\ am \o z \in Seq(S) /\ Len(am \o z) = Len(am) + Len(z)
          /\ \A i \in 1 .. Len(am) : (am \o z)[i] = am[i]
          /\ \A i \in 1 .. Len(z) : (am \o z)[Len(am) + i] = z[i]
      BY LineJoined
    <3>2. Len(am) = 1 + m /\ Len(z) = 2
      BY <1>4, <1>6
    <3> QED
      BY <3>1, <3>2, Zenon
  <2>2. f = am \o z
    BY <1>3, <1>4, <1>6
  <2> QED
    BY <2>1, <2>2, Zenon
<1>8. f[1] = first /\ f[m + 2] = hash /\ f[m + 3] = sum
  <2>0. 1 \in 1 .. 2 /\ 2 \in 1 .. 2
    OBVIOUS
  <2>1. f[1 + m + 1] = hash /\ f[1 + m + 2] = sum
    BY <1>4, <1>7, <2>0, Zenon
  <2>2. 1 + m + 1 = m + 2 /\ 1 + m + 2 = m + 3
    OBVIOUS
  <2>3. 1 \in 1 .. 1 + m
    OBVIOUS
  <2>4. f[1] = first
    BY <1>6, <1>7, <2>3, Zenon
  <2> QED
    BY <2>1, <2>2, <2>4
<1>9. ASSUME NEW i \in 1 .. m PROVE f[i + 1] = mid[i]
  <2>1. 1 + i \in 1 .. 1 + m /\ i + 1 = 1 + i
    OBVIOUS
  <2>2. f[1 + i] = am[1 + i] /\ am[1 + i] = mid[i]
    BY <1>6, <1>7, <2>1, Zenon
  <2> QED
    BY <2>1, <2>2
<1>10. Len(f) = m + 3
  BY <1>7
<1> QED
  BY <1>3, <1>4, <1>5, <1>6, <1>7, <1>8, <1>9, <1>10

FrameOf(w, d, n) ==
  /\ w \in Seq(Items) /\ Len(w) = Len(d) + 3 /\ Len(d) \in Nat
  /\ w[1].c = "$" /\ w[Len(d) + 2].c = "#"
  /\ w[Len(d) + 3].c = "sum" /\ w[Len(d) + 3].of = d /\ w[Len(d) + 3].nr = n
  /\ \A i \in 1 .. Len(d) : w[i + 1].c \notin {"$", "#", "sum"}

LEMMA CommandFrame ==
  ASSUME NEW d \in GdbCommands, NEW n \in Nat
  PROVE  FrameOf(Frame(n, d), d, n)
<1>1. PICK mid : mid = [i \in DOMAIN d |-> On(d[i])]
  OBVIOUS
<1>2. /\ mid \in Seq(Items) /\ Len(mid) = Len(d) /\ Len(d) \in Nat
      /\ \A i \in 1 .. Len(d) : mid[i].c \notin {"$", "#", "sum"}
  <2>1. DOMAIN d = 1 .. Len(d) /\ Len(d) \in Nat
    BY CommandWords, LenProperties
  <2>2. \A i \in 1 .. Len(d) : mid[i] \in Items /\ mid[i].c = d[i]
    BY <1>1, <2>1, CommandWords, OnItem
  <2>3. mid \in [1 .. Len(d) -> Items]
    BY <1>1, <2>1, <2>2
  <2>4. mid \in Seq(Items) /\ Len(mid) = Len(d)
    <3>1. mid \in Seq(Items)
      BY <2>1, <2>3, SeqDef
    <3> QED
      BY <2>1, <2>3, <3>1, LenProperties
  <2> QED
    BY <2>1, <2>2, <2>4, CommandWords
<1>3. PICK sum \in Items : sum = [c |-> "sum", of |-> d, nr |-> n] /\ sum.c = "sum" /\ sum.of = d /\ sum.nr = n
  <2>1. [c |-> "sum", of |-> d, nr |-> n] \in Items
    BY DEF Items, Chars, Texts
  <2> QED
    BY <2>1
<1>4. PICK first \in Items : first = On("$") /\ first.c = "$"
  BY OnItem DEF Chars
<1>5. PICK hash \in Items : hash = On("#") /\ hash.c = "#"
  BY OnItem DEF Chars
<1>6. Frame(n, d) = <<first>> \o mid \o <<hash, sum>>
  BY <1>1, <1>3, <1>4, <1>5 DEF Frame
<1>7. PICK f \in Seq(Items) :
        /\ f = Frame(n, d) /\ Len(f) = Len(d) + 3
        /\ f[1] = first /\ f[Len(d) + 2] = hash /\ f[Len(d) + 3] = sum
        /\ \A i \in 1 .. Len(d) : f[i + 1] = mid[i]
  <2>1. PICK f : f = <<first>> \o mid \o <<hash, sum>>
    OBVIOUS
  <2>2. /\ f \in Seq(Items) /\ Len(f) = Len(mid) + 3
        /\ f[1] = first /\ f[Len(mid) + 2] = hash /\ f[Len(mid) + 3] = sum
        /\ \A i \in 1 .. Len(mid) : f[i + 1] = mid[i]
    BY <1>2, <2>1, LineFramed
  <2>3. Len(mid) = Len(d)
    BY <1>2
  <2> QED
    BY <1>6, <2>1, <2>2, <2>3, Zenon
<1>8. \A i \in 1 .. Len(d) : f[i + 1].c \notin {"$", "#", "sum"}
  BY <1>2, <1>7
<1>9. f \in Seq(Items) /\ Len(f) = Len(d) + 3 /\ Len(d) \in Nat
  BY <1>2, <1>7
<1>10. /\ f[1].c = "$" /\ f[Len(d) + 2].c = "#"
       /\ f[Len(d) + 3].c = "sum" /\ f[Len(d) + 3].of = d /\ f[Len(d) + 3].nr = n
  BY <1>3, <1>4, <1>5, <1>7
<1> QED
  BY <1>7, <1>8, <1>9, <1>10, Zenon DEF FrameOf

LEMMA AnswerText ==
  ASSUME NEW d \in GdbCommands
  PROVE  Answer(d) \in Texts
BY DEF Answer, Texts, StopReply

LEMMA AnswerPlain ==
  /\ StopReply \in Texts /\ <<"OK">> \in Texts /\ <<"OK">> # StopReply
  /\ "+" \in Chars /\ "-" \in Chars /\ "x" \in Chars
BY DEF Texts, StopReply, Chars

LEMMA SumsTail ==
  ASSUME NEW cmds, NEW ran, NEW line \in Seq(Items), line # <<>>,
         SumsOf(line, cmds), SumsRise(line), SumsAfter(line, ran)
  PROVE  SumsOf(Tail(line), cmds) /\ SumsRise(Tail(line)) /\ SumsAfter(Tail(line), ran)
<1>1. PICK n \in Nat, t \in Seq(Items) :
        /\ t = Tail(line) /\ n + 1 = Len(line) /\ Len(t) = n
        /\ \A i \in 1 .. n : t[i] = line[i + 1] /\ i + 1 \in 1 .. Len(line)
  BY LineRest
<1>2. SumsOf(t, cmds)
  BY <1>1 DEF SumsOf
<1>3. SumsRise(t)
  <2>1. ASSUME NEW i \in 1 .. Len(t), NEW j \in 1 .. Len(t), i < j PROVE i + 1 < j + 1
    BY <1>1, <2>1
  <2> QED
    BY <1>1, <2>1 DEF SumsRise
<1>4. SumsAfter(t, ran)
  BY <1>1 DEF SumsAfter
<1> QED
  BY <1>1, <1>2, <1>3, <1>4

LEMMA SumsQuiet ==
  ASSUME NEW cmds, NEW ran, NEW line \in Seq(Items), NEW e \in Items, e.c # "sum",
         SumsOf(line, cmds), SumsRise(line), SumsAfter(line, ran)
  PROVE  /\ <<e>> \o line \in Seq(Items)
         /\ SumsOf(<<e>> \o line, cmds) /\ SumsRise(<<e>> \o line) /\ SumsAfter(<<e>> \o line, ran)
         /\ line \o <<e>> \in Seq(Items)
         /\ SumsOf(line \o <<e>>, cmds) /\ SumsRise(line \o <<e>>) /\ SumsAfter(line \o <<e>>, ran)
<1>1. PICK s \in Seq(Items) : s = <<e>> /\ Len(s) = 1 /\ s[1] = e
  BY LineSingle
<1>2. PICK n \in Nat : n = Len(line)
  BY LenProperties
<1>3. PICK f \in Seq(Items) : /\ f = s \o line /\ Len(f) = 1 + n /\ f[1] = e
                              /\ \A i \in 1 .. n : f[1 + i] = line[i]
  <2>1. /\ s \o line \in Seq(Items) /\ Len(s \o line) = Len(s) + Len(line)
        /\ \A i \in 1 .. Len(s) : (s \o line)[i] = s[i]
        /\ \A i \in 1 .. Len(line) : (s \o line)[Len(s) + i] = line[i]
    BY LineJoined
  <2>2. 1 \in 1 .. Len(s)
    BY <1>1
  <2>3. (s \o line)[1] = e
    BY <1>1, <2>1, <2>2, Zenon
  <2> QED
    BY <1>1, <1>2, <2>1, <2>3
<1>4. \A j \in 1 .. Len(f) : f[j].c = "sum" => \E i \in 1 .. n : j = 1 + i /\ f[j] = line[i]
  <2> SUFFICES ASSUME NEW j \in 1 .. Len(f), f[j].c = "sum" PROVE \E i \in 1 .. n : j = 1 + i /\ f[j] = line[i]
    OBVIOUS
  <2>1. j # 1
    BY <1>3
  <2>2. j - 1 \in 1 .. n /\ j = 1 + (j - 1)
    BY <1>3, <2>1
  <2> QED
    BY <1>3, <2>2
<1>5. SumsOf(f, cmds) /\ SumsAfter(f, ran)
  BY <1>2, <1>4 DEF SumsOf, SumsAfter
<1>6. SumsRise(f)
  <2> SUFFICES ASSUME NEW i \in 1 .. Len(f), NEW j \in 1 .. Len(f), i < j, f[i].c = "sum", f[j].c = "sum"
               PROVE  f[i].nr <= f[j].nr
    BY DEF SumsRise
  <2>1. PICK a \in 1 .. n : i = 1 + a /\ f[i] = line[a]
    BY <1>4
  <2>2. PICK b \in 1 .. n : j = 1 + b /\ f[j] = line[b]
    BY <1>4
  <2>3. a < b
    BY <2>1, <2>2
  <2> QED
    BY <1>2, <2>1, <2>2, <2>3 DEF SumsRise
<1>7. PICK g \in Seq(Items) : /\ g = line \o s /\ Len(g) = n + 1 /\ g[n + 1] = e
                              /\ \A i \in 1 .. n : g[i] = line[i]
  <2>1. /\ line \o s \in Seq(Items) /\ Len(line \o s) = Len(line) + Len(s)
        /\ \A i \in 1 .. Len(line) : (line \o s)[i] = line[i]
        /\ \A i \in 1 .. Len(s) : (line \o s)[Len(line) + i] = s[i]
    BY LineJoined
  <2>2. 1 \in 1 .. Len(s)
    BY <1>1
  <2>3. (line \o s)[Len(line) + 1] = e
    BY <1>1, <2>1, <2>2, Zenon
  <2> QED
    BY <1>1, <1>2, <2>1, <2>3
<1>8. \A j \in 1 .. Len(g) : g[j].c = "sum" => j \in 1 .. n /\ g[j] = line[j]
  <2> SUFFICES ASSUME NEW j \in 1 .. Len(g), g[j].c = "sum" PROVE j \in 1 .. n /\ g[j] = line[j]
    OBVIOUS
  <2>1. j # n + 1
    BY <1>7
  <2> QED
    BY <1>7, <2>1
<1>9. SumsOf(g, cmds) /\ SumsRise(g) /\ SumsAfter(g, ran)
  BY <1>2, <1>8 DEF SumsOf, SumsAfter, SumsRise
<1> QED
  BY <1>1, <1>3, <1>5, <1>6, <1>7, <1>9

(* A frame of the last command goes behind all others.                     *)
LEMMA SumsFrame ==
  ASSUME NEW cmds \in Seq(GdbCommands), NEW ran \in Seq(Dones), NEW line \in Seq(Items), NEW n \in Nat,
         n = Len(cmds), n > 0, RanAsked(ran, cmds), SumsOf(line, cmds), SumsRise(line), SumsAfter(line, ran)
  PROVE  LET f == line \o Frame(n, cmds[n])
         IN f \in Seq(Items) /\ SumsOf(f, cmds) /\ SumsRise(f) /\ SumsAfter(f, ran)
<1>1. PICK d \in GdbCommands : d = cmds[n]
  BY ElementOfSeq
<1>2. PICK w \in Seq(Items) : w = Frame(n, d) /\ FrameOf(w, d, n)
  BY CommandFrame DEF FrameOf
<1>3. PICK k \in Nat : /\ Len(w) = k + 3 /\ w[k + 3].c = "sum" /\ w[k + 3].of = d /\ w[k + 3].nr = n
                       /\ \A i \in 1 .. k + 2 : w[i].c # "sum"
  <2>1. PICK k \in Nat : k = Len(d)
    BY CommandWords
  <2>2. /\ Len(w) = k + 3 /\ w[k + 3].c = "sum" /\ w[k + 3].of = d /\ w[k + 3].nr = n
        /\ w[1].c = "$" /\ w[k + 2].c = "#" /\ \A i \in 1 .. k : w[i + 1].c # "sum"
    <3>1. /\ Len(w) = Len(d) + 3 /\ w[1].c = "$" /\ w[Len(d) + 2].c = "#"
          /\ w[Len(d) + 3].c = "sum" /\ w[Len(d) + 3].of = d /\ w[Len(d) + 3].nr = n
          /\ \A i \in 1 .. Len(d) : w[i + 1].c \notin {"$", "#", "sum"}
      BY <1>2, Zenon DEF FrameOf
    <3> QED
      BY <2>1, <3>1
  <2>3. ASSUME NEW i \in 1 .. k + 2 PROVE w[i].c # "sum"
    <3>1. i = 1 \/ i = k + 2 \/ (i - 1 \in 1 .. k /\ i = (i - 1) + 1)
      OBVIOUS
    <3> QED
      BY <2>2, <3>1
  <2> QED
    BY <2>2, <2>3
<1>4. PICK m \in Nat : m = Len(line)
  BY LenProperties
<1>5. PICK f \in Seq(Items) : /\ f = line \o w /\ Len(f) = m + (k + 3)
                              /\ \A i \in 1 .. m : f[i] = line[i]
                              /\ \A i \in 1 .. k + 3 : f[m + i] = w[i]
  <2>1. /\ line \o w \in Seq(Items) /\ Len(line \o w) = Len(line) + Len(w)
        /\ \A i \in 1 .. Len(line) : (line \o w)[i] = line[i]
        /\ \A i \in 1 .. Len(w) : (line \o w)[Len(line) + i] = w[i]
    BY LineJoined
  <2> QED
    BY <1>3, <1>4, <2>1
<1>6. ASSUME NEW j \in 1 .. Len(f), f[j].c = "sum"
      PROVE  (j \in 1 .. m /\ f[j] = line[j]) \/ (j = m + (k + 3) /\ f[j].nr = n /\ f[j].of = cmds[n])
  <2>1. j \in 1 .. m \/ (j - m \in 1 .. k + 3 /\ j = m + (j - m))
    BY <1>5
  <2>2. CASE j \in 1 .. m
    BY <1>5, <2>2
  <2>3. CASE j \notin 1 .. m
    <3>1. PICK i \in 1 .. k + 3 : j = m + i /\ f[j] = w[i]
      BY <1>5, <2>1, <2>3
    <3>2. i = k + 3
      <4>1. i \notin 1 .. k + 2
        BY <1>3, <1>6, <3>1
      <4> QED
        BY <4>1
    <3> QED
      BY <1>1, <1>3, <3>1, <3>2
  <2> QED
    BY <2>2, <2>3
<1>7. SumsOf(f, cmds)
  <2>1. n \in 1 .. Len(cmds)
    OBVIOUS
  <2> QED
    BY <1>4, <1>6, <2>1 DEF SumsOf
<1>8. SumsAfter(f, ran)
  <2> SUFFICES ASSUME NEW i \in 1 .. Len(ran), NEW j \in 1 .. Len(f), f[j].c = "sum" PROVE ran[i].nr <= f[j].nr
    BY DEF SumsAfter
  <2>1. ran[i].nr \in 1 .. n
    BY DEF RanAsked
  <2> QED
    <3>1. (j \in 1 .. m /\ f[j] = line[j]) \/ f[j].nr = n
      BY <1>6
    <3>2. CASE j \in 1 .. m /\ f[j] = line[j]
      BY <1>4, <3>2 DEF SumsAfter
    <3> QED
      BY <2>1, <3>1, <3>2
<1>9. SumsRise(f)
  <2> SUFFICES ASSUME NEW i \in 1 .. Len(f), NEW j \in 1 .. Len(f), i < j, f[i].c = "sum", f[j].c = "sum"
               PROVE  f[i].nr <= f[j].nr
    BY DEF SumsRise
  <2>1. (i \in 1 .. m /\ f[i] = line[i]) \/ (i = m + (k + 3) /\ f[i].nr = n)
    BY <1>6
  <2>2. (j \in 1 .. m /\ f[j] = line[j]) \/ (j = m + (k + 3) /\ f[j].nr = n)
    BY <1>6
  <2>3. i \in 1 .. m /\ f[i] = line[i]
    BY <1>5, <2>1
  <2>4. f[i].nr \in 1 .. n
    BY <1>4, <2>3 DEF SumsOf
  <2> QED
    BY <1>4, <2>2, <2>3, <2>4 DEF SumsRise
<1> QED
  BY <1>1, <1>2, <1>5, <1>7, <1>8, <1>9

(* What is left of a frame when one more of it was read.                   *)
LEMMA FrameTail ==
  ASSUME NEW line \in Seq(Items), NEW k \in Nat, NEW n \in Nat, k >= 1, Framed(line, k, n)
  PROVE  /\ line # <<>> /\ Framed(Tail(line), k - 1, n)
         /\ line[1].c = "$" <=> k = 1
<1>1. Len(line) \in Nat /\ Len(line) >= k + 2
  BY LenProperties DEF Framed
<1>2. line # <<>>
  BY <1>1
<1>3. PICK m \in Nat, t \in Seq(Items) :
        /\ t = Tail(line) /\ m + 1 = Len(line) /\ Len(t) = m
        /\ \A i \in 1 .. m : t[i] = line[i + 1] /\ i + 1 \in 1 .. Len(line)
  BY <1>2, LineRest
<1>4. m >= (k - 1) + 2 /\ m \in 1 .. m /\ m - 1 \in 1 .. m
  BY <1>1, <1>3
<1>5. t[m].c = "sum" /\ t[m].nr = n
  <2>1. t[m] = line[m + 1]
    BY <1>3, <1>4
  <2> QED
    BY <1>3, <2>1 DEF Framed
<1>6. t[m - 1].c = "#"
  <2>1. t[m - 1] = line[(m - 1) + 1] /\ (m - 1) + 1 = Len(line) - 1
    BY <1>3, <1>4
  <2> QED
    BY <2>1 DEF Framed
<1>7. ASSUME NEW j \in 1 .. m PROVE t[j].c = "$" <=> j = k - 1
  <2>1. t[j] = line[j + 1] /\ j + 1 \in 1 .. Len(line)
    BY <1>3
  <2>2. line[j + 1].c = "$" <=> j + 1 = k
    BY <2>1 DEF Framed
  <2>3. j + 1 = k <=> j = k - 1
    OBVIOUS
  <2> QED
    BY <2>1, <2>2, <2>3, Zenon
<1>8. ASSUME NEW j \in 1 .. m - 2, j > k - 1 PROVE t[j].c \notin {"#", "sum"}
  <2>1. t[j] = line[j + 1] /\ j + 1 \in 1 .. Len(line) - 2 /\ j + 1 > k
    BY <1>3, <1>8
  <2>2. line[j + 1].c \notin {"#", "sum"}
    BY <2>1, Zenon DEF Framed
  <2> QED
    BY <2>1, <2>2
<1>9. Framed(t, k - 1, n)
  BY <1>3, <1>4, <1>5, <1>6, <1>7, <1>8 DEF Framed
<1>10. line[1].c = "$" <=> k = 1
  <2>1. 1 \in 1 .. Len(line)
    BY <1>1
  <2> QED
    BY <2>1 DEF Framed
<1> QED
  BY <1>2, <1>3, <1>9, <1>10

LEMMA FrameRead ==
  ASSUME NEW line \in Seq(Items), NEW n \in Nat, Framed(line, 0, n)
  PROVE  /\ line # <<>> /\ line[1].c # "$"
         /\ Summed(Tail(line), n)
         /\ line[1].c # "#" => Framed(Tail(line), 0, n)
<1>1. Len(line) \in Nat /\ Len(line) >= 2
  BY LenProperties DEF Framed
<1>2. line # <<>>
  BY <1>1
<1>3. PICK m \in Nat, t \in Seq(Items) :
        /\ t = Tail(line) /\ m + 1 = Len(line) /\ Len(t) = m
        /\ \A i \in 1 .. m : t[i] = line[i + 1] /\ i + 1 \in 1 .. Len(line)
  BY <1>2, LineRest
<1>4. m >= 1
  BY <1>1, <1>3
<1>5. \A j \in 1 .. Len(line) : line[j].c # "$"
  BY DEF Framed
<1>6. line[m + 1].c = "sum" /\ line[m + 1].nr = n /\ line[m].c = "#"
  BY <1>3 DEF Framed
<1>7. \A j \in 1 .. m - 1 : line[j].c # "sum" /\ line[j].c # "#"
  <2>1. Len(line) - 2 = m - 1
    BY <1>3
  <2>2. \A j \in 1 .. m - 1 : j > 0
    OBVIOUS
  <2> QED
    BY <2>1, <2>2 DEF Framed
<1>8. ASSUME t[1].c = "sum" PROVE m = 1
  <2>1. t[1] = line[2]
    BY <1>3, <1>4
  <2>2. CASE m >= 3
    <3>1. 2 \in 1 .. m - 1
      BY <2>2
    <3> QED
      BY <1>7, <1>8, <2>1, <3>1
  <2>3. CASE m = 2
    BY <1>6, <1>8, <2>1, <2>3
  <2> QED
    BY <1>4, <2>2, <2>3
<1>9. Dollarless(t)
  BY <1>3, <1>5 DEF Dollarless
<1>10. Summed(t, n)
  <2>1. m = 1 => t[1] = line[m + 1]
    BY <1>3
  <2> QED
    BY <1>3, <1>4, <1>6, <1>8, <1>9, <2>1 DEF Summed
<1>11. ASSUME line[1].c # "#" PROVE Framed(t, 0, n)
  <2>1. m # 1
    BY <1>6, <1>11
  <2>2. m >= 0 + 2 /\ m \in 1 .. m /\ m - 1 \in 1 .. m
    BY <1>4, <2>1
  <2>3. t[m] = line[m + 1] /\ t[m - 1] = line[m]
    <3>1. (m - 1) + 1 = m
      OBVIOUS
    <3> QED
      BY <1>3, <2>2, <3>1
  <2>4. \A j \in 1 .. m : t[j].c = "$" <=> j = 0
    <3>1. \A j \in 1 .. m : j # 0
      OBVIOUS
    <3> QED
      BY <1>3, <1>9, <3>1 DEF Dollarless
  <2>5. ASSUME NEW j \in 1 .. m - 2 PROVE t[j].c \notin {"#", "sum"}
    <3>1. t[j] = line[j + 1] /\ j + 1 \in 1 .. m - 1
      BY <1>3
    <3> QED
      BY <1>7, <3>1
  <2> QED
    BY <1>3, <1>6, <2>2, <2>3, <2>4, <2>5 DEF Framed
<1>12. line[1].c # "$"
  <2>1. 1 \in 1 .. Len(line)
    BY <1>1
  <2> QED
    BY <1>5, <2>1
<1> QED
  BY <1>2, <1>3, <1>10, <1>11, <1>12

LEMMA DollarTail ==
  ASSUME NEW line \in Seq(Items), line # <<>>, Dollarless(line)
  PROVE  Dollarless(Tail(line))
<1>1. PICK m \in Nat, t \in Seq(Items) :
        /\ t = Tail(line) /\ m + 1 = Len(line) /\ Len(t) = m
        /\ \A i \in 1 .. m : t[i] = line[i + 1] /\ i + 1 \in 1 .. Len(line)
  BY LineRest
<1> QED
  BY <1>1 DEF Dollarless

(* A frame behind a line that has none.                                    *)
LEMMA FrameBehind ==
  ASSUME NEW line \in Seq(Items), NEW d \in GdbCommands, NEW n \in Nat, Dollarless(line)
  PROVE  /\ line \o Frame(n, d) \in Seq(Items) /\ Len(line) \in Nat
         /\ Framed(line \o Frame(n, d), Len(line) + 1, n)
         /\ Len(line) > 0 => (line \o Frame(n, d))[1] = line[1]
<1>1. PICK w \in Seq(Items) : w = Frame(n, d) /\ FrameOf(w, d, n)
  BY CommandFrame DEF FrameOf
<1>2. PICK k \in Nat : k = Len(d) /\ Len(w) = k + 3
  BY <1>1 DEF FrameOf
<1>3. /\ w[1].c = "$" /\ w[k + 2].c = "#" /\ w[k + 3].c = "sum" /\ w[k + 3].nr = n
      /\ \A i \in 1 .. k : w[i + 1].c \notin {"$", "#", "sum"}
  BY <1>1, <1>2 DEF FrameOf
<1>4. PICK m \in Nat : m = Len(line)
  BY LenProperties
<1>5. PICK f \in Seq(Items) : /\ f = line \o w /\ Len(f) = m + (k + 3)
                              /\ \A i \in 1 .. m : f[i] = line[i]
                              /\ \A i \in 1 .. k + 3 : f[m + i] = w[i]
  <2>1. /\ line \o w \in Seq(Items) /\ Len(line \o w) = Len(line) + Len(w)
        /\ \A i \in 1 .. Len(line) : (line \o w)[i] = line[i]
        /\ \A i \in 1 .. Len(w) : (line \o w)[Len(line) + i] = w[i]
    BY LineJoined
  <2> QED
    BY <1>2, <1>4, <2>1
<1>6. f[Len(f)] = w[k + 3] /\ f[Len(f) - 1] = w[k + 2]
  <2>0. k + 2 \in 1 .. k + 3 /\ k + 3 \in 1 .. k + 3
    OBVIOUS
  <2>1. f[m + (k + 3)] = w[k + 3] /\ f[m + (k + 2)] = w[k + 2]
    BY <1>5, <2>0, Zenon
  <2>2. Len(f) = m + (k + 3) /\ Len(f) - 1 = m + (k + 2)
    BY <1>5
  <2> QED
    BY <2>1, <2>2
<1>7. ASSUME NEW j \in 1 .. Len(f) PROVE f[j].c = "$" <=> j = m + 1
  <2>1. CASE j \in 1 .. m
    BY <1>4, <1>5, <2>1 DEF Dollarless
  <2>2. CASE j \notin 1 .. m
    <3>1. PICK i \in 1 .. k + 3 : j = m + i /\ f[j] = w[i]
      <4>1. j - m \in 1 .. k + 3 /\ j = m + (j - m)
        BY <1>5, <2>2
      <4> QED
        BY <1>5, <4>1
    <3>2. i = 1 \/ i = k + 2 \/ i = k + 3 \/ (i - 1 \in 1 .. k /\ i = (i - 1) + 1)
      OBVIOUS
    <3>3. w[i].c = "$" <=> i = 1
      BY <1>3, <3>2
    <3> QED
      BY <3>1, <3>3
  <2> QED
    BY <2>1, <2>2
<1>8. ASSUME NEW j \in 1 .. Len(f) - 2, j > m + 1 PROVE f[j].c \notin {"#", "sum"}
  <2>1. (j - m) - 1 \in 1 .. k /\ j - m \in 1 .. k + 3 /\ j = m + (j - m) /\ j - m = ((j - m) - 1) + 1
    BY <1>5, <1>8
  <2>2. PICK i \in 1 .. k : j - m = i + 1 /\ i + 1 \in 1 .. k + 3 /\ j = m + (i + 1)
    BY <2>1
  <2>3. f[j] = w[i + 1]
    BY <1>5, <2>2
  <2> QED
    BY <1>3, <2>3
<1>9. Framed(f, m + 1, n)
  <2>1. Len(f) >= (m + 1) + 2
    BY <1>5
  <2> QED
    BY <1>3, <1>6, <1>7, <1>8, <2>1 DEF Framed
<1>10. m > 0 => f[1] = line[1]
  BY <1>5
<1> QED
  BY <1>1, <1>4, <1>5, <1>9, <1>10

LEMMA GdbBegins == GdbInit => GdbInv
<1> SUFFICES ASSUME GdbInit PROVE GdbInv
  OBVIOUS
<1>1. /\ stub = [at |-> "running", buf |-> <<>>, reply |-> <<>>, aktiv |-> FALSE, tf |-> FALSE, int3 |-> FALSE]
      /\ host = [at |-> "stop", took |-> <<>>]
      /\ asked = <<>> /\ done = <<>> /\ toStub = <<>> /\ toHost = <<>> /\ faults = 0
  BY DEF GdbInit
<1>2. /\ stub.at = "running" /\ stub.buf = <<>> /\ stub.aktiv = FALSE /\ stub.tf = FALSE
      /\ host.at = "stop" /\ host.took = <<>>
  BY <1>1
<1>3. Len(asked) = 0 /\ Len(done) = 0 /\ Len(toStub) = 0 /\ Len(stub.buf) = 0 /\ Len(host.took) = 0
  BY <1>1, <1>2
<1>4. StubTyped
  <2>1. <<>> \in Seq(Chars) /\ <<>> \in Texts
    BY DEF Texts
  <2>2. FALSE \in BOOLEAN
    OBVIOUS
  <2>3. stub \in Stubs
    BY <1>1, <2>1, <2>2, Zenon DEF Stubs
  <2> QED
    BY <1>3, <2>3, DebugAssumption DEF StubTyped
<1>5. HostTyped
  <2>1. host \in Hosts
    BY <1>1 DEF Hosts
  <2> QED
    BY <1>1, <1>2, <1>3, <2>1, DebugAssumption DEF HostTyped
<1>6. LineTyped
  BY <1>1, DebugAssumption DEF LineTyped
<1>7. SumsTrue
  BY <1>3 DEF SumsTrue, SumsOf, SumsRise, SumsAfter, RanAsked
<1>8. HaltedTrue
  BY <1>2, <1>3 DEF HaltedTrue
<1>9. ClearTrue
  <2>1. Talk
    BY <1>1, <1>2, <1>3 DEF Talk, TalkStops
  <2> QED
    BY <1>3, <2>1 DEF ClearTrue, EachOnce, TookTrue
<1> QED
  BY <1>4, <1>5, <1>6, <1>7, <1>8, <1>9 DEF GdbInv, GdbTyped

LEMMA HaltsKeeps ==
  ASSUME GdbInv, NEW int3 \in BOOLEAN, Halts(int3)
  PROVE  GdbInv'
<1>1. /\ stub.at = "running" /\ toHost' = Append(toHost, Packet(StopReply))
      /\ UNCHANGED <<host, asked, done, toStub, faults>>
  BY DEF Halts
<1>2. stub \in Stubs /\ Len(stub.buf) < GDBBUF /\ toHost \in Seq(Items)
  BY DEF GdbInv, GdbTyped, StubTyped, LineTyped
<1>3. PICK v \in BOOLEAN : v = (int3 /\ stub.tf)
  OBVIOUS
<1>4. stub' = [stub EXCEPT !.at = "ack", !.reply = StopReply, !.aktiv = TRUE, !.tf = v, !.int3 = v]
  BY <1>3, Zenon DEF Halts
<1>5. TRUE \in BOOLEAN
  OBVIOUS
<1>6. stub' \in Stubs /\ stub'.at = "ack" /\ stub'.aktiv = TRUE /\ stub'.tf = v /\ stub'.int3 = v /\ stub'.buf = stub.buf
  BY <1>2, <1>4, <1>5, AnswerPlain DEF Stubs
<1>7. StubTyped' /\ HostTyped'
  BY <1>1, <1>2, <1>6 DEF GdbInv, GdbTyped, StubTyped, HostTyped
<1>8. LineTyped'
  <2>1. toHost' \in Seq(Items)
    BY <1>1, <1>2, PacketItem, AnswerPlain, LineAppended
  <2> QED
    BY <1>1, <2>1 DEF GdbInv, GdbTyped, LineTyped
<1>9. SumsTrue'
  BY <1>1 DEF GdbInv, SumsTrue
<1>10. HaltedTrue'
  BY <1>6 DEF HaltedTrue
<1>11. ClearTrue'
  <2> SUFFICES ASSUME faults = 0 PROVE Talk' /\ EachOnce' /\ TookTrue'
    BY <1>1 DEF ClearTrue
  <2>1. Talk /\ EachOnce /\ TookTrue
    BY DEF GdbInv, ClearTrue
  <2>2. host.at = "stop" /\ Len(done) = Len(asked) /\ toStub = <<>> /\ toHost = <<>>
    BY <1>1, <2>1 DEF Talk, TalkStops, TalkIdle, TalkAsks, TalkRan, TalkAnswers
  <2>3. Sole(toHost, "packet", StopReply)'
    <3>1. Packet(StopReply) \in Items /\ Packet(StopReply).c = "packet" /\ Packet(StopReply).of = StopReply
      BY PacketItem, AnswerPlain
    <3>2. toHost' = <<Packet(StopReply)>>
      BY <1>1, <2>2
    <3>3. Len(toHost') = 1 /\ toHost'[1] = Packet(StopReply)
      BY <3>2
    <3> QED
      BY <3>1, <3>3 DEF Sole
  <2>4. Talk'
    BY <1>1, <1>6, <2>2, <2>3 DEF Talk, TalkStops
  <2> QED
    BY <1>1, <2>1, <2>4 DEF EachOnce, TookTrue
<1> QED
  BY <1>7, <1>8, <1>9, <1>10, <1>11 DEF GdbInv, GdbTyped

LEMMA AcknowledgedKeeps ==
  ASSUME GdbInv, Acknowledged
  PROVE  GdbInv'
<1>1. /\ stub.at = "ack" /\ toStub # <<>> /\ toStub' = Tail(toStub)
      /\ UNCHANGED <<host, asked, done, faults>>
  BY DEF Acknowledged
<1>2. /\ stub \in Stubs /\ Len(stub.buf) < GDBBUF /\ toStub \in Seq(Items) /\ toHost \in Seq(Items)
      /\ asked \in Seq(GdbCommands)
  BY DEF GdbInv, GdbTyped, StubTyped, HostTyped, LineTyped
<1>3. toStub' \in Seq(Items) /\ Head(toStub) = toStub[1]
  BY <1>1, <1>2, LineTail
<1>4. SumsTrue'
  <2>1. SumsOf(toStub', asked) /\ SumsRise(toStub') /\ SumsAfter(toStub', done) /\ RanAsked(done, asked)
    BY <1>1, <1>2, SumsTail DEF GdbInv, SumsTrue
  <2> QED
    BY <1>1, <2>1 DEF SumsTrue
<1>5. CASE toStub[1].c = "+"
  <2>1. PICK at \in {"start", "running"} : at = IF stub.aktiv THEN "start" ELSE "running"
    OBVIOUS
  <2>2. stub' = [stub EXCEPT !.at = at] /\ UNCHANGED toHost
    BY <1>3, <1>5, <2>1 DEF Acknowledged
  <2>3. /\ stub' \in Stubs /\ stub'.at = at /\ stub'.buf = stub.buf
        /\ stub'.aktiv = stub.aktiv /\ stub'.tf = stub.tf /\ stub'.int3 = stub.int3
    BY <1>2, <2>2 DEF Stubs
  <2>4. StubTyped' /\ HostTyped' /\ LineTyped'
    BY <1>1, <1>2, <1>3, <2>2, <2>3 DEF GdbInv, GdbTyped, StubTyped, HostTyped, LineTyped
  <2>5. HaltedTrue'
    BY <1>1, <2>1, <2>3 DEF GdbInv, HaltedTrue
  <2>6. ClearTrue'
    <3> SUFFICES ASSUME faults = 0 PROVE Talk' /\ EachOnce' /\ TookTrue'
      BY <1>1 DEF ClearTrue
    <3>1. Talk /\ EachOnce /\ TookTrue
      BY DEF GdbInv, ClearTrue
    <3> SUFFICES Talk'
      BY <1>1, <3>1 DEF EachOnce, TookTrue
    <3>2. CASE TalkStops
      <4>1. ~stub.aktiv /\ toHost = <<>> /\ Len(toStub) = 1 /\ host.at = "stop" /\ Len(done) = Len(asked)
        BY <1>1, <3>2 DEF TalkStops, Sole
      <4>2. toStub' = <<>>
        BY <1>1, <1>2, <4>1, LineEnds
      <4>5. stub'.at = "running"
        BY <2>1, <2>3, <4>1
      <4>6. TalkStops'
        BY <1>1, <2>2, <2>3, <4>1, <4>2, <4>5 DEF TalkStops
      <4> QED
        BY <4>6 DEF Talk
    <3>3. CASE TalkIdle
      <4>1. stub.aktiv /\ toHost = <<>> /\ Len(toStub) = 1 /\ host.at = "idle" /\ Len(done) = Len(asked)
        BY <1>1, <3>3 DEF TalkIdle, Sole
      <4>2. toStub' = <<>>
        BY <1>1, <1>2, <4>1, LineEnds
      <4>5. stub'.at = "start"
        BY <2>1, <2>3, <4>1
      <4>6. TalkIdle'
        BY <1>1, <2>2, <2>3, <4>1, <4>2, <4>5 DEF TalkIdle
      <4> QED
        BY <4>6 DEF Talk
    <3>4. CASE TalkAsks
      <4>1. stub.aktiv /\ toHost = <<>> /\ Framed(toStub, 2, Len(asked)) /\ host.at = "ack" /\ Len(asked) = Len(done) + 1
        BY <1>1, <3>4 DEF TalkAsks
      <4>2. Len(asked) \in Nat
        BY <1>2, LenProperties
      <4>3. Framed(toStub', 1, Len(asked))
        <5>1. Framed(Tail(toStub), 2 - 1, Len(asked))
          BY <1>2, <4>1, <4>2, FrameTail
        <5> QED
          BY <1>1, <5>1
      <4>4. \E k \in Nat : k >= 1 /\ Framed(toStub', k, Len(asked))
        BY <4>3
      <4>5. stub'.at = "start"
        BY <2>1, <2>3, <4>1
      <4>6. TalkAsks'
        BY <1>1, <2>2, <2>3, <4>1, <4>4, <4>5 DEF TalkAsks
      <4> QED
        BY <4>6 DEF Talk
    <3>5. ~TalkRan /\ ~TalkAnswers
      BY <1>1 DEF TalkRan, TalkAnswers
    <3> QED
      BY <3>1, <3>2, <3>3, <3>4, <3>5 DEF Talk
  <2> QED
    BY <1>4, <2>4, <2>5, <2>6 DEF GdbInv, GdbTyped
<1>6. CASE toStub[1].c # "+"
  <2>1. toHost' = Append(toHost, Packet(stub.reply)) /\ UNCHANGED stub
    BY <1>3, <1>6 DEF Acknowledged
  <2>2. stub.reply \in Texts
    BY <1>2 DEF Stubs
  <2>3. toHost' \in Seq(Items)
    BY <1>2, <2>1, <2>2, PacketItem, LineAppended
  <2>4. StubTyped' /\ HostTyped' /\ LineTyped'
    BY <1>1, <1>3, <2>1, <2>3 DEF GdbInv, GdbTyped, StubTyped, HostTyped, LineTyped
  <2>5. HaltedTrue'
    BY <1>1, <2>1 DEF GdbInv, HaltedTrue
  <2>6. ClearTrue'
    <3> SUFFICES ASSUME faults = 0 PROVE FALSE
      BY <1>1 DEF ClearTrue
    <3>1. Talk
      BY DEF GdbInv, ClearTrue
    <3> QED
      BY <1>1, <1>6, <3>1 DEF Talk, TalkStops, TalkIdle, TalkAsks, TalkRan, TalkAnswers, Sole
  <2> QED
    BY <1>4, <2>4, <2>5, <2>6 DEF GdbInv, GdbTyped
<1> QED
  BY <1>5, <1>6

LEMMA ReceivesKeeps ==
  ASSUME GdbInv, Receives
  PROVE  GdbInv'
<1>1. /\ stub.at \in {"start", "data"} /\ toStub # <<>> /\ toStub' = Tail(toStub)
      /\ UNCHANGED <<host, asked, done, toHost, faults>>
  BY DEF Receives
<1>2. /\ stub \in Stubs /\ Len(stub.buf) < GDBBUF /\ toStub \in Seq(Items) /\ toHost \in Seq(Items)
      /\ asked \in Seq(GdbCommands) /\ Len(asked) \in Nat
  BY LenProperties DEF GdbInv, GdbTyped, StubTyped, HostTyped, LineTyped
<1>3. toStub' \in Seq(Items) /\ Head(toStub) = toStub[1] /\ toStub[1] \in Items
  BY <1>1, <1>2, LineTail
<1>4. PICK c \in Chars : c = toStub[1].c /\ c = Head(toStub).c
  BY <1>3 DEF Items
<1>5. \/ stub.at = "start" /\ c = "$" /\ stub' = [stub EXCEPT !.at = "data", !.buf = <<>>]
      \/ stub.at = "start" /\ c # "$" /\ stub' = stub
      \/ stub.at = "data" /\ (c = "#" \/ Len(stub.buf) + 1 >= GDBBUF) /\ stub' = [stub EXCEPT !.at = "sum"]
      \/ stub.at = "data" /\ c # "#" /\ Len(stub.buf) + 1 < GDBBUF /\ stub' = [stub EXCEPT !.buf = Append(stub.buf, c)]
  <2>1. Len(stub.buf) \in Nat /\ GDBBUF \in Nat
    BY <1>2, LenProperties, DebugAssumption DEF Stubs
  <2> QED
    BY <1>1, <1>4, <2>1 DEF Receives
<1>6. /\ stub' \in Stubs /\ Len(stub'.buf) < GDBBUF /\ stub'.at \in {"start", "data", "sum"}
      /\ stub'.aktiv = stub.aktiv /\ stub'.tf = stub.tf /\ stub'.int3 = stub.int3
      /\ stub'.at = "start" <=> stub.at = "start" /\ c # "$"
      /\ stub.at = "start" /\ c = "$" => stub'.at = "data"
      /\ stub.at = "data" => stub'.at = "sum" \/ (stub'.at = "data" /\ c # "#")
  <2>1. stub.buf \in Seq(Chars)
    BY <1>2 DEF Stubs
  <2>2. CASE stub.at = "start" /\ c = "$" /\ stub' = [stub EXCEPT !.at = "data", !.buf = <<>>]
    <3>1. <<>> \in Seq(Chars) /\ Len(<<>>) = 0 /\ 0 < GDBBUF
      BY DebugAssumption
    <3> QED
      BY <1>2, <2>2, <3>1 DEF Stubs
  <2>3. CASE stub.at = "start" /\ c # "$" /\ stub' = stub
    BY <1>2, <2>3
  <2>4. CASE stub.at = "data" /\ (c = "#" \/ Len(stub.buf) + 1 >= GDBBUF) /\ stub' = [stub EXCEPT !.at = "sum"]
    BY <1>2, <2>4 DEF Stubs
  <2>5. CASE stub.at = "data" /\ c # "#" /\ Len(stub.buf) + 1 < GDBBUF /\ stub' = [stub EXCEPT !.buf = Append(stub.buf, c)]
    <3>1. PICK b \in Seq(Chars) : b = Append(stub.buf, c) /\ Len(b) = Len(stub.buf) + 1
      <4>1. stub.buf \in Seq(Chars)
        BY <2>1
      <4>2. Append(stub.buf, c) \in Seq(Chars) /\ Len(Append(stub.buf, c)) = Len(stub.buf) + 1
        BY <4>1, LineAppended
      <4> QED
        BY <4>2, Zenon
    <3>2. stub' = [stub EXCEPT !.buf = b] /\ Len(b) < GDBBUF /\ stub.at = "data" /\ c # "#"
      BY <2>5, <3>1
    <3> QED
      BY <1>2, <3>2 DEF Stubs
  <2> QED
    BY <1>5, <2>2, <2>3, <2>4, <2>5
<1>7. StubTyped' /\ HostTyped' /\ LineTyped'
  BY <1>1, <1>3, <1>6 DEF GdbInv, GdbTyped, StubTyped, HostTyped, LineTyped
<1>8. SumsTrue'
  <2>1. SumsOf(toStub', asked) /\ SumsRise(toStub') /\ SumsAfter(toStub', done) /\ RanAsked(done, asked)
    BY <1>1, <1>2, SumsTail DEF GdbInv, SumsTrue
  <2> QED
    BY <1>1, <2>1 DEF SumsTrue
<1>9. HaltedTrue'
  BY <1>1, <1>6 DEF GdbInv, HaltedTrue
<1>10. ClearTrue'
  <2> SUFFICES ASSUME faults = 0 PROVE Talk' /\ EachOnce' /\ TookTrue'
    BY <1>1 DEF ClearTrue
  <2>1. Talk /\ EachOnce /\ TookTrue
    BY DEF GdbInv, ClearTrue
  <2>2. TalkAsks
    BY <1>1, <2>1 DEF Talk, TalkStops, TalkIdle, TalkRan, TalkAnswers
  <2>3. PICK n \in Nat : n = Len(asked)
    BY <1>2
  <2>4. TalkAsks'
    <3>1. CASE stub.at = "start" /\ toHost = <<>> /\ \E k \in Nat : k >= 1 /\ Framed(toStub, k, n)
      <4>1. PICK k \in Nat : k >= 1 /\ Framed(toStub, k, n)
        BY <3>1
      <4>2. Framed(toStub', k - 1, n) /\ (toStub[1].c = "$" <=> k = 1)
        BY <1>1, <1>2, <4>1, FrameTail
      <4>3. CASE k = 1
        BY <1>1, <1>4, <1>6, <2>2, <2>3, <3>1, <4>2, <4>3 DEF TalkAsks
      <4>4. CASE k # 1
        <5>1. k - 1 \in Nat /\ k - 1 >= 1
          BY <4>1, <4>4
        <5>2. \E j \in Nat : j >= 1 /\ Framed(toStub', j, n)
          BY <4>2, <5>1
        <5>3. stub'.at = "start"
          BY <1>4, <1>6, <3>1, <4>2, <4>4
        <5> QED
          BY <1>1, <2>2, <2>3, <3>1, <5>2, <5>3 DEF TalkAsks
      <4> QED
        BY <4>3, <4>4
    <3>2. CASE stub.at = "data" /\ toHost = <<>> /\ Framed(toStub, 0, n)
      <4>1. Summed(toStub', n) /\ (c # "#" => Framed(toStub', 0, n))
        BY <1>1, <1>2, <1>4, <3>2, FrameRead
      <4>2. stub'.at = "sum" \/ (stub'.at = "data" /\ c # "#")
        BY <1>6, <3>2
      <4> QED
        BY <1>1, <2>2, <2>3, <3>2, <4>1, <4>2 DEF TalkAsks
    <3>3. CASE stub.at = "start" /\ Sole(toHost, "-", <<>>) /\ Dollarless(toStub)
      <4>1. Dollarless(toStub')
        BY <1>1, <1>2, <3>3, DollarTail
      <4>2. c # "$"
        <5>1. Len(toStub) \in Nat /\ Len(toStub) >= 1
          BY <1>1, <1>2, LineTail
        <5>2. 1 \in 1 .. Len(toStub)
          BY <5>1
        <5> QED
          BY <1>4, <3>3, <5>2 DEF Dollarless
      <4> QED
        BY <1>1, <1>6, <2>2, <3>3, <4>1, <4>2 DEF TalkAsks
    <3> QED
      BY <1>1, <2>2, <2>3, <3>1, <3>2, <3>3 DEF TalkAsks
  <2> QED
    BY <1>1, <2>1, <2>4 DEF Talk, EachOnce, TookTrue
<1> QED
  BY <1>7, <1>8, <1>9, <1>10 DEF GdbInv, GdbTyped

(* A command is run: the stub has it whole, and the debugger asked it.     *)
LEMMA CommandRuns ==
  ASSUME GdbInv, RunsCommand, Checks(Head(toStub))
  PROVE  GdbInv'
<1>1. /\ stub.at = "sum" /\ toStub # <<>> /\ toStub' = Tail(toStub)
      /\ UNCHANGED <<host, asked, faults>>
  BY DEF RunsCommand
<1>2. /\ stub \in Stubs /\ Len(stub.buf) < GDBBUF /\ toStub \in Seq(Items) /\ toHost \in Seq(Items)
      /\ asked \in Seq(GdbCommands) /\ Len(asked) \in Nat /\ done \in Seq(Dones) /\ Len(done) \in Nat
  BY LenProperties DEF GdbInv, GdbTyped, StubTyped, HostTyped, LineTyped
<1>3. toStub' \in Seq(Items) /\ Head(toStub) = toStub[1] /\ toStub[1] \in Items /\ 1 \in 1 .. Len(toStub)
  BY <1>1, <1>2, LineTail
<1>4. PICK nr \in 1 .. Len(asked), d \in GdbCommands :
        nr = toStub[1].nr /\ toStub[1].c = "sum" /\ d = asked[nr] /\ d = stub.buf
  <2>1. toStub[1].c = "sum" /\ toStub[1].of = stub.buf
    BY <1>3 DEF Checks
  <2>2. SumsOf(toStub, asked)
    BY DEF GdbInv, SumsTrue
  <2>3. toStub[1].nr \in 1 .. Len(asked) /\ toStub[1].of = asked[toStub[1].nr]
    BY <1>3, <2>1, <2>2 DEF SumsOf
  <2>4. asked[toStub[1].nr] \in GdbCommands
    BY <1>2, <2>3, ElementOfSeq
  <2> QED
    BY <2>1, <2>3, <2>4
<1>5. PICK free \in BOOLEAN, traced \in BOOLEAN : free = (d \notin Goes) /\ traced = (stub.tf \/ d = <<"s">>)
  OBVIOUS
<1>6. PICK reply \in Texts : reply = Answer(d)
  BY AnswerText
<1>7. /\ stub' = [stub EXCEPT !.at = "ack", !.reply = reply, !.aktiv = free, !.tf = traced]
      /\ done' = Append(done, [cmd |-> d, nr |-> nr])
      /\ toHost' = toHost \o <<On("+"), Packet(reply)>>
  BY <1>3, <1>4, <1>5, <1>6, Zenon DEF RunsCommand, Goes
<1>8. /\ stub' \in Stubs /\ stub'.at = "ack" /\ stub'.buf = stub.buf
      /\ stub'.aktiv = free /\ stub'.tf = traced /\ stub'.int3 = stub.int3
  BY <1>2, <1>7 DEF Stubs
<1>9. PICK e \in Dones : e = [cmd |-> d, nr |-> nr] /\ e.cmd = d /\ e.nr = nr
  <2>1. nr \in Nat
    BY <1>2
  <2>2. [cmd |-> d, nr |-> nr] \in Dones
    BY <2>1 DEF Dones
  <2> QED
    BY <2>2
<1>10. /\ done' \in Seq(Dones) /\ Len(done') = Len(done) + 1
       /\ \A i \in 1 .. Len(done) : done'[i] = done[i]
       /\ done'[Len(done) + 1] = e
  BY <1>2, <1>7, <1>9, LineAppended
<1>11. PICK plus \in Items : plus = On("+") /\ plus.c = "+"
  BY OnItem, AnswerPlain
<1>12. PICK pack \in Items : pack = Packet(reply) /\ pack.c = "packet" /\ pack.of = reply
  BY PacketItem
<1>13. PICK both \in Seq(Items) : both = <<plus, pack>> /\ Len(both) = 2 /\ both[1] = plus /\ both[2] = pack
  <2>1. /\ <<plus, pack>> \in Seq(Items) /\ Len(<<plus, pack>>) = 2
        /\ <<plus, pack>>[1] = plus /\ <<plus, pack>>[2] = pack
    BY LinePair
  <2> QED
    BY <2>1, Zenon
<1>14. toHost' = toHost \o both /\ toHost' \in Seq(Items)
  BY <1>2, <1>7, <1>11, <1>12, <1>13, LineJoined
<1>15. StubTyped' /\ HostTyped' /\ LineTyped'
  BY <1>1, <1>2, <1>3, <1>8, <1>10, <1>14 DEF GdbInv, GdbTyped, StubTyped, HostTyped, LineTyped
<1>16. SumsOf(toStub, asked) /\ SumsRise(toStub) /\ SumsAfter(toStub, done) /\ RanAsked(done, asked)
  BY DEF GdbInv, SumsTrue
<1>17. SumsOf(toStub', asked) /\ SumsRise(toStub') /\ SumsAfter(toStub', done)
  BY <1>1, <1>2, <1>16, SumsTail
<1>18. \A i \in 1 .. Len(done') : (i \in 1 .. Len(done) /\ done'[i] = done[i]) \/ (i = Len(done) + 1 /\ done'[i] = e)
  <2> SUFFICES ASSUME NEW i \in 1 .. Len(done')
               PROVE  (i \in 1 .. Len(done) /\ done'[i] = done[i]) \/ (i = Len(done) + 1 /\ done'[i] = e)
    OBVIOUS
  <2>1. i \in 1 .. Len(done) \/ i = Len(done) + 1
    BY <1>2, <1>10
  <2> QED
    BY <1>10, <2>1
<1>19. SumsAfter(toStub', done')
  <2> SUFFICES ASSUME NEW i \in 1 .. Len(done'), NEW j \in 1 .. Len(toStub'), toStub'[j].c = "sum"
               PROVE  done'[i].nr <= toStub'[j].nr
    BY DEF SumsAfter
  <2>1. CASE i \in 1 .. Len(done) /\ done'[i] = done[i]
    BY <1>17, <2>1 DEF SumsAfter
  <2>2. CASE done'[i] = e
    <3>1. PICK m \in Nat, t \in Seq(Items) :
            /\ t = Tail(toStub) /\ m + 1 = Len(toStub) /\ Len(t) = m
            /\ \A k \in 1 .. m : t[k] = toStub[k + 1] /\ k + 1 \in 1 .. Len(toStub)
      BY <1>1, <1>2, LineRest
    <3>2. toStub'[j] = toStub[j + 1] /\ j + 1 \in 1 .. Len(toStub) /\ 1 < j + 1
      BY <1>1, <3>1
    <3>3. toStub[1].nr <= toStub[j + 1].nr
      BY <1>3, <1>4, <1>16, <3>2 DEF SumsRise
    <3> QED
      BY <1>4, <1>9, <2>2, <3>2, <3>3
  <2> QED
    BY <1>18, <2>1, <2>2
<1>20. \A i \in 1 .. Len(done) : done[i].nr <= nr
  BY <1>3, <1>4, <1>16 DEF SumsAfter
<1>21. RanAsked(done', asked)
  <2>1. ASSUME NEW i \in 1 .. Len(done') PROVE done'[i].nr \in 1 .. Len(asked) /\ done'[i].cmd = asked[done'[i].nr]
    <3>1. CASE i \in 1 .. Len(done) /\ done'[i] = done[i]
      BY <1>16, <3>1 DEF RanAsked
    <3>2. CASE done'[i] = e
      BY <1>4, <1>9, <3>2
    <3> QED
      BY <1>18, <3>1, <3>2
  <2>2. ASSUME NEW i \in 1 .. Len(done'), NEW j \in 1 .. Len(done'), i < j PROVE done'[i].nr <= done'[j].nr
    <3>1. i \in 1 .. Len(done) /\ done'[i] = done[i]
      BY <1>2, <1>10, <2>2
    <3>2. CASE j \in 1 .. Len(done) /\ done'[j] = done[j]
      BY <1>16, <2>2, <3>1, <3>2 DEF RanAsked
    <3>3. CASE done'[j] = e
      BY <1>9, <1>20, <3>1, <3>3
    <3> QED
      BY <1>18, <3>2, <3>3
  <2> QED
    BY <2>1, <2>2 DEF RanAsked
<1>22. SumsTrue'
  BY <1>1, <1>17, <1>19, <1>21 DEF SumsTrue
<1>23. HaltedTrue'
  <2>1. Len(done') > 0 /\ done'[Len(done')] = e
    BY <1>2, <1>10
  <2>2. ASSUME ~stub'.aktiv PROVE Freed(done', Goes)
    BY <1>5, <1>8, <1>9, <2>1, <2>2 DEF Freed
  <2>3. ASSUME stub'.tf PROVE stub'.int3 \/ (~stub'.aktiv /\ Freed(done', {<<"s">>}))
    <3>1. CASE stub.tf
      <4>1. stub.aktiv
        BY <1>1 DEF GdbInv, HaltedTrue
      <4> QED
        BY <1>8, <3>1, <4>1 DEF GdbInv, HaltedTrue
    <3>2. CASE d = <<"s">>
      BY <1>5, <1>8, <1>9, <2>1, <3>2 DEF Freed, Goes
    <3> QED
      BY <1>5, <1>8, <2>3, <3>1, <3>2
  <2> QED
    BY <1>8, <2>2, <2>3 DEF HaltedTrue
<1>24. ClearTrue'
  <2> SUFFICES ASSUME faults = 0 PROVE Talk' /\ EachOnce' /\ TookTrue'
    BY <1>1 DEF ClearTrue
  <2>1. Talk /\ EachOnce /\ TookTrue
    BY DEF GdbInv, ClearTrue
  <2>2. TalkAsks /\ toHost = <<>> /\ Summed(toStub, Len(asked)) /\ host.at = "ack" /\ Len(asked) = Len(done) + 1
    BY <1>1, <2>1 DEF Talk, TalkStops, TalkIdle, TalkAsks, TalkRan, TalkAnswers
  <2>3. Len(toStub) = 1 /\ nr = Len(asked)
    BY <1>4, <2>2 DEF Summed
  <2>4. toStub' = <<>>
    BY <1>1, <1>2, <2>3, LineEnds
  <2>5. toHost' = both
    BY <1>13, <1>14, <2>2
  <2>6. stub'.aktiv <=> asked[Len(asked)] \notin Goes
    BY <1>4, <1>5, <1>8, <2>3
  <2>7. TalkRan'
    <3>1. Len(toHost') = 2 /\ toHost'[1].c = "+" /\ toHost'[2].c = "packet" /\ toHost'[2].of = Answer(asked[Len(asked)])
      BY <1>4, <1>6, <1>11, <1>12, <1>13, <2>3, <2>5
    <3> QED
      BY <1>1, <1>8, <1>10, <2>2, <2>4, <2>6, <3>1 DEF TalkRan
  <2>8. EachOnce'
    BY <1>4, <1>9, <1>18, <2>1, <2>2, <2>3 DEF EachOnce
  <2> QED
    BY <1>1, <2>1, <2>7, <2>8 DEF Talk, TookTrue
<1> QED
  BY <1>15, <1>22, <1>23, <1>24 DEF GdbInv, GdbTyped

LEMMA CommandRefused ==
  ASSUME GdbInv, RunsCommand, ~Checks(Head(toStub))
  PROVE  GdbInv'
<1>1. /\ stub.at = "sum" /\ toStub # <<>> /\ toStub' = Tail(toStub)
      /\ stub' = [stub EXCEPT !.at = "start"] /\ toHost' = Append(toHost, On("-"))
      /\ UNCHANGED <<host, asked, faults, done>>
  BY DEF RunsCommand
<1>2. /\ stub \in Stubs /\ Len(stub.buf) < GDBBUF /\ toStub \in Seq(Items) /\ toHost \in Seq(Items)
      /\ asked \in Seq(GdbCommands)
  BY DEF GdbInv, GdbTyped, StubTyped, HostTyped, LineTyped
<1>3. toStub' \in Seq(Items)
  BY <1>1, <1>2, LineTail
<1>4. /\ stub' \in Stubs /\ stub'.at = "start" /\ stub'.buf = stub.buf
      /\ stub'.aktiv = stub.aktiv /\ stub'.tf = stub.tf /\ stub'.int3 = stub.int3
  BY <1>1, <1>2 DEF Stubs
<1>5. PICK minus \in Items : minus = On("-") /\ minus.c = "-" /\ minus.of = <<>>
  BY OnItem, AnswerPlain
<1>6. toHost' \in Seq(Items)
  BY <1>1, <1>2, <1>5, LineAppended
<1>7. StubTyped' /\ HostTyped' /\ LineTyped'
  BY <1>1, <1>2, <1>3, <1>4, <1>6 DEF GdbInv, GdbTyped, StubTyped, HostTyped, LineTyped
<1>8. SumsTrue'
  <2>1. SumsOf(toStub', asked) /\ SumsRise(toStub') /\ SumsAfter(toStub', done) /\ RanAsked(done, asked)
    BY <1>1, <1>2, SumsTail DEF GdbInv, SumsTrue
  <2> QED
    BY <1>1, <2>1 DEF SumsTrue
<1>9. HaltedTrue'
  BY <1>1, <1>4 DEF GdbInv, HaltedTrue
<1>10. ClearTrue'
  <2> SUFFICES ASSUME faults = 0 PROVE Talk' /\ EachOnce' /\ TookTrue'
    BY <1>1 DEF ClearTrue
  <2>1. Talk /\ EachOnce /\ TookTrue
    BY DEF GdbInv, ClearTrue
  <2>2. toHost = <<>> /\ Summed(toStub, Len(asked)) /\ host.at = "ack" /\ Len(asked) = Len(done) + 1
    BY <1>1, <2>1 DEF Talk, TalkStops, TalkIdle, TalkAsks, TalkRan, TalkAnswers
  <2>3. Dollarless(toStub')
    BY <1>1, <1>2, <2>2, DollarTail DEF Summed
  <2>4. Sole(toHost, "-", <<>>)'
    <3>1. toHost' = <<minus>>
      BY <1>1, <1>5, <2>2
    <3>2. Len(toHost') = 1 /\ toHost'[1] = minus
      BY <3>1
    <3> QED
      BY <1>5, <3>2 DEF Sole
  <2>5. TalkAsks'
    BY <1>1, <1>4, <2>2, <2>3, <2>4 DEF TalkAsks
  <2> QED
    BY <1>1, <2>1, <2>5 DEF Talk, EachOnce, TookTrue
<1> QED
  BY <1>7, <1>8, <1>9, <1>10 DEF GdbInv, GdbTyped

(* What holds of the commands asked holds when one more is asked.          *)
LEMMA OneMoreAsked ==
  ASSUME NEW cmds \in Seq(GdbCommands), NEW d \in GdbCommands, NEW ran, NEW line
  PROVE  /\ Append(cmds, d) \in Seq(GdbCommands) /\ Len(cmds) \in Nat /\ Len(Append(cmds, d)) = Len(cmds) + 1
         /\ Append(cmds, d)[Len(cmds) + 1] = d
         /\ \A i \in 1 .. Len(cmds) : Append(cmds, d)[i] = cmds[i]
         /\ SumsOf(line, cmds) => SumsOf(line, Append(cmds, d))
         /\ RanAsked(ran, cmds) => RanAsked(ran, Append(cmds, d))
<1>1. PICK n \in Nat : n = Len(cmds)
  BY LenProperties
<1>2. PICK more \in Seq(GdbCommands) : more = Append(cmds, d) /\ Len(more) = n + 1 /\ more[n + 1] = d
                                       /\ \A i \in 1 .. n : more[i] = cmds[i]
  <2>1. /\ Append(cmds, d) \in Seq(GdbCommands) /\ Len(Append(cmds, d)) = Len(cmds) + 1
        /\ \A i \in 1 .. Len(cmds) : Append(cmds, d)[i] = cmds[i]
        /\ Append(cmds, d)[Len(cmds) + 1] = d
    BY LineAppended
  <2> QED
    BY <1>1, <2>1, Zenon
<1>3. \A i \in 1 .. n : i \in 1 .. n + 1
  OBVIOUS
<1>4. SumsOf(line, cmds) => SumsOf(line, more)
  BY <1>1, <1>2, <1>3 DEF SumsOf
<1>5. RanAsked(ran, cmds) => RanAsked(ran, more)
  BY <1>1, <1>2, <1>3 DEF RanAsked
<1> QED
  BY <1>1, <1>2, <1>4, <1>5

LEMMA AsksKeeps ==
  ASSUME GdbInv, NEW cmd \in GdbCommands, Asks(cmd)
  PROVE  GdbInv'
<1>1. /\ host.at = "idle" /\ Len(asked) < MaxAsked /\ asked' = Append(asked, cmd)
      /\ host' = [host EXCEPT !.at = "ack"] /\ toStub' = toStub \o Frame(Len(asked'), cmd)
      /\ UNCHANGED <<stub, done, toHost, faults>>
  BY DEF Asks
<1>2. /\ host \in Hosts /\ asked \in Seq(GdbCommands) /\ toStub \in Seq(Items) /\ done \in Seq(Dones)
      /\ Len(asked) <= MaxAsked
  BY DEF GdbInv, GdbTyped, HostTyped, LineTyped
<1>3. SumsOf(toStub, asked) /\ SumsRise(toStub) /\ SumsAfter(toStub, done) /\ RanAsked(done, asked)
  BY DEF GdbInv, SumsTrue
<1>4. PICK more \in Seq(GdbCommands), n \in Nat :
        /\ more = asked' /\ n = Len(more) /\ n = Len(asked) + 1 /\ Len(asked) \in Nat /\ more[n] = cmd
        /\ \A i \in 1 .. Len(asked) : more[i] = asked[i]
        /\ SumsOf(toStub, more) /\ RanAsked(done, more)
  <2>1. /\ Append(asked, cmd) \in Seq(GdbCommands) /\ Len(asked) \in Nat /\ Len(Append(asked, cmd)) = Len(asked) + 1
        /\ Append(asked, cmd)[Len(asked) + 1] = cmd
        /\ \A i \in 1 .. Len(asked) : Append(asked, cmd)[i] = asked[i]
        /\ SumsOf(toStub, Append(asked, cmd)) /\ RanAsked(done, Append(asked, cmd))
    BY <1>2, <1>3, OneMoreAsked
  <2>2. Len(asked) + 1 \in Nat
    BY <2>1
  <2> QED
    BY <1>1, <2>1, <2>2
<1>5. toStub' = toStub \o Frame(n, cmd)
  BY <1>1, <1>4
<1>6. toStub' \in Seq(Items) /\ SumsTrue'
  <2>1. n > 0
    BY <1>4
  <2>2. /\ toStub \o Frame(n, more[n]) \in Seq(Items) /\ SumsOf(toStub \o Frame(n, more[n]), more)
        /\ SumsRise(toStub \o Frame(n, more[n])) /\ SumsAfter(toStub \o Frame(n, more[n]), done)
    BY <1>2, <1>3, <1>4, <2>1, SumsFrame
  <2>3. toStub \o Frame(n, more[n]) = toStub'
    BY <1>4, <1>5
  <2>4. done' = done
    BY <1>1
  <2> QED
    BY <1>4, <2>2, <2>3, <2>4 DEF SumsTrue
<1>7. host' \in Hosts /\ host'.at = "ack" /\ host'.took = host.took
  BY <1>1, <1>2 DEF Hosts
<1>8. StubTyped' /\ HostTyped' /\ LineTyped'
  <2>1. Len(asked') <= MaxAsked /\ Len(asked') > 0
    BY <1>1, <1>4, DebugAssumption
  <2> QED
    BY <1>1, <1>4, <1>6, <1>7, <2>1 DEF GdbInv, GdbTyped, StubTyped, HostTyped, LineTyped
<1>9. HaltedTrue'
  BY <1>1 DEF GdbInv, HaltedTrue
<1>10. ClearTrue'
  <2> SUFFICES ASSUME faults = 0 PROVE Talk' /\ EachOnce' /\ TookTrue'
    BY <1>1 DEF ClearTrue
  <2>1. Talk /\ EachOnce /\ TookTrue
    BY DEF GdbInv, ClearTrue
  <2>2. TalkIdle
    BY <1>1, <2>1 DEF Talk, TalkStops, TalkAsks, TalkRan, TalkAnswers
  <2>9. EachOnce' /\ TookTrue'
    <3>1. \A i \in 1 .. Len(asked) : i \in 1 .. n
      BY <1>4
    <3>2. TookTrue'
      BY <1>4, <1>7, <2>1, <3>1 DEF TookTrue
    <3> QED
      BY <1>1, <2>1, <3>2 DEF EachOnce
  <2> SUFFICES TalkAsks'
    BY <2>9 DEF Talk
  <2>3. Len(asked') = Len(done') + 1 /\ toHost' = <<>> /\ stub.aktiv
    BY <1>1, <1>4, <2>2 DEF TalkIdle
  <2>4. CASE stub.at = "ack" /\ Sole(toStub, "+", <<>>)
    <3>1. Len(toStub) = 1 /\ toStub[1].c = "+" /\ 1 \in 1 .. 1
      BY <2>4 DEF Sole
    <3>2. \A j \in 1 .. 1 : j = 1
      OBVIOUS
    <3>3. Dollarless(toStub)
      BY <3>1, <3>2 DEF Dollarless
    <3>4. Framed(toStub', Len(toStub) + 1, n) /\ (Len(toStub) > 0 => toStub'[1] = toStub[1])
      BY <1>2, <1>5, <3>3, FrameBehind
    <3>5. Framed(toStub', 2, n) /\ toStub'[1].c = "+"
      BY <3>1, <3>4
    <3>6. Len(toStub') > 0
      <4>1. Len(toStub') >= 2 + 2 /\ Len(toStub') \in Nat
        BY <1>6, <3>5, LenProperties DEF Framed
      <4> QED
        BY <4>1
    <3> QED
      BY <1>1, <1>4, <1>7, <2>3, <2>4, <3>5, <3>6 DEF TalkAsks
  <2>5. CASE stub.at = "start" /\ toStub = <<>>
    <3>1. Len(toStub) = 0 /\ Dollarless(toStub)
      BY <2>5 DEF Dollarless
    <3>2. Framed(toStub', Len(toStub) + 1, n)
      BY <1>2, <1>5, <3>1, FrameBehind
    <3>3. \E k \in Nat : k >= 1 /\ Framed(toStub', k, n)
      BY <3>1, <3>2
    <3> QED
      BY <1>1, <1>4, <1>7, <2>3, <2>5, <3>3 DEF TalkAsks
  <2> QED
    BY <2>2, <2>4, <2>5 DEF TalkIdle
<1> QED
  BY <1>6, <1>8, <1>9, <1>10 DEF GdbInv, GdbTyped

LEMMA JoinedSole ==
  ASSUME NEW e \in Items
  PROVE  Sole(<<>> \o <<e>>, e.c, e.of)
<1>1. <<>> \o <<e>> = <<e>>
  BY ConcatEmptySeq, LineSingle
<1>2. Len(<<e>>) = 1 /\ <<e>>[1] = e
  BY LineSingle
<1> QED
  BY <1>1, <1>2 DEF Sole

(* What the host adds to the line when it hears something.                 *)
HostSays(m, line, more) ==
  \/ m.c = "packet" /\ more = line \o <<On("+")>>
  \/ m.c = "x" /\ (more = line \o <<On("+")>> \/ more = line \o <<On("-")>>)
  \/ m.c = "-" /\ host.at = "ack" /\ more = line \o Frame(Len(asked), Last(asked))
  \/ ~(m.c = "-" /\ host.at = "ack") /\ m.c # "packet" /\ more = line \o <<>>

(* The states of the host after it heard an item.                          *)
HostTakes(m, next) ==
  \/ /\ m.c = "packet" /\ host.at = "answer"
     /\ next = [at |-> "idle", took |-> Append(host.took, [nr |-> Len(asked), of |-> m.of])]
  \/ m.c = "packet" /\ host.at = "stop" /\ m.of = StopReply /\ next = [at |-> "idle", took |-> host.took]
  \/ m.c = "+" /\ host.at = "ack" /\ Last(asked) \in Goes /\ next = [host EXCEPT !.at = "stop"]
  \/ m.c = "+" /\ host.at = "ack" /\ Last(asked) \notin Goes /\ next = [host EXCEPT !.at = "answer"]
  \/ /\ ~(m.c = "packet" /\ host.at = "answer") /\ ~(m.c = "packet" /\ host.at = "stop" /\ m.of = StopReply)
     /\ ~(m.c = "+" /\ host.at = "ack") /\ next = host

LEMMA HostHearsStep ==
  ASSUME HostHears
  PROVE  /\ host.at # "idle" /\ toHost # <<>> /\ toHost' = Tail(toHost)
         /\ HostTakes(Head(toHost), host') /\ HostSays(Head(toHost), toStub, toStub')
         /\ UNCHANGED <<stub, asked, done, faults>>
<1>1. PICK m : m = Head(toHost)
  OBVIOUS
<1>2. /\ host.at # "idle" /\ toHost # <<>> /\ toHost' = Tail(toHost)
      /\ UNCHANGED <<stub, asked, done, faults>>
  BY DEF HostHears
<1>3. host' = IF m.c = "packet" /\ (host.at = "answer" \/ (host.at = "stop" /\ m.of = StopReply))
              THEN [at |-> "idle", took |-> IF host.at = "stop" THEN host.took
                                            ELSE Append(host.took, [nr |-> Len(asked), of |-> m.of])]
              ELSE IF m.c = "+" /\ host.at = "ack"
              THEN [host EXCEPT !.at = IF Last(asked) \in {<<"c">>, <<"s">>} THEN "stop" ELSE "answer"]
              ELSE host
  BY <1>1, Zenon DEF HostHears
<1>4. HostTakes(m, host')
  BY <1>2, <1>3 DEF HostTakes, Goes
<1>5. toStub' = toStub \o (CASE m.c = "packet" \/ (m.c = "x" /\ host.at = "ack" /\ m.of # <<>>) -> <<On("+")>>
                             [] m.c = "x" /\ host.at # "ack" /\ m.of # <<>> -> <<On("-")>>
                             [] m.c = "-" /\ host.at = "ack" -> Frame(Len(asked), Last(asked))
                             [] OTHER -> <<>>)
  BY <1>1, Zenon DEF HostHears
<1>6. HostSays(m, toStub, toStub')
  <2>1. PICK plus, minus, frame : plus = <<On("+")>> /\ minus = <<On("-")>> /\ frame = Frame(Len(asked), Last(asked))
    OBVIOUS
  <2>2. \/ m.c = "packet" /\ toStub' = toStub \o plus
        \/ m.c = "x" /\ (toStub' = toStub \o plus \/ toStub' = toStub \o minus)
        \/ m.c = "-" /\ host.at = "ack" /\ toStub' = toStub \o frame
        \/ ~(m.c = "-" /\ host.at = "ack") /\ m.c # "packet" /\ toStub' = toStub \o <<>>
    BY <1>5, <2>1
  <2> QED
    BY <2>1, <2>2 DEF HostSays
<1> QED
  BY <1>1, <1>2, <1>4, <1>6

LEMMA HostHearsSums ==
  ASSUME GdbInv, NEW m, HostSays(m, toStub, toStub'), UNCHANGED <<asked, done>>
  PROVE  toStub' \in Seq(Items) /\ SumsTrue'
<1>1. toStub \in Seq(Items) /\ asked \in Seq(GdbCommands) /\ done \in Seq(Dones) /\ Len(asked) \in Nat
  BY LenProperties DEF GdbInv, GdbTyped, HostTyped, LineTyped
<1>2. SumsOf(toStub, asked) /\ SumsRise(toStub) /\ SumsAfter(toStub, done) /\ RanAsked(done, asked)
  BY DEF GdbInv, SumsTrue
<1> SUFFICES toStub' \in Seq(Items) /\ SumsOf(toStub', asked) /\ SumsRise(toStub') /\ SumsAfter(toStub', done)
  BY <1>2 DEF SumsTrue
<1>3. CASE toStub' = toStub \o <<On("+")>>
  <2>1. PICK e \in Items : e = On("+") /\ e.c = "+"
    BY OnItem, AnswerPlain
  <2> QED
    BY <1>1, <1>2, <1>3, <2>1, SumsQuiet
<1>4. CASE toStub' = toStub \o <<On("-")>>
  <2>1. PICK e \in Items : e = On("-") /\ e.c = "-"
    BY OnItem, AnswerPlain
  <2> QED
    BY <1>1, <1>2, <1>4, <2>1, SumsQuiet
<1>5. CASE host.at = "ack" /\ toStub' = toStub \o Frame(Len(asked), Last(asked))
  <2>1. Len(asked) > 0 /\ Last(asked) = asked[Len(asked)]
    BY <1>5 DEF GdbInv, GdbTyped, HostTyped, Last
  <2>2. /\ toStub \o Frame(Len(asked), asked[Len(asked)]) \in Seq(Items)
        /\ SumsOf(toStub \o Frame(Len(asked), asked[Len(asked)]), asked)
        /\ SumsRise(toStub \o Frame(Len(asked), asked[Len(asked)]))
        /\ SumsAfter(toStub \o Frame(Len(asked), asked[Len(asked)]), done)
    BY <1>1, <1>2, <2>1, SumsFrame
  <2> QED
    BY <1>5, <2>1, <2>2, Zenon
<1>6. CASE toStub' = toStub \o <<>>
  <2>1. toStub' = toStub
    BY <1>1, <1>6, ConcatEmptySeq
  <2> QED
    BY <1>1, <1>2, <2>1
<1> QED
  BY <1>3, <1>4, <1>5, <1>6 DEF HostSays

LEMMA HostHearsTyped ==
  ASSUME GdbInv, NEW m \in Items, HostTakes(m, host'), UNCHANGED asked
  PROVE  HostTyped'
<1>1. /\ host \in Hosts /\ asked \in Seq(GdbCommands) /\ Len(asked) <= MaxAsked /\ Len(asked) \in Nat
      /\ host.at \in {"ack", "answer"} => Len(asked) > 0
  BY LenProperties DEF GdbInv, GdbTyped, HostTyped
<1> SUFFICES host' \in Hosts /\ (host'.at \in {"ack", "answer"} => Len(asked) > 0)
  BY <1>1 DEF HostTyped
<1>2. CASE host' = [at |-> "idle", took |-> Append(host.took, [nr |-> Len(asked), of |-> m.of])]
  <2>1. PICK e \in [nr : Nat, of : Texts] : e = [nr |-> Len(asked), of |-> m.of]
    <3>1. m.of \in Texts
      BY DEF Items
    <3> QED
      BY <1>1, <3>1
  <2>2. PICK t \in Seq([nr : Nat, of : Texts]) : t = Append(host.took, e)
    <3>1. host.took \in Seq([nr : Nat, of : Texts])
      BY <1>1 DEF Hosts
    <3> QED
      BY <3>1, LineAppended
  <2>3. host' = [at |-> "idle", took |-> t]
    BY <1>2, <2>1, <2>2, Zenon
  <2> QED
    BY <2>3 DEF Hosts
<1>3. CASE host' = [at |-> "idle", took |-> host.took]
  <2>1. host'.took = host.took /\ host'.at = "idle" /\ host.took \in Seq([nr : Nat, of : Texts])
    BY <1>1, <1>3 DEF Hosts
  <2> QED
    BY <1>3, <2>1 DEF Hosts
<1>4. CASE host.at = "ack" /\ host' = [host EXCEPT !.at = "stop"]
  BY <1>1, <1>4 DEF Hosts
<1>5. CASE host.at = "ack" /\ host' = [host EXCEPT !.at = "answer"]
  BY <1>1, <1>5 DEF Hosts
<1>6. CASE host' = host
  BY <1>1, <1>6
<1> QED
  BY <1>2, <1>3, <1>4, <1>5, <1>6 DEF HostTakes

LEMMA HostHearsClear ==
  ASSUME GdbInv, faults = 0, NEW m \in Items, m = toHost[1], host.at # "idle", toHost # <<>>, toHost' = Tail(toHost),
         HostTakes(m, host'), HostSays(m, toStub, toStub'), UNCHANGED <<stub, asked, done>>
  PROVE  Talk'
<1>1. /\ toStub \in Seq(Items) /\ toHost \in Seq(Items) /\ asked \in Seq(GdbCommands) /\ Len(asked) \in Nat
      /\ host \in Hosts
  BY LenProperties DEF GdbInv, GdbTyped, HostTyped, LineTyped
<1>2. Talk
  BY DEF GdbInv, ClearTrue
<1>3. PICK n \in Nat : n = Len(asked)
  BY <1>1
<1>4. PICK plus \in Items : plus = On("+") /\ plus.c = "+" /\ plus.of = <<>>
  BY OnItem, AnswerPlain
<1>5. Sole(<<>> \o <<On("+")>>, "+", <<>>)
  BY <1>4, JoinedSole
<1>6. CASE TalkStops
  <2>1. /\ stub.at = "ack" /\ toStub = <<>> /\ host.at = "stop" /\ Len(done) = Len(asked)
        /\ Len(toHost) = 1 /\ m.c = "packet"
        /\ (stub.aktiv /\ m.of = StopReply) \/ (~stub.aktiv /\ m.of = <<"OK">>)
    BY <1>6 DEF TalkStops, Sole
  <2>2. toHost' = <<>>
    BY <1>1, <2>1, LineEnds
  <2>3. Sole(toStub', "+", <<>>)
    BY <1>5, <2>1 DEF HostSays
  <2>4. CASE stub.aktiv /\ m.of = StopReply
    <3>1. host'.at = "idle"
      BY <2>1, <2>4 DEF HostTakes
    <3>2. TalkIdle'
      BY <2>1, <2>2, <2>3, <2>4, <3>1 DEF TalkIdle
    <3> QED
      BY <3>2 DEF Talk
  <2>5. CASE ~stub.aktiv /\ m.of = <<"OK">>
    <3>1. host' = host
      BY <2>1, <2>5, AnswerPlain DEF HostTakes
    <3>2. TalkStops'
      BY <2>1, <2>2, <2>3, <2>5, <3>1 DEF TalkStops
    <3> QED
      BY <3>2 DEF Talk
  <2> QED
    BY <2>1, <2>4, <2>5
<1>7. CASE TalkAsks
  <2>1. /\ stub.at = "start" /\ host.at = "ack" /\ Len(asked) = Len(done) + 1 /\ Dollarless(toStub)
        /\ Len(toHost) = 1 /\ m.c = "-"
    BY <1>7 DEF TalkAsks, Sole
  <2>2. toHost' = <<>>
    BY <1>1, <2>1, LineEnds
  <2>3. host' = host
    BY <2>1 DEF HostTakes
  <2>4. PICK d \in GdbCommands : d = Last(asked)
    <3>1. n > 0 /\ n \in 1 .. Len(asked)
      BY <1>3, <2>1 DEF GdbInv, GdbTyped, HostTyped
    <3>2. asked[n] \in GdbCommands
      BY <1>1, <3>1, ElementOfSeq
    <3> QED
      BY <1>3, <3>2 DEF Last
  <2>5. toStub' = toStub \o Frame(n, d)
    BY <1>3, <2>1, <2>4 DEF HostSays
  <2>6. Framed(toStub', Len(toStub) + 1, n) /\ Len(toStub) \in Nat
    BY <1>1, <2>1, <2>5, FrameBehind
  <2>7. \E k \in Nat : k >= 1 /\ Framed(toStub', k, n)
    <3>1. Len(toStub) + 1 \in Nat /\ Len(toStub) + 1 >= 1
      BY <2>6
    <3> QED
      BY <2>6, <3>1, Zenon
  <2>8. TalkAsks'
    BY <1>3, <2>1, <2>2, <2>3, <2>7 DEF TalkAsks
  <2> QED
    BY <2>8 DEF Talk
<1>8. CASE TalkRan
  <2>1. /\ host.at = "ack" /\ Len(asked) = Len(done) /\ stub.at = "ack" /\ toStub = <<>>
        /\ stub.aktiv <=> asked[n] \notin Goes
    BY <1>3, <1>8 DEF TalkRan
  <2>2. m.c = "+" /\ Len(toHost) = 2 /\ toHost[2].c = "packet" /\ toHost[2].of = Answer(asked[n])
    BY <1>3, <1>8 DEF TalkRan
  <2>3. Sole(toHost', "packet", Answer(asked[n]))
    <3>1. PICK k \in Nat, t \in Seq(Items) :
            /\ t = Tail(toHost) /\ k + 1 = Len(toHost) /\ Len(t) = k
            /\ \A i \in 1 .. k : t[i] = toHost[i + 1] /\ i + 1 \in 1 .. Len(toHost)
      BY <1>1, LineRest
    <3>2. k = 1 /\ 1 \in 1 .. k
      BY <2>2, <3>1
    <3>3. t[1] = toHost[1 + 1] /\ 1 + 1 = 2
      BY <3>1, <3>2
    <3> QED
      BY <2>2, <3>1, <3>2, <3>3 DEF Sole
  <2>4. toStub' = <<>>
    <3>1. toStub' = toStub \o <<>>
      BY <2>2 DEF HostSays
    <3> QED
      BY <1>1, <2>1, <3>1, ConcatEmptySeq
  <2>5. Last(asked) = asked[n]
    BY <1>3 DEF Last
  <2>6. CASE asked[n] \in Goes
    <3>1. host'.at = "stop"
      BY <1>1, <2>1, <2>2, <2>5, <2>6 DEF HostTakes, Hosts
    <3>2. Answer(asked[n]) = <<"OK">>
      BY <2>6 DEF Answer, Goes
    <3>3. TalkStops'
      BY <2>1, <2>3, <2>4, <2>6, <3>1, <3>2 DEF TalkStops
    <3> QED
      BY <3>3 DEF Talk
  <2>7. CASE asked[n] \notin Goes
    <3>1. host'.at = "answer"
      BY <1>1, <2>1, <2>2, <2>5, <2>7 DEF HostTakes, Hosts
    <3>2. TalkAnswers'
      BY <1>3, <2>1, <2>3, <2>4, <2>7, <3>1 DEF TalkAnswers
    <3> QED
      BY <3>2 DEF Talk
  <2> QED
    BY <2>6, <2>7
<1>9. CASE TalkAnswers
  <2>1. /\ host.at = "answer" /\ Len(asked) = Len(done) /\ stub.at = "ack" /\ stub.aktiv /\ toStub = <<>>
        /\ Len(toHost) = 1 /\ m.c = "packet"
    BY <1>9 DEF TalkAnswers, Sole
  <2>2. toHost' = <<>>
    BY <1>1, <2>1, LineEnds
  <2>3. Sole(toStub', "+", <<>>)
    BY <1>5, <2>1 DEF HostSays
  <2>4. host'.at = "idle"
    BY <2>1 DEF HostTakes
  <2>5. TalkIdle'
    BY <2>1, <2>2, <2>3, <2>4 DEF TalkIdle
  <2> QED
    BY <2>5 DEF Talk
<1> QED
  BY <1>2, <1>6, <1>7, <1>8, <1>9 DEF Talk, TalkIdle

(* The answers the debugger took, on a line without faults.                *)
LEMMA HostHearsTook ==
  ASSUME GdbInv, faults = 0, NEW m \in Items, m = toHost[1], HostTakes(m, host'), UNCHANGED asked
  PROVE  TookTrue'
<1>1. asked \in Seq(GdbCommands) /\ Len(asked) \in Nat /\ host \in Hosts
  BY LenProperties DEF GdbInv, GdbTyped, HostTyped
<1>2. Talk /\ TookTrue
  BY DEF GdbInv, ClearTrue
<1>3. CASE host.at = "answer" /\ host' = [at |-> "idle", took |-> Append(host.took, [nr |-> Len(asked), of |-> m.of])]
  <2>1. m.of = Answer(asked[Len(asked)]) /\ Len(asked) > 0
    BY <1>2, <1>3 DEF Talk, TalkStops, TalkIdle, TalkAsks, TalkRan, TalkAnswers, Sole, GdbInv, GdbTyped, HostTyped
  <2>2. m.of \in Texts
    BY DEF Items
  <2>3. PICK e \in [nr : Nat, of : Texts] :
          e = [nr |-> Len(asked), of |-> m.of] /\ e.nr = Len(asked) /\ e.of = Answer(asked[Len(asked)])
    <3>1. [nr |-> Len(asked), of |-> m.of] \in [nr : Nat, of : Texts]
      BY <1>1, <2>2
    <3> QED
      BY <2>1, <3>1
  <2>4. host.took \in Seq([nr : Nat, of : Texts])
    BY <1>1 DEF Hosts
  <2>5. PICK k \in Nat, t \in Seq([nr : Nat, of : Texts]) :
          /\ t = Append(host.took, e) /\ k = Len(host.took) /\ Len(t) = k + 1 /\ t[k + 1] = e
          /\ \A i \in 1 .. k : t[i] = host.took[i]
    <3>1. PICK took \in Seq([nr : Nat, of : Texts]) : took = host.took
      BY <2>4
    <3>2. /\ Append(took, e) \in Seq([nr : Nat, of : Texts]) /\ Len(took) \in Nat
          /\ Len(Append(took, e)) = Len(took) + 1
          /\ \A i \in 1 .. Len(took) : Append(took, e)[i] = took[i]
          /\ Append(took, e)[Len(took) + 1] = e
      BY LineAppended
    <3> QED
      BY <3>1, <3>2, Zenon
  <2>6. host'.took = t
    <3>1. host'.took = Append(host.took, [nr |-> Len(asked), of |-> m.of])
      BY <1>3
    <3> QED
      BY <2>3, <2>5, <3>1, Zenon
  <2>7. ASSUME NEW i \in 1 .. k + 1 PROVE t[i].nr \in 1 .. Len(asked) /\ t[i].of = Answer(asked[t[i].nr])
    <3>1. CASE i \in 1 .. k
      BY <1>2, <2>5, <3>1 DEF TookTrue
    <3>2. CASE i \notin 1 .. k
      <4>1. i = k + 1
        BY <3>2
      <4> QED
        BY <1>1, <2>1, <2>3, <2>5, <4>1
    <3> QED
      BY <3>1, <3>2
  <2> QED
    BY <2>5, <2>6, <2>7 DEF TookTrue
<1>4. CASE host'.took = host.took
  BY <1>2, <1>4 DEF TookTrue
<1>5. \/ host.at = "answer" /\ host' = [at |-> "idle", took |-> Append(host.took, [nr |-> Len(asked), of |-> m.of])]
      \/ host'.took = host.took
  BY <1>1 DEF HostTakes, Hosts
<1> QED
  BY <1>3, <1>4, <1>5

LEMMA HostHearsKeeps ==
  ASSUME GdbInv, HostHears
  PROVE  GdbInv'
<1>1. toHost \in Seq(Items)
  BY DEF GdbInv, GdbTyped, LineTyped
<1>2. /\ host.at # "idle" /\ toHost # <<>> /\ toHost' = Tail(toHost)
      /\ HostTakes(Head(toHost), host') /\ HostSays(Head(toHost), toStub, toStub')
      /\ UNCHANGED <<stub, asked, done, faults>>
  BY HostHearsStep
<1>3. PICK m \in Items : m = toHost[1] /\ m = Head(toHost)
  BY <1>1, <1>2, LineTail
<1>4. HostTakes(m, host') /\ HostSays(m, toStub, toStub')
  BY <1>2, <1>3
<1>5. toStub' \in Seq(Items) /\ SumsTrue'
  BY <1>2, <1>4, HostHearsSums
<1>6. HostTyped'
  BY <1>2, <1>4, HostHearsTyped
<1>7. toHost' \in Seq(Items)
  BY <1>1, <1>2, LineTail
<1>8. StubTyped' /\ LineTyped' /\ HaltedTrue'
  BY <1>2, <1>5, <1>7 DEF GdbInv, GdbTyped, StubTyped, LineTyped, HaltedTrue
<1>9. ClearTrue'
  <2> SUFFICES ASSUME faults = 0 PROVE Talk' /\ EachOnce' /\ TookTrue'
    BY <1>2 DEF ClearTrue
  <2>1. Talk'
    BY <1>2, <1>3, <1>4, HostHearsClear
  <2>2. TookTrue'
    BY <1>2, <1>3, <1>4, HostHearsTook
  <2>3. EachOnce'
    BY <1>2 DEF GdbInv, ClearTrue, EachOnce
  <2> QED
    BY <2>1, <2>2, <2>3
<1> QED
  BY <1>5, <1>6, <1>8, <1>9 DEF GdbInv, GdbTyped

(* A fault is seen on the line only; from the first one on nothing more is *)
(* promised of a line without faults.                                      *)
LEMMA FaultySums ==
  ASSUME GdbInv, UNCHANGED <<stub, host, asked, done>>, faults < MaxFaults, faults' = faults + 1,
         toStub' \in Seq(Items), toHost' \in Seq(Items),
         SumsOf(toStub', asked), SumsRise(toStub'), SumsAfter(toStub', done)
  PROVE  GdbInv'
<1>1. SumsTrue'
  BY DEF GdbInv, SumsTrue
<1>2. StubTyped' /\ HostTyped' /\ HaltedTrue'
  BY DEF GdbInv, GdbTyped, StubTyped, HostTyped, HaltedTrue
<1>3. faults \in 0 .. MaxFaults /\ done \in Seq(Dones)
  BY DEF GdbInv, GdbTyped, LineTyped
<1>4. LineTyped'
  BY <1>3, DebugAssumption DEF LineTyped
<1>5. ClearTrue'
  BY <1>3, DebugAssumption DEF ClearTrue
<1> QED
  BY <1>1, <1>2, <1>4, <1>5 DEF GdbInv, GdbTyped

LEMMA TimesOutKeeps ==
  ASSUME GdbInv, TimesOut
  PROVE  GdbInv'
<1>1. /\ faults < MaxFaults /\ faults' = faults + 1 /\ UNCHANGED <<stub, host, asked, done, toHost>>
      /\ host.at \in {"ack", "answer"}
      /\ \/ host.at = "ack" /\ toStub' = toStub \o Frame(Len(asked), Last(asked))
         \/ host.at # "ack" /\ toStub' = toStub \o <<On("-")>>
  BY DEF TimesOut
<1>2. HostSays([c |-> "-"], toStub, toStub') \/ HostSays([c |-> "x"], toStub, toStub')
  BY <1>1 DEF HostSays
<1>3. toStub' \in Seq(Items) /\ SumsTrue'
  BY <1>1, <1>2, HostHearsSums
<1>4. toStub' \in Seq(Items) /\ SumsOf(toStub', asked) /\ SumsRise(toStub') /\ SumsAfter(toStub', done)
  BY <1>1, <1>3 DEF SumsTrue
<1>5. toHost' \in Seq(Items)
  BY <1>1 DEF GdbInv, GdbTyped, LineTyped
<1> QED
  BY <1>1, <1>4, <1>5, FaultySums

LEMMA LineFailsKeeps ==
  ASSUME GdbInv, LineFails
  PROVE  GdbInv'
<1>1. faults < MaxFaults /\ faults' = faults + 1 /\ UNCHANGED <<stub, host, asked, done>>
  BY DEF LineFails
<1>2. toStub \in Seq(Items) /\ toHost \in Seq(Items)
  BY DEF GdbInv, GdbTyped, LineTyped
<1>3. SumsOf(toStub, asked) /\ SumsRise(toStub) /\ SumsAfter(toStub, done)
  BY DEF GdbInv, SumsTrue
<1>4. CASE toStub # <<>> /\ toStub' \in {Tail(toStub), <<On("x")>> \o Tail(toStub)} /\ UNCHANGED toHost
  <2>1. PICK rest \in Seq(Items) :
          rest = Tail(toStub) /\ SumsOf(rest, asked) /\ SumsRise(rest) /\ SumsAfter(rest, done)
    BY <1>2, <1>3, <1>4, LineTail, SumsTail
  <2>2. PICK e \in Items : e = On("x") /\ e.c = "x"
    BY OnItem, AnswerPlain
  <2>3. /\ <<e>> \o rest \in Seq(Items)
        /\ SumsOf(<<e>> \o rest, asked) /\ SumsRise(<<e>> \o rest) /\ SumsAfter(<<e>> \o rest, done)
    BY <2>1, <2>2, SumsQuiet
  <2>4. toStub' = rest \/ toStub' = <<e>> \o rest
    BY <1>4, <2>1, <2>2
  <2>5. toStub' \in Seq(Items) /\ SumsOf(toStub', asked) /\ SumsRise(toStub') /\ SumsAfter(toStub', done)
    BY <2>1, <2>3, <2>4, Zenon
  <2> QED
    BY <1>1, <1>2, <1>4, <2>5, FaultySums
<1>5. CASE /\ toHost # <<>> /\ toHost' \in {Tail(toHost), <<[Head(toHost) EXCEPT !.c = "x"]>> \o Tail(toHost)}
           /\ UNCHANGED toStub
  <2>1. PICK rest \in Seq(Items) : rest = Tail(toHost)
    BY <1>2, <1>5, LineTail
  <2>2. PICK e \in Items : e = [Head(toHost) EXCEPT !.c = "x"]
    <3>1. PICK h \in Items : h = Head(toHost)
      BY <1>2, <1>5, LineTail
    <3>2. [h EXCEPT !.c = "x"] \in Items
      BY AnswerPlain DEF Items
    <3> QED
      BY <3>1, <3>2
  <2>3. <<e>> \o rest \in Seq(Items)
    BY LineSingle, LineJoined
  <2>4. toHost' \in Seq(Items)
    BY <1>5, <2>1, <2>2, <2>3
  <2> QED
    BY <1>1, <1>2, <1>3, <1>5, <2>4, FaultySums
<1> QED
  BY <1>4, <1>5 DEF LineFails

LEMMA GdbGoesOn ==
  ASSUME GdbInv, [GdbNext]_gdbVars
  PROVE  GdbInv'
<1>1. CASE UNCHANGED gdbVars
  <2>1. UNCHANGED <<stub, host, asked, done, toStub, toHost, faults>>
    BY <1>1 DEF gdbVars
  <2>2. GdbTyped' /\ SumsTrue' /\ HaltedTrue'
    BY <2>1 DEF GdbInv, GdbTyped, StubTyped, HostTyped, LineTyped, SumsTrue, HaltedTrue
  <2>3. ClearTrue'
    BY <2>1 DEF GdbInv, ClearTrue, Talk, TalkStops, TalkIdle, TalkAsks, TalkRan, TalkAnswers, EachOnce, TookTrue
  <2> QED
    BY <2>2, <2>3 DEF GdbInv
<1>2. ASSUME RunsCommand PROVE GdbInv'
  BY <1>2, CommandRuns, CommandRefused
<1> QED
  BY <1>1, <1>2, HaltsKeeps, AcknowledgedKeeps, ReceivesKeeps, AsksKeeps, HostHearsKeeps, TimesOutKeeps, LineFailsKeeps
     DEF GdbNext

LEMMA GdbPromises ==
  ASSUME GdbInv
  PROVE  GdbTypeOK /\ GdbTrue
<1>1. /\ stub \in Stubs /\ Len(stub.buf) < GDBBUF /\ host \in Hosts /\ asked \in Seq(GdbCommands)
      /\ Len(asked) <= MaxAsked /\ done \in Seq(Dones) /\ faults \in 0 .. MaxFaults
  BY DEF GdbInv, GdbTyped, StubTyped, HostTyped, LineTyped
<1>2. GdbTypeOK
  <2>1. stub.at \in {"running", "ack", "start", "data", "sum"} /\ host.at \in {"stop", "idle", "ack", "answer"}
    BY <1>1 DEF Stubs, Hosts
  <2>2. stub.aktiv \in BOOLEAN /\ stub.tf \in BOOLEAN /\ stub.int3 \in BOOLEAN
    BY <1>1, Zenon DEF Stubs
  <2> QED
    BY <1>1, <2>1, <2>2 DEF GdbTypeOK
<1>3. /\ DOMAIN done = 1 .. Len(done) /\ DOMAIN asked = 1 .. Len(asked) /\ DOMAIN host.took = 1 .. Len(host.took)
      /\ Len(done) \in Nat /\ Len(asked) \in Nat
  <2>1. host.took \in Seq([nr : Nat, of : Texts])
    BY <1>1 DEF Hosts
  <2> QED
    BY <1>1, <2>1, LenProperties
<1>4. \A i \in DOMAIN done : /\ done[i].nr \in DOMAIN asked /\ done[i].cmd = asked[done[i].nr]
                             /\ i > 1 => done[i - 1].nr <= done[i].nr
  <2>1. RanAsked(done, asked)
    BY DEF GdbInv, SumsTrue
  <2> SUFFICES ASSUME NEW i \in 1 .. Len(done)
               PROVE  /\ done[i].nr \in 1 .. Len(asked) /\ done[i].cmd = asked[done[i].nr]
                      /\ i > 1 => done[i - 1].nr <= done[i].nr
    BY <1>3
  <2>2. done[i].nr \in 1 .. Len(asked) /\ done[i].cmd = asked[done[i].nr]
    BY <2>1 DEF RanAsked
  <2>3. ASSUME i > 1 PROVE done[i - 1].nr <= done[i].nr
    <3>1. i - 1 \in 1 .. Len(done) /\ i - 1 < i
      BY <1>3, <2>3
    <3> QED
      BY <2>1, <3>1 DEF RanAsked
  <2> QED
    BY <2>2, <2>3
<1>5. done # <<>> => Len(done) > 0 /\ Last(done) = done[Len(done)]
  BY <1>1, <1>3, EmptySeq DEF Last
<1>6. stub.at = "running" /\ done # <<>> => Last(done).cmd \in {<<"c">>, <<"s">>}
  BY <1>5 DEF GdbInv, HaltedTrue, Freed, Goes
<1>7. stub.at = "running" /\ stub.tf => Last(done).cmd = <<"s">> \/ stub.int3
  BY DEF GdbInv, HaltedTrue, Freed, Last
<1>8. ASSUME faults = 0
      PROVE  /\ \A i \in DOMAIN done : done[i].nr = i
             /\ \A i \in DOMAIN host.took : host.took[i].of = Answer(asked[host.took[i].nr])
             /\ host.at \in {"idle", "answer"} => Len(done) = Len(asked)
  <2>1. Talk /\ EachOnce /\ TookTrue
    BY <1>8 DEF GdbInv, ClearTrue
  <2>2. host.at \in {"idle", "answer"} => Len(done) = Len(asked)
    BY <2>1 DEF Talk, TalkStops, TalkIdle, TalkAsks, TalkRan, TalkAnswers
  <2> QED
    BY <1>3, <2>1, <2>2 DEF EachOnce, TookTrue
<1> QED
  BY <1>2, <1>4, <1>6, <1>7, <1>8 DEF GdbTrue

-----------------------------------------------------------------------------
(* All of them                                                             *)

(* used_bytes stays below heap_brk: up to each block, the used ones before *)
(* it lie below its end.                                                   *)
LEMMA UsedBelow ==
  ASSUME HeapInv
  PROVE  heap.used \in Nat /\ heap.used <= heap.brk
<1>1. PICK bs \in Seq(BlockSet) : bs = heap.blocks /\ Apart(bs) /\ Below(bs, heap.brk) /\ Len(bs) > 0
                                  /\ heap.used = UsedBytes(bs) /\ heap.brk \in Nat
  BY DEF HeapInv, Shape
<1>2. PICK f \in [0 .. Len(bs) -> Nat] :
        f[0] = 0 /\ (\A k \in 1 .. Len(bs) : f[k] = f[k - 1] + Uses(bs[k])) /\ UsedBytes(bs) = f[Len(bs)]
  BY UsedSteps
<1>3. PICK n \in Nat : n = Len(bs) /\ n > 0
  BY <1>1
<1>4. \A k \in 1 .. n : /\ bs[k] \in BlockSet /\ bs[k].at \in Nat /\ End(bs[k]) \in Nat
                        /\ Uses(bs[k]) \in Nat /\ bs[k].at + Uses(bs[k]) <= End(bs[k])
  <2> SUFFICES ASSUME NEW k \in 1 .. n
               PROVE  /\ bs[k] \in BlockSet /\ bs[k].at \in Nat /\ End(bs[k]) \in Nat
                      /\ Uses(bs[k]) \in Nat /\ bs[k].at + Uses(bs[k]) <= End(bs[k])
    OBVIOUS
  <2>1. bs[k] \in BlockSet
    BY <1>3
  <2>2. /\ bs[k].at \in Nat /\ bs[k].size \in Nat /\ bs[k].free \in BOOLEAN /\ HDR \in Nat
        /\ End(bs[k]) = bs[k].at + HDR + bs[k].size
    BY <2>1, BlockFacts
  <2>3. Uses(bs[k]) = 0 \/ Uses(bs[k]) = bs[k].size
    BY DEF Uses
  <2> QED
    BY <2>1, <2>2, <2>3
<1>5. PICK T : T = {k \in Nat : k < n => f[k + 1] <= End(bs[k + 1])}
  OBVIOUS
<1>6. 0 \in T
  <2>1. 1 \in 1 .. n /\ f[1] = f[0] + Uses(bs[1])
    BY <1>2, <1>3
  <2> QED
    BY <1>2, <1>3, <1>4, <1>5, <2>1
<1>7. ASSUME NEW k \in Nat, k \in T PROVE k + 1 \in T
  <2> SUFFICES ASSUME k + 1 < n PROVE f[k + 2] <= End(bs[k + 2])
    BY <1>5
  <2>1. k + 1 \in 1 .. n /\ k + 2 \in 1 .. n /\ (k + 2) - 1 = k + 1
    BY <1>3
  <2>2. f[k + 2] = f[k + 1] + Uses(bs[k + 2])
    BY <1>2, <1>3, <2>1
  <2>3. f[k + 1] <= End(bs[k + 1])
    BY <1>3, <1>5, <1>7
  <2>4. End(bs[k + 1]) <= bs[k + 2].at
    BY <1>1, <1>3, <2>1 DEF Apart
  <2>5. f[k + 1] \in Nat /\ f[k + 2] \in Nat
    BY <1>2, <1>3, <2>1
  <2>6. bs[k + 2].at + Uses(bs[k + 2]) <= End(bs[k + 2]) /\ bs[k + 2].at \in Nat
        /\ Uses(bs[k + 2]) \in Nat /\ End(bs[k + 1]) \in Nat /\ End(bs[k + 2]) \in Nat
    BY <1>4, <2>1
  <2> QED
    BY <2>2, <2>3, <2>4, <2>5, <2>6
<1>8. \A k \in Nat : k \in T
  BY <1>6, <1>7, Induction
<1>9. f[n] <= End(bs[n]) /\ n \in 1 .. n
  <2>1. PICK m \in Nat : n = m + 1
    <3>1. n - 1 \in Nat /\ n = (n - 1) + 1
      BY <1>3
    <3> QED
      BY <3>1
  <2>2. m \in T /\ m < n
    BY <1>8, <2>1
  <2>3. f[m + 1] <= End(bs[m + 1])
    BY <1>5, <2>2
  <2> QED
    BY <1>3, <2>1, <2>3
<1>10. End(bs[n]) <= heap.brk /\ End(bs[n]) \in Nat
  BY <1>1, <1>3, <1>4, <1>9 DEF Below
<1>11. heap.used = f[n] /\ f[n] \in Nat
  <2>1. n \in 0 .. Len(bs)
    BY <1>3
  <2> QED
    BY <1>1, <1>2, <1>3, <2>1
<1> QED
  BY <1>1, <1>9, <1>10, <1>11

LEMMA HeapTyped == HeapInv => HeapTypeOK
<1> SUFFICES ASSUME HeapInv PROVE HeapTypeOK
  OBVIOUS
<1>1. heap.blocks \in Seq(BlockSet) /\ heap.brk \in Nat /\ live \subseteq [at : Nat, want : Requests]
  BY DEF HeapInv, Shape, HeldIn
<1>2. heap.brk \in {p * PAGE : p \in FirstPages .. MaxPages}
  BY DEF HeapInv, Shape
<1>3. heap.used \in 0 .. heap.brk
  BY <1>1, UsedBelow
<1> QED
  BY <1>1, <1>2, <1>3 DEF HeapTypeOK, BlockSet

LEMMA ProcTyped == ProcInv /\ halted \in BOOLEAN => ProcTypeOK
<1> SUFFICES ASSUME ProcInv, halted \in BOOLEAN PROVE ProcTypeOK
  OBVIOUS
<1>1. PICK ps, k : ps = procs /\ k = slab /\ ProcTrue(ps, k)
  BY ProcPick
<1>2. ps \in Seq(ProcSet) /\ Len(ps) <= PROC_MAX /\ SlabSet(k)
  BY <1>1 DEF ProcTrue, SlabInv, Lists
<1> QED
  BY <1>1, <1>2 DEF ProcTypeOK, SlabTypeOK, SlabSet, ProcSet

LEMMA SigTyped == SigInv => SigTypeOK
BY DEF SigInv, SignalSet, SigTypeOK

(* What every store keeps, whichever side a behaviour is about.            *)
StoreInv ==
  /\ side \in Sides /\ halted \in BOOLEAN
  /\ HeapInv /\ ProcInv /\ SigInv /\ SwapInv
  /\ SockInv /\ EnvInv /\ LeakInv
  /\ VfsInv /\ DriveInv /\ IsoInv /\ ExtInv /\ FatInv /\ ExeInv
  /\ ElfInv /\ ProbeInv /\ GdbInv

LEMMA StoreBegins == Init => StoreInv
<1> SUFFICES ASSUME Init PROVE StoreInv
  OBVIOUS
<1>1. /\ SockInit /\ EnvInit /\ LeakInit /\ IdeInit /\ PartInit /\ NvInit
      /\ IsoInit /\ ExtInit /\ FatInit /\ ExeInit /\ PagingInit /\ ProbeInit /\ GdbInit
      /\ HeapInit /\ ProcInit /\ SigInit /\ SwapInit /\ VfsInit /\ side \in Sides
  BY DEF Init
<1>2. VfsInv /\ SockInv /\ EnvInv /\ LeakInv /\ DriveInv
  BY <1>1, VfsBegins, SockBegins, EnvBegins, LeakBegins, IdeBegins, PartBegins, NvBegins DEF DriveInv
<1>3. IsoInv /\ ExtInv /\ FatInv /\ ExeInv /\ ElfInv /\ ProbeInv /\ GdbInv
  BY <1>1, IsoBegins, ExtBegins, FatBegins, ExeBegins, ElfBegins, ProbeBegins, GdbBegins
<1>4. HeapInv /\ ProcInv /\ SigInv /\ SwapInv
  BY <1>1, HeapBegins, ProcBegins, SigBegins, SwapBegins
<1>5. halted \in BOOLEAN
  BY <1>1 DEF ProcInit
<1> QED
  BY <1>1, <1>2, <1>3, <1>4, <1>5 DEF StoreInv

LEMMA StoreGoesOn == StoreInv /\ [Next]_vars => StoreInv'
<1> SUFFICES ASSUME StoreInv, [Next]_vars PROVE StoreInv'
  OBVIOUS
<1>1. /\ [SockNext]_sockVars /\ [EnvNext]_envVars /\ [ProbeNext]_probeVars
      /\ [IdeNext]_ideVars /\ [PartNext]_partJob /\ [NvNext]_nv /\ [LeakNext]_leakVars
      /\ [IsoNext]_isoVars /\ [ExtNext]_extVars /\ [FatNext]_fatVars /\ [ExeNext]_exeVars
      /\ [ElfNext]_elfVars /\ [GdbNext]_gdbVars /\ [VfsNext]_vfsVars
  BY SidesStep
<1>2. VfsInv' /\ SockInv' /\ EnvInv' /\ LeakInv' /\ DriveInv'
  BY <1>1, VfsStep, SockGoesOn, EnvGoesOn, LeakGoesOn, IdeGoesOn, PartGoesOn, NvGoesOn DEF DriveInv, StoreInv
<1>3. IsoInv' /\ ExtInv' /\ FatInv' /\ ExeInv' /\ ElfInv' /\ ProbeInv' /\ GdbInv'
  BY <1>1, IsoGoesOn, ExtGoesOn, FatGoesOn, ExeGoesOn, ElfGoesOn, ProbeGoesOn, GdbGoesOn DEF StoreInv
<1>4. side' \in Sides
  BY DEF StoreInv, Next, vars
<1>5. HeapInv' /\ ProcInv' /\ SigInv' /\ SwapInv'
  BY HeapGoesOn, ProcGoesOn, SigGoesOn, SwapGoesOn DEF StoreInv
<1>6. halted' \in BOOLEAN
  <2>1. ProcNext \/ UNCHANGED procVars
    BY DEF Next, vars, memoryVars, MemoryNext
  <2> QED
    BY <2>1 DEF StoreInv, ProcNext, procVars, Create, Fork, Insert, VmaRemove
<1> QED
  BY <1>2, <1>3, <1>4, <1>5, <1>6 DEF StoreInv

(* Every store keeps its books: what each side's inductive invariant says  *)
(* holds in every state, whichever side the behaviour is about.            *)
THEOREM StoresKeep == Spec => []StoreInv
<1> QED
  BY StoreBegins, StoreGoesOn, PTL DEF Spec

(* The types of all of them.                                               *)
THEOREM TypesKeep == Spec => []TypeOK
<1>1. StoreInv => TypeOK
  <2> SUFFICES ASSUME StoreInv PROVE TypeOK
    OBVIOUS
  <2>1. HeapTypeOK /\ ProcTypeOK /\ SigTypeOK /\ SwapTypeOK /\ VfsTypeOK
    BY HeapTyped, ProcTyped, SigTyped, VfsPromises DEF StoreInv, SwapInv
  <2>2. SockTypeOK /\ EnvTypeOK /\ DriveTypeOK /\ IsoTypeOK /\ ExtTypeOK /\ FatTypeOK
    BY SockPromises, EnvPromises, DrivePromises, IsoPromises, ExtPromises, FatPromises DEF StoreInv
  <2>3. ExeTypeOK /\ ElfTypeOK /\ ProbeTypeOK /\ GdbTypeOK
    BY ExePromises, ElfPromises, ProbePromises, GdbPromises DEF StoreInv
  <2> QED
    BY <2>1, <2>2, <2>3 DEF TypeOK, StoreInv
<1> QED
  BY <1>1, StoresKeep, PTL

(* What was put into a socket, a variable, a file, a disk or a debugger's  *)
(* command comes out of it, what callers hold is what the report of leaks  *)
(* names, and a program in memory is the one in its file.                  *)
THEOREM StoresGiveBack == Spec => []StoredIsFound
<1>1. StoreInv => StoredIsFound
  <2> SUFFICES ASSUME StoreInv PROVE StoredIsFound
    OBVIOUS
  <2>1. MessagesWhole /\ LastSetWins /\ LeaksListed /\ FatTrue /\ ExtTrue /\ IsoTrue
    BY SockPromises, EnvPromises, LeakPromises, FatPromises, ExtPromises, IsoPromises DEF StoreInv
  <2>2. IdeTrue /\ PartTrue /\ NvTrue /\ ImageTrue /\ InitrdTrue /\ TranslationTrue /\ ElfTrue
    BY DrivePromises, ExePromises, ElfPromises DEF StoreInv
  <2>3. /\ ProbesTrue /\ GdbTrue
        /\ ListedIsFound /\ OpenIsEntry /\ RamKept
    BY ProbePromises, GdbPromises, VfsPromises DEF StoreInv
  <2> QED
    BY <2>1, <2>2, <2>3 DEF StoredIsFound
<1> QED
  BY <1>1, StoresKeep, PTL
=============================================================================
