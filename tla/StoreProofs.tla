---------------------------- MODULE StoreProofs ----------------------------
(***************************************************************************)
(* Theorems about what is put into a table or on a disk and comes out of   *)
(* it again: sockets and the environment, partition tables and the drivers *)
(* of disks, programs loaded from files, and the debugging probes.  Each   *)
(* part has an inductive invariant; Memory composes the parts, and so does *)
(* MemoryProofs with these lemmas and those of FileProofs.                 *)
(***************************************************************************)
EXTENDS UnixSock, Env, Drives, Exe, Debug,
        SequenceTheorems, FiniteSetTheorems, WellFoundedInduction, TLAPS

-----------------------------------------------------------------------------
(* The theorems of induction take an operator; a well-founded relation     *)
(* gives the same for a set.                                               *)

Less == {ss \in Nat \X Nat : ss[1] < ss[2]}

(* Every set of natural numbers has a least one.                           *)
LEMMA LeastNumber ==
  ASSUME NEW T, T \subseteq Nat, T # {}
  PROVE  \E x \in T : \A y \in T : x <= y
<1>1. IsWellFoundedOn({ss \in Nat \X Nat : ss[1] < ss[2]}, Nat)
  BY NatLessThanWellFounded DEF OpToRel
<1>2. IsWellFoundedOn(Less, Nat)
  BY <1>1 DEF Less
<1>3. PICK x \in T : \A y \in T : ~(<<y, x>> \in Less)
  BY <1>2, WFMin
<1>4. ASSUME NEW y \in T PROVE x <= y
  <2>1. x \in Nat /\ y \in Nat
    OBVIOUS
  <2>2. <<y, x>> \in Less <=> y < x
    BY <2>1 DEF Less
  <2> QED
    BY <1>3, <2>1, <2>2
<1> QED
  BY <1>4

(* A set with 0 and with every successor has every number.                 *)
LEMMA Induction ==
  ASSUME NEW T, 0 \in T, \A n \in Nat : n \in T => n + 1 \in T
  PROVE  \A n \in Nat : n \in T
<1> SUFFICES ASSUME NEW n \in Nat, n \notin T PROVE FALSE
  OBVIOUS
<1>1. PICK x \in Nat \ T : \A y \in Nat \ T : x <= y
  BY LeastNumber
<1>2. x - 1 \in Nat /\ x - 1 < x /\ (x - 1) + 1 = x
  BY <1>1
<1>3. x - 1 \in T
  BY <1>1, <1>2
<1> QED
  BY <1>1, <1>2, <1>3

LEMMA MinFacts ==
  ASSUME NEW T, T \subseteq Nat, T # {}
  PROVE  Min(T) \in T /\ \A x \in T : Min(T) <= x
BY LeastNumber DEF Min

-----------------------------------------------------------------------------
(* Folding a sequence *)

LEMMA MaxFacts ==
  ASSUME NEW n \in Nat, NEW t \in SUBSET (1 .. n), t # {}
  PROVE  Max(t) \in t /\ \A x \in t : Max(t) >= x
<1> DEFINE down == {n - x : x \in t}
<1>0. \A x \in t : x \in Nat /\ n - x \in Nat
  BY n \in Nat, t \subseteq 1 .. n
<1>1. down # {} /\ down \subseteq Nat
  BY <1>0
<1>2. PICK y \in down : \A z \in down : y <= z
  BY <1>1, LeastNumber
<1>3. PICK x \in t : y = n - x
  BY <1>2
<1>4. \A z \in t : n - z \in down
  OBVIOUS
<1>5. \A z \in t : x >= z
  <2>1. \A z \in t : n - x <= n - z
    BY <1>2, <1>3, <1>4
  <2> HIDE DEF down
  <2> QED
    BY <1>0, <2>1
<1> QED
  BY <1>5 DEF Max

(* The table that a fold is the last entry of: an entry for every set of   *)
(* places, made with the largest one last.                                 *)
IsTable(it, n, base, step) ==
  \A t \in SUBSET (1 .. n) :
    it[t] = IF t = {} THEN base ELSE step[<<Max(t), it[t \ {Max(t)}]>>]

LEMMA FoldTable ==
  ASSUME NEW n \in Nat, NEW V, NEW base \in V, NEW step \in [(1 .. n) \X V -> V]
  PROVE  \E it \in [SUBSET (1 .. n) -> V] : IsTable(it, n, base, step)
<1> DEFINE Right(it, k) == \A t \in SUBSET (1 .. k) :
                             it[t] = IF t = {} THEN base ELSE step[<<Max(t), it[t \ {Max(t)}]>>]
           Has(k) == \E it \in [SUBSET (1 .. k) -> V] : Right(it, k)
<1>1. Has(0)
  <2>1. [t \in SUBSET (1 .. 0) |-> base] \in [SUBSET (1 .. 0) -> V]
    OBVIOUS
  <2>2. \A t \in SUBSET (1 .. 0) : t = {}
    OBVIOUS
  <2>3. Right([t \in SUBSET (1 .. 0) |-> base], 0)
    BY <2>2
  <2> QED
    BY <2>1, <2>3
<1>2. ASSUME NEW k \in Nat, k + 1 <= n, Has(k) PROVE Has(k + 1)
  <2>1. PICK f \in [SUBSET (1 .. k) -> V] : Right(f, k)
    BY <1>2
  <2> DEFINE g == [t \in SUBSET (1 .. k + 1) |->
                     IF k + 1 \in t THEN step[<<k + 1, f[t \ {k + 1}]>>] ELSE f[t]]
  <2>2. \A t \in SUBSET (1 .. k + 1) : /\ t \ {k + 1} \in SUBSET (1 .. k)
                                       /\ k + 1 \notin t => t \in SUBSET (1 .. k)
    <3>1. \A x \in 1 .. k + 1 : x # k + 1 => x \in 1 .. k
      OBVIOUS
    <3> QED
      BY <3>1
  <2>3. g \in [SUBSET (1 .. k + 1) -> V]
    <3> SUFFICES ASSUME NEW t \in SUBSET (1 .. k + 1)
                 PROVE  (IF k + 1 \in t THEN step[<<k + 1, f[t \ {k + 1}]>>] ELSE f[t]) \in V
      BY Zenon
    <3>1. k + 1 \in 1 .. n
      BY <1>2
    <3>2. k + 1 \in t => f[t \ {k + 1}] \in V
      BY <2>2
    <3>3. k + 1 \notin t => f[t] \in V
      BY <2>2
    <3> QED
      BY <3>1, <3>2, <3>3
  <2>4. ASSUME NEW t \in SUBSET (1 .. k + 1), t # {}
        PROVE  g[t] = step[<<Max(t), g[t \ {Max(t)}]>>]
    <3>0. Max(t) \in t /\ \A x \in t : Max(t) >= x
      <4>1. k + 1 \in Nat
        OBVIOUS
      <4> HIDE DEF g
      <4> QED
        BY <2>4, <4>1, MaxFacts
    <3>1. CASE k + 1 \in t
      <4>1. Max(t) = k + 1
        <5>1. Max(t) >= k + 1 /\ Max(t) \in 1 .. k + 1
          BY <3>0, <3>1
        <5> QED
          BY <5>1
      <4>2. g[t \ {k + 1}] = f[t \ {k + 1}]
        BY <2>2
      <4> QED
        BY <3>1, <4>1, <4>2
    <3>2. CASE k + 1 \notin t
      <4>1. t \in SUBSET (1 .. k) /\ t \ {Max(t)} \in SUBSET (1 .. k)
        BY <2>2, <3>2
      <4>2. g[t] = f[t]
        BY <3>2
      <4>3. g[t \ {Max(t)}] = f[t \ {Max(t)}]
        BY <3>2
      <4>4. f[t] = step[<<Max(t), f[t \ {Max(t)}]>>]
        BY <2>1, <2>4, <4>1
      <4> QED
        BY <4>2, <4>3, <4>4
    <3> QED
      BY <3>1, <3>2
  <2>5. g[{}] = base
    BY <2>1
  <2>6. Right(g, k + 1)
    <3> HIDE DEF g
    <3> QED
      BY <2>4, <2>5
  <2> QED
    BY <2>3, <2>6
<1>3. Has(n)
  <2> HIDE DEF Has
  <2> DEFINE Good == {k \in Nat : k <= n => Has(k)}
  <2>1. 0 \in Good
    BY <1>1
  <2>2. \A k \in Nat : k \in Good => k + 1 \in Good
    BY <1>2
  <2>3. n \in Good
    <3> HIDE DEF Good
    <3> QED
      BY <2>1, <2>2, Induction
  <2> QED
    BY <2>3
<1>4. PICK it \in [SUBSET (1 .. n) -> V] : Right(it, n)
  BY <1>3
<1> QED
  BY <1>4 DEF IsTable

(* What such a table says of the prefixes.                                 *)
Tabulates(g, n, V, step) ==
  \A t \in SUBSET (1 .. n) : t # {} /\ g[t \ {Max(t)}] \in V =>
    g[t] = step[<<Max(t), g[t \ {Max(t)}]>>]

Accumulates(f, n, base, step, g) ==
  /\ f[0] = base
  /\ \A k \in 1 .. n : f[k] = step[<<k, f[k - 1]>>]
  /\ f[n] = g[1 .. n]

LEMMA FoldAlong ==
  ASSUME NEW n \in Nat, NEW V, NEW base \in V, NEW step \in [(1 .. n) \X V -> V], NEW g,
         g[{}] = base, Tabulates(g, n, V, step)
  PROVE  \E f \in [0 .. n -> V] : Accumulates(f, n, base, step, g)
<1>1. ASSUME NEW k \in 1 .. n, g[1 .. k - 1] \in V
      PROVE  g[1 .. k] = step[<<k, g[1 .. k - 1]>>] /\ g[1 .. k] \in V
  <2>1. 1 .. k \in SUBSET (1 .. n) /\ 1 .. k # {} /\ k \in 1 .. k
    OBVIOUS
  <2>2. Max(1 .. k) = k
    <3>1. Max(1 .. k) \in 1 .. k /\ \A x \in 1 .. k : Max(1 .. k) >= x
      BY <2>1, MaxFacts
    <3> QED
      BY <2>1, <3>1
  <2>3. (1 .. k) \ {k} = 1 .. k - 1
    OBVIOUS
  <2>4. g[1 .. k] = step[<<k, g[1 .. k - 1]>>]
    BY <1>1, <2>1, <2>2, <2>3 DEF Tabulates
  <2>5. <<k, g[1 .. k - 1]>> \in (1 .. n) \X V
    BY <1>1
  <2> QED
    BY <2>4, <2>5
<1>2. 1 .. 0 = {}
  OBVIOUS
<1>3. \A k \in 0 .. n : g[1 .. k] \in V
  <2> DEFINE T == {k \in Nat : k <= n => g[1 .. k] \in V}
  <2>1. 0 \in T
    BY <1>2
  <2>2. ASSUME NEW k \in Nat, k \in T PROVE k + 1 \in T
    <3> SUFFICES ASSUME k + 1 <= n PROVE g[1 .. k + 1] \in V
      OBVIOUS
    <3>1. g[1 .. k] \in V /\ k + 1 \in 1 .. n /\ (k + 1) - 1 = k
      BY <2>2
    <3> QED
      BY <1>1, <3>1
  <2> HIDE DEF T
  <2>3. \A k \in Nat : k \in T
    BY <2>1, <2>2, Induction
  <2> QED
    BY <2>3 DEF T
<1>4. PICK f : f = [k \in 0 .. n |-> g[1 .. k]]
  OBVIOUS
<1>5. f \in [0 .. n -> V]
  BY <1>3, <1>4
<1>6. f[0] = base
  <2>1. f[0] = g[1 .. 0]
    BY <1>4
  <2> QED
    BY <1>2, <2>1
<1>7. \A k \in 1 .. n : f[k] = step[<<k, f[k - 1]>>]
  <2> SUFFICES ASSUME NEW k \in 1 .. n PROVE f[k] = step[<<k, f[k - 1]>>]
    OBVIOUS
  <2>1. f[k] = g[1 .. k] /\ f[k - 1] = g[1 .. k - 1] /\ k - 1 \in 0 .. n
    BY <1>4
  <2> QED
    BY <1>1, <1>3, <2>1
<1>8. f[n] = g[1 .. n]
  BY <1>4
<1> QED
  BY <1>5, <1>6, <1>7, <1>8 DEF Accumulates

-----------------------------------------------------------------------------
(* Sequences                                                               *)

(* A sequence without the element at a place.                              *)
LEMMA Removing ==
  ASSUME NEW S, NEW q \in Seq(S), NEW i \in 1 .. Len(q)
  PROVE  /\ RemoveAt(q, i) \in Seq(S) /\ Len(RemoveAt(q, i)) = Len(q) - 1
         /\ \A k \in 1 .. Len(q) - 1 : RemoveAt(q, i)[k] = IF k < i THEN q[k] ELSE q[k + 1]
<1>1. PICK n \in Nat : n = Len(q) /\ \A k \in 1 .. n : q[k] \in S
  BY LenProperties, ElementOfSeq
<1>2. PICK a : a = SubSeq(q, 1, i - 1)
  OBVIOUS
<1>3. PICK b : b = SubSeq(q, i + 1, n)
  OBVIOUS
<1>4. a \in Seq(S) /\ Len(a) = i - 1 /\ \A k \in 1 .. i - 1 : a[k] = q[k]
  <2>1. 1 \in Int /\ i - 1 \in Int /\ \A k \in 1 .. i - 1 : q[k] \in S
    BY <1>1
  <2>2. /\ a \in Seq(S)
        /\ Len(a) = IF 1 <= i - 1 THEN i - 1 - 1 + 1 ELSE 0
        /\ \A k \in 1 .. i - 1 - 1 + 1 : a[k] = q[1 + k - 1]
    BY <1>2, <2>1, SubSeqProperties
  <2> QED
    BY <1>1, <2>2
<1>5. b \in Seq(S) /\ Len(b) = n - i /\ \A k \in 1 .. n - i : b[k] = q[i + k]
  <2>1. i + 1 \in Int /\ n \in Int /\ \A k \in i + 1 .. n : q[k] \in S
    BY <1>1
  <2>2. /\ b \in Seq(S)
        /\ Len(b) = IF i + 1 <= n THEN n - (i + 1) + 1 ELSE 0
        /\ \A k \in 1 .. n - (i + 1) + 1 : b[k] = q[i + 1 + k - 1]
    BY <1>3, <2>1, SubSeqProperties
  <2>3. n - (i + 1) + 1 = n - i /\ i <= n
    BY <1>1
  <2>4. \A k \in 1 .. n - i : i + 1 + k - 1 = i + k
    BY <1>1
  <2> QED
    BY <1>1, <2>2, <2>3, <2>4
<1>6. PICK c : c = a \o b
  OBVIOUS
<1>7. /\ c \in Seq(S) /\ Len(c) = n - 1
      /\ \A k \in 1 .. n - 1 : c[k] = IF k <= i - 1 THEN a[k] ELSE b[k - (i - 1)]
  <2>1. /\ c \in Seq(S) /\ Len(c) = Len(a) + Len(b)
        /\ \A k \in 1 .. Len(a) + Len(b) : c[k] = IF k <= Len(a) THEN a[k] ELSE b[k - Len(a)]
    BY <1>4, <1>5, <1>6, ConcatProperties
  <2>2. Len(a) + Len(b) = n - 1
    BY <1>1, <1>4, <1>5
  <2> QED
    BY <1>4, <2>1, <2>2
<1>8. ASSUME NEW k \in 1 .. n - 1 PROVE c[k] = IF k < i THEN q[k] ELSE q[k + 1]
  <2>1. CASE k < i
    <3>1. k <= i - 1 /\ k \in 1 .. i - 1
      BY <2>1
    <3> QED
      BY <1>4, <1>7, <2>1, <3>1
  <2>2. CASE k >= i
    <3>1. ~(k <= i - 1) /\ k - (i - 1) \in 1 .. n - i /\ i + (k - (i - 1)) = k + 1
      BY <1>1, <2>2
    <3> QED
      BY <1>5, <1>7, <2>2, <3>1
  <2> QED
    BY <2>1, <2>2
<1>9. RemoveAt(q, i) = c
  BY <1>1, <1>2, <1>3, <1>6 DEF RemoveAt
<1> QED
  BY <1>1, <1>7, <1>8, <1>9

LEMMA LineTail ==
  ASSUME NEW S, NEW s \in Seq(S), s # <<>>
  PROVE  /\ Head(s) = s[1] /\ s[1] \in S /\ Len(s) \in Nat /\ Len(s) >= 1
         /\ Tail(s) \in Seq(S) /\ Len(Tail(s)) = Len(s) - 1
         /\ \A i \in 1 .. Len(s) - 1 : Tail(s)[i] = s[i + 1]
<1>1. Len(s) \in Nat /\ Len(s) # 0
  BY LenProperties, EmptySeq
<1>2. Len(s) >= 1 /\ 1 \in 1 .. Len(s)
  BY <1>1
<1>3. Tail(s) \in Seq(S) /\ Len(Tail(s)) = Len(s) - 1 /\ \A i \in 1 .. Len(Tail(s)) : Tail(s)[i] = s[i + 1]
  BY HeadTailProperties
<1> QED
  BY <1>1, <1>2, <1>3, ElementOfSeq

LEMMA LineRest ==
  ASSUME NEW S, NEW s \in Seq(S), s # <<>>
  PROVE  \E n \in Nat, t \in Seq(S) :
           /\ t = Tail(s) /\ n + 1 = Len(s) /\ Len(t) = n
           /\ \A i \in 1 .. n : t[i] = s[i + 1] /\ i + 1 \in 1 .. Len(s)
<1>1. PICK n \in Nat : n + 1 = Len(s)
  <2>1. Len(s) - 1 \in Nat /\ (Len(s) - 1) + 1 = Len(s)
    BY LineTail
  <2> QED
    BY <2>1
<1>2. PICK t \in Seq(S) : t = Tail(s) /\ Len(t) = n /\ \A i \in 1 .. n : t[i] = s[i + 1]
  <2>1. Tail(s) \in Seq(S) /\ Len(Tail(s)) = Len(s) - 1 /\ \A i \in 1 .. Len(s) - 1 : Tail(s)[i] = s[i + 1]
    BY LineTail
  <2>2. Len(s) - 1 = n
    BY <1>1
  <2>3. Len(Tail(s)) = n /\ \A i \in 1 .. n : Tail(s)[i] = s[i + 1]
    BY <2>1, <2>2
  <2> QED
    BY <2>1, <2>3, Zenon
<1>3. \A i \in 1 .. n : i + 1 \in 1 .. Len(s)
  BY <1>1
<1> QED
  BY <1>1, <1>2, <1>3

LEMMA LineSingle ==
  ASSUME NEW S, NEW e \in S
  PROVE  <<e>> \in Seq(S) /\ Len(<<e>>) = 1 /\ <<e>>[1] = e
OBVIOUS

LEMMA LinePair ==
  ASSUME NEW S, NEW d \in S, NEW e \in S
  PROVE  <<d, e>> \in Seq(S) /\ Len(<<d, e>>) = 2 /\ <<d, e>>[1] = d /\ <<d, e>>[2] = e
OBVIOUS

LEMMA LineJoined ==
  ASSUME NEW S, NEW s \in Seq(S), NEW t \in Seq(S)
  PROVE  /\ s \o t \in Seq(S) /\ Len(s) \in Nat /\ Len(t) \in Nat /\ Len(s \o t) = Len(s) + Len(t)
         /\ \A i \in 1 .. Len(s) : (s \o t)[i] = s[i]
         /\ \A i \in 1 .. Len(t) : (s \o t)[Len(s) + i] = t[i]
<1>1. Len(s) \in Nat /\ Len(t) \in Nat
  BY LenProperties
<1>2. s \o t \in Seq(S) /\ Len(s \o t) = Len(s) + Len(t)
      /\ \A i \in 1 .. Len(s) + Len(t) : (s \o t)[i] = IF i <= Len(s) THEN s[i] ELSE t[i - Len(s)]
  BY ConcatProperties
<1> QED
  BY <1>1, <1>2

LEMMA LineAppended ==
  ASSUME NEW S, NEW s \in Seq(S), NEW e \in S
  PROVE  /\ Append(s, e) \in Seq(S) /\ Len(s) \in Nat /\ Len(Append(s, e)) = Len(s) + 1
         /\ \A i \in 1 .. Len(s) : Append(s, e)[i] = s[i]
         /\ Append(s, e)[Len(s) + 1] = e
<1>1. Len(s) \in Nat
  BY LenProperties
<1>2. Append(s, e) \in Seq(S) /\ Len(Append(s, e)) = Len(s) + 1
      /\ \A i \in 1 .. Len(s) : Append(s, e)[i] = s[i]
  BY AppendProperties
<1>3. Append(s, e)[Len(s) + 1] = e
  BY AppendProperties
<1> QED
  BY <1>1, <1>2, <1>3

LEMMA LineEnds ==
  ASSUME NEW S, NEW s \in Seq(S), Len(s) = 1
  PROVE  s # <<>> /\ Tail(s) = <<>>
<1>1. s # <<>>
  OBVIOUS
<1>2. Tail(s) \in Seq(S) /\ Len(Tail(s)) = 0
  BY <1>1, LineTail
<1> QED
  BY <1>1, <1>2, EmptySeq

-----------------------------------------------------------------------------
(* Places in rows, of which each row has some                              *)

PlaceRows(rows, n) == UNION {{<<k, i>> : i \in rows[k]} : k \in 0 .. n - 1}
InRow(k, row)      == {<<k, i>> : i \in row}

LEMMA RowSize ==
  ASSUME NEW k, NEW row, IsFiniteSet(row)
  PROVE  IsFiniteSet(InRow(k, row)) /\ Cardinality(InRow(k, row)) = Cardinality(row)
<1>1. PICK f : f = [i \in row |-> <<k, i>>]
  OBVIOUS
<1>2. f \in [row -> InRow(k, row)] /\ \A i \in row : f[i] = <<k, i>>
  BY <1>1 DEF InRow
<1>3. \A i, j \in row : f[i] = f[j] => i = j
  BY <1>2
<1>4. \A p \in InRow(k, row) : \E i \in row : f[i] = p
  BY <1>2 DEF InRow
<1>5. ExistsBijection(row, InRow(k, row))
  BY <1>2, <1>3, <1>4 DEF ExistsBijection, Bijection, Injection, Surjection, IsInjective
<1> QED
  BY <1>5, FS_Bijection

LEMMA RowsApart ==
  ASSUME NEW A, NEW B, IsFiniteSet(A), IsFiniteSet(B), A \cap B = {}
  PROVE  IsFiniteSet(A \cup B) /\ Cardinality(A \cup B) = Cardinality(A) + Cardinality(B)
<1>1. Cardinality(A) \in Nat /\ Cardinality(B) \in Nat
  BY FS_CardinalityType
<1>2. Cardinality({}) = 0
  BY FS_EmptySet
<1>3. IsFiniteSet(A \cup B)
  BY FS_Union
<1>4. Cardinality(A \cup B) = Cardinality(A) + Cardinality(B) - Cardinality(A \cap B)
  BY FS_Union
<1>5. Cardinality(A \cap B) = 0
  BY <1>2
<1> QED
  BY <1>1, <1>3, <1>4, <1>5

(* The rows are as many places as they have together.                      *)
LEMMA OneRowMore ==
  ASSUME NEW rows, NEW n \in Nat
  PROVE  PlaceRows(rows, n + 1) = PlaceRows(rows, n) \cup InRow(n, rows[n]) /\ PlaceRows(rows, n) \cap InRow(n, rows[n]) = {}
<1>1. \A k : k \in 0 .. (n + 1) - 1 <=> k \in 0 .. n - 1 \/ k = n
  OBVIOUS
<1>2. n \notin 0 .. n - 1
  OBVIOUS
<1>3. \A p : p \in PlaceRows(rows, n + 1) <=> p \in PlaceRows(rows, n) \cup InRow(n, rows[n])
  BY <1>1 DEF PlaceRows, InRow
<1>4. PlaceRows(rows, n) \cap InRow(n, rows[n]) = {}
  BY <1>2 DEF PlaceRows, InRow
<1> QED
  BY <1>3, <1>4

LEMMA RowsFinite ==
  ASSUME NEW n \in Nat, NEW rows, \A k \in 0 .. n - 1 : IsFiniteSet(rows[k])
  PROVE  \A m \in 0 .. n : IsFiniteSet(PlaceRows(rows, m))
<1> DEFINE T == {m \in Nat : m <= n => IsFiniteSet(PlaceRows(rows, m))}
<1>1. 0 \in T
  <2>1. PlaceRows(rows, 0) = {}
    BY DEF PlaceRows
  <2> QED
    BY <2>1, FS_EmptySet
<1>2. ASSUME NEW m \in Nat, m \in T PROVE m + 1 \in T
  <2> SUFFICES ASSUME m + 1 <= n PROVE IsFiniteSet(PlaceRows(rows, m + 1))
    OBVIOUS
  <2>1. IsFiniteSet(PlaceRows(rows, m)) /\ m \in 0 .. n - 1
    BY <1>2
  <2>2. IsFiniteSet(InRow(m, rows[m]))
    BY <2>1, RowSize
  <2>3. PlaceRows(rows, m + 1) = PlaceRows(rows, m) \cup InRow(m, rows[m])
    BY OneRowMore
  <2>4. IsFiniteSet(PlaceRows(rows, m) \cup InRow(m, rows[m]))
    BY <2>1, <2>2, FS_Union
  <2> QED
    BY <2>3, <2>4
<1>3. \A m \in Nat : m \in T
  <2> HIDE DEF T
  <2> QED
    BY <1>1, <1>2, Induction
<1> QED
  BY <1>3

(* What is counted: the places in the rows before one, and those before a  *)
(* place in its row.                                                       *)
LEMMA RowsCount ==
  ASSUME NEW n \in Nat, NEW rows, \A k \in 0 .. n - 1 : IsFiniteSet(rows[k]), NEW m \in 0 .. n - 1
  PROVE  /\ Cardinality(PlaceRows(rows, m)) \in Nat
         /\ Cardinality(PlaceRows(rows, m + 1)) = Cardinality(PlaceRows(rows, m)) + Cardinality(rows[m])
<1>1. IsFiniteSet(PlaceRows(rows, m))
  BY RowsFinite
<1>2. IsFiniteSet(InRow(m, rows[m])) /\ Cardinality(InRow(m, rows[m])) = Cardinality(rows[m])
  BY RowSize
<1>3. PlaceRows(rows, m + 1) = PlaceRows(rows, m) \cup InRow(m, rows[m]) /\ PlaceRows(rows, m) \cap InRow(m, rows[m]) = {}
  BY OneRowMore
<1>4. Cardinality(PlaceRows(rows, m)) \in Nat
  BY <1>1, FS_CardinalityType
<1> QED
  BY <1>1, <1>2, <1>3, <1>4, RowsApart

LEMMA PlacesBefore ==
  ASSUME NEW n \in Nat, NEW rows, \A k \in 0 .. n - 1 : IsFiniteSet(rows[k]) /\ rows[k] \subseteq Nat,
         NEW m \in 0 .. n - 1, NEW i \in rows[m],
         NEW before, before = {q \in PlaceRows(rows, n) : q[1] < m \/ (q[1] = m /\ q[2] < i)}
  PROVE  Cardinality(before) = Cardinality(PlaceRows(rows, m)) + Cardinality({j \in rows[m] : j < i})
<1>1. PICK row : row = {j \in rows[m] : j < i}
  OBVIOUS
<1>2. IsFiniteSet(row)
  BY <1>1, FS_Subset
<1>3. IsFiniteSet(InRow(m, row)) /\ Cardinality(InRow(m, row)) = Cardinality(row)
  BY <1>2, RowSize
<1>4. before = PlaceRows(rows, m) \cup InRow(m, row)
  <2>1. ASSUME NEW q \in before PROVE q \in PlaceRows(rows, m) \cup InRow(m, row)
    <3>1. PICK k \in 0 .. n - 1 : \E j \in rows[k] : q = <<k, j>> /\ (k < m \/ (k = m /\ j < i))
      BY DEF PlaceRows
    <3>0. PICK j \in rows[k] : q = <<k, j>> /\ (k < m \/ (k = m /\ j < i))
      BY <3>1
    <3>2. CASE k < m
      <4>1. k \in 0 .. m - 1
        BY <3>2
      <4> QED
        BY <3>0, <4>1 DEF PlaceRows
    <3>3. CASE k = m /\ j < i
      BY <1>1, <3>0, <3>3 DEF InRow
    <3> QED
      BY <3>0, <3>2, <3>3
  <2>2. ASSUME NEW q \in PlaceRows(rows, m) PROVE q \in before
    <3>0. PICK k \in 0 .. m - 1 : \E j \in rows[k] : q = <<k, j>>
      BY DEF PlaceRows
    <3>1. PICK j \in rows[k] : q = <<k, j>>
      BY <3>0
    <3>2. k \in 0 .. n - 1 /\ k < m
      OBVIOUS
    <3>3. q \in PlaceRows(rows, n) /\ q[1] < m
      BY <3>1, <3>2 DEF PlaceRows
    <3> QED
      BY <3>3
  <2>3. ASSUME NEW q \in InRow(m, row) PROVE q \in before
    <3>1. PICK j \in row : q = <<m, j>>
      BY DEF InRow
    <3>2. q \in PlaceRows(rows, n) /\ q[1] = m /\ q[2] < i
      BY <1>1, <3>1 DEF PlaceRows
    <3> QED
      BY <3>2
  <2> QED
    BY <2>1, <2>2, <2>3
<1>5. PlaceRows(rows, m) \cap InRow(m, row) = {}
  <2>1. m \notin 0 .. m - 1
    OBVIOUS
  <2> QED
    BY <2>1 DEF PlaceRows, InRow
<1>6. IsFiniteSet(PlaceRows(rows, m))
  BY RowsFinite
<1> QED
  BY <1>1, <1>3, <1>4, <1>5, <1>6, RowsApart

-----------------------------------------------------------------------------
(* Unix sockets *)

SendsOn(t, r) == sockTask[t].op = "send" /\ sockTask[t].ring = r

(* Nobody is led to a ring that the heap could give out again.             *)
SockTyped ==
  /\ SockTypeOK
  /\ readOut \in [Rings -> Seq(Bytes)] /\ pulled \subseteq Rings
  /\ \A i \in Taken : /\ sockets[i].rx \in Rings /\ sockets[i].tx \in Rings
                      /\ sockets[i].id \in 1 .. next_id /\ sockets[i].peer \in 0 .. next_id
  /\ \A t \in SockTasks :
       /\ sockTask[t].op # "idle" => sockTask[t].ring \in Rings
       /\ sockTask[t].op = "send" => sockTask[t].id \in 1 .. next_id /\ sockTask[t].msg \in 1 .. MaxMessages

(* The bytes of whole messages from one end, one message after the other.  *)
Whole(s) ==
  \A i \in 1 .. Len(s) :
    /\ s[i].from = s[1].from
    /\ s[i].at > 1 => i > 1 /\ s[i - 1] = [s[i] EXCEPT !.at = @ - 1]
    /\ s[i].at < s[i].len => i < Len(s)

(* All bytes of a ring, and those that are still to come, are of one end.  *)
From(s, id)   == \A i \in 1 .. Len(s) : s[i].from = id
NotOf(s, id)  == \A i \in 1 .. Len(s) : s[i].from # id
Known(s)      == \A i \in 1 .. Len(s) : s[i].from \in 1 .. next_id

EndTrue(i) ==
  LET s == sockets[i]
  IN /\ s.rx # s.tx /\ s.rx \in ringsUsed /\ s.tx \in ringsUsed
     /\ s.state = "HOERT" => /\ s.peer = 0 /\ Len(Stream(s.rx)) = 0
                             /\ \A t \in SockTasks : ~SendsOn(t, s.rx)
     /\ From(Stream(s.tx), s.id) /\ NotOf(Stream(s.rx), s.id)
     /\ \A t \in SockTasks : /\ SendsOn(t, s.tx) => sockTask[t].id = s.id
                             /\ SendsOn(t, s.rx) => sockTask[t].id # s.id

Related(i, j) ==
  /\ sockets[i].id # sockets[j].id
  /\ IF sockets[i].peer = sockets[j].id
     THEN /\ sockets[j].peer = sockets[i].id
          /\ sockets[i].rx = sockets[j].tx /\ sockets[i].tx = sockets[j].rx
     ELSE /\ sockets[i].rx # sockets[j].rx /\ sockets[i].rx # sockets[j].tx
          /\ sockets[i].tx # sockets[j].rx /\ sockets[i].tx # sockets[j].tx

CallTrue(t) ==
  sockTask[t].op # "idle" =>
    /\ sockTask[t].ring \in ringsUsed
    /\ sockTask[t].op = "send" =>
         /\ From(Stream(sockTask[t].ring), sockTask[t].id)
         /\ \A u \in SockTasks : SendsOn(u, sockTask[t].ring) => sockTask[u].id = sockTask[t].id

SockBooks ==
  /\ \A i \in Taken : EndTrue(i)
  /\ \A i, j \in Taken : i # j => Related(i, j)
  /\ \A t \in SockTasks : CallTrue(t)
  /\ \A r \in Rings : Whole(Stream(r)) /\ Known(Stream(r))

SockInv == SockTyped /\ (pulled = {} => SockBooks)

(* A message behind whole messages of the same end.                        *)
LEMMA WholeAppend ==
  ASSUME NEW s \in Seq(Bytes), Whole(s), NEW f \in Ids, From(s, f),
         NEW n \in Nat, NEW a \in 1 .. MaxMessages,
         NEW m, m = [i \in 1 .. n |-> [msg |-> a, at |-> i, len |-> n, from |-> f]]
  PROVE  /\ m \in Seq(Bytes) /\ s \o m \in Seq(Bytes)
         /\ Whole(s \o m) /\ From(s \o m, f)
         /\ Len(s \o m) = Len(s) + n
<1>1. m \in Seq(Bytes) /\ Len(m) = n
  <2>1. \A i \in 1 .. n : [msg |-> a, at |-> i, len |-> n, from |-> f] \in Bytes
    BY DEF Bytes
  <2>2. m \in [1 .. n -> Bytes]
    BY <2>1
  <2> QED
    BY <2>2
<1>2. \A i \in 1 .. n : m[i].at = i /\ m[i].len = n /\ m[i].from = f
  OBVIOUS
<1>3. \A i \in 1 .. n : i > 1 => m[i - 1] = [m[i] EXCEPT !.at = @ - 1]
  <2> SUFFICES ASSUME NEW i \in 1 .. n, i > 1 PROVE m[i - 1] = [m[i] EXCEPT !.at = @ - 1]
    OBVIOUS
  <2>1. m[i] = [msg |-> a, at |-> i, len |-> n, from |-> f]
    OBVIOUS
  <2>2. i - 1 \in 1 .. n
    OBVIOUS
  <2>3. m[i - 1] = [msg |-> a, at |-> i - 1, len |-> n, from |-> f]
    BY <2>2
  <2> QED
    BY <2>1, <2>3
<1> DEFINE z == s \o m
<1>4. Len(s) \in Nat /\ z \in Seq(Bytes) /\ Len(z) = Len(s) + n
      /\ (\A i \in 1 .. Len(s) : z[i] = s[i]) /\ \A i \in 1 .. n : z[Len(s) + i] = m[i]
  <2>1. z \in Seq(Bytes) /\ Len(z) = Len(s) + Len(m)
        /\ \A i \in 1 .. Len(s) + Len(m) : z[i] = IF i <= Len(s) THEN s[i] ELSE m[i - Len(s)]
    BY <1>1, ConcatProperties
  <2> HIDE DEF z
  <2>2. Len(s) \in Nat
    BY LenProperties
  <2>3. ASSUME NEW i \in 1 .. n PROVE z[Len(s) + i] = m[i]
    <3>1. Len(s) + i \in 1 .. Len(s) + Len(m) /\ ~(Len(s) + i <= Len(s)) /\ (Len(s) + i) - Len(s) = i
      BY <1>1, <2>2
    <3> QED
      BY <2>1, <3>1
  <2>4. Len(m) = n /\ n \in Nat
    BY <1>1
  <2>5. \A i \in 1 .. Len(s) : z[i] = s[i]
    BY <2>1, <2>2, <2>4
  <2>6. z \in Seq(Bytes) /\ Len(z) = Len(s) + n
    BY <2>1, <2>4
  <2> QED
    BY <2>2, <2>3, <2>5, <2>6
<1> HIDE DEF z
<1>5. \A i \in 1 .. Len(z) : i \in 1 .. Len(s) \/ (i - Len(s) \in 1 .. n /\ i = Len(s) + (i - Len(s)))
  BY <1>4
<1>6. From(z, f)
  <2> SUFFICES ASSUME NEW i \in 1 .. Len(z) PROVE z[i].from = f
    BY DEF From
  <2>1. CASE i \in 1 .. Len(s)
    BY <1>4, <2>1 DEF From
  <2>2. CASE i \notin 1 .. Len(s)
    <3>1. i - Len(s) \in 1 .. n /\ i = Len(s) + (i - Len(s))
      BY <1>5, <2>2
    <3> QED
      BY <1>2, <1>4, <3>1
  <2> QED
    BY <2>1, <2>2
<1>7. ASSUME NEW i \in 1 .. Len(z)
      PROVE  /\ z[i].from = z[1].from
             /\ z[i].at > 1 => i > 1 /\ z[i - 1] = [z[i] EXCEPT !.at = @ - 1]
             /\ z[i].at < z[i].len => i < Len(z)
  <2>1. 1 \in 1 .. Len(z)
    BY <1>4
  <2>2. z[i].from = z[1].from
    BY <1>6, <2>1 DEF From
  <2>3. CASE i \in 1 .. Len(s)
    <3>1. z[i] = s[i]
      BY <1>4, <2>3
    <3>2. ASSUME z[i].at > 1 PROVE i > 1 /\ z[i - 1] = [z[i] EXCEPT !.at = @ - 1]
      <4>1. i > 1 /\ s[i - 1] = [s[i] EXCEPT !.at = @ - 1]
        BY <2>3, <3>1, <3>2 DEF Whole
      <4>2. i - 1 \in 1 .. Len(s)
        BY <1>4, <2>3, <4>1
      <4> QED
        BY <1>4, <3>1, <4>1, <4>2
    <3>3. z[i].at < z[i].len => i < Len(s)
      BY <2>3, <3>1 DEF Whole
    <3> QED
      BY <1>4, <2>2, <3>2, <3>3
  <2>4. CASE i \notin 1 .. Len(s)
    <3> DEFINE k == i - Len(s)
    <3>1. k \in 1 .. n /\ i = Len(s) + k
      BY <1>5, <2>4
    <3> HIDE DEF k
    <3>2. z[i] = m[k] /\ m[k].at = k /\ m[k].len = n
      BY <1>2, <1>4, <3>1
    <3>3. ASSUME k > 1 PROVE i > 1 /\ z[i - 1] = [z[i] EXCEPT !.at = @ - 1]
      <4>1. k - 1 \in 1 .. n /\ i - 1 = Len(s) + (k - 1)
        BY <1>4, <3>1, <3>3
      <4>2. z[i - 1] = m[k - 1]
        BY <1>4, <4>1
      <4>3. m[k - 1] = [m[k] EXCEPT !.at = @ - 1]
        BY <1>3, <3>1, <3>3
      <4> QED
        BY <1>4, <3>1, <3>2, <3>3, <4>2, <4>3
    <3>4. k < n => i < Len(z)
      BY <1>4, <3>1
    <3> QED
      BY <2>2, <3>2, <3>3, <3>4
  <2> QED
    BY <2>3, <2>4
<1>8. Whole(z)
  BY <1>7 DEF Whole
<1> QED
  BY <1>1, <1>4, <1>6, <1>8 DEF z

LEMMA StreamTyped ==
  ASSUME SockTyped, NEW r \in Rings
  PROVE  /\ Stream(r) \in Seq(Bytes) /\ Len(Stream(r)) \in Nat
         /\ \A i \in 1 .. Len(Stream(r)) : Stream(r)[i] \in Bytes
<1>1. readOut[r] \in Seq(Bytes) /\ ringBuf[r] \in Seq(Bytes)
  BY DEF SockTyped, SockTypeOK
<1>2. Stream(r) \in Seq(Bytes)
  BY <1>1, ConcatProperties DEF Stream
<1> QED
  BY <1>2, LenProperties, ElementOfSeq

LEMMA EmptyStream == <<>> \o <<>> \in Seq(Bytes) /\ Len(<<>> \o <<>>) = 0
<1>1. <<>> \in Seq(Bytes) /\ Len(<<>>) = 0
  OBVIOUS
<1> QED
  BY <1>1, ConcatProperties

LEMMA FreeSocket ==
  ASSUME FreeSlots # {}
  PROVE  Min(FreeSlots) \in Table /\ Min(FreeSlots) \notin Taken
<1>1. FreeSlots \subseteq Nat
  BY UnixSockAssumption DEF FreeSlots, Table
<1> QED
  BY <1>1, MinFacts DEF FreeSlots

LEMMA FoundSocket ==
  /\ \A id : Numbered(id) # {} => Min(Numbered(id)) \in Taken /\ sockets[Min(Numbered(id))].id = id
  /\ \A n : Named(n) # {} => Min(Named(n)) \in Taken
<1>1. \A id : Numbered(id) \subseteq Nat /\ Named(id) \subseteq Nat
  BY UnixSockAssumption DEF Numbered, Named, Taken, Table
<1>2. \A id : Numbered(id) # {} => Min(Numbered(id)) \in Numbered(id)
  BY <1>1, MinFacts
<1>3. \A n : Named(n) # {} => Min(Named(n)) \in Named(n)
  BY <1>1, MinFacts
<1> QED
  BY <1>2, <1>3 DEF Numbered, Named

LEMMA SockBegins ==
  ASSUME SockInit PROVE SockInv
<1>1. Taken = {}
  BY DEF SockInit, Taken, SockFree
<1>2. \A t \in SockTasks : sockTask[t] = TaskIdle
  BY DEF SockInit
<1>3. SockTypeOK
  <2>1. SockFree \in [state : {"FREI", "HOERT", "VERBUNDEN"}, id : 0 .. MaxIds,
                            name : Names \cup {""}, rx : Rings \cup {NoRing},
                            tx : Rings \cup {NoRing}, peer : 0 .. MaxIds]
    BY UnixSockAssumption DEF SockFree
  <2>2. TaskIdle \in [op : {"idle", "send", "recv"}, ring : Rings \cup {NoRing},
                                 id : 0 .. MaxIds, len : Nat, msg : 0 .. MaxMessages]
    BY UnixSockAssumption DEF TaskIdle
  <2>3. <<>> \in Seq(Bytes) /\ Len(<<>>) = 0
    OBVIOUS
  <2>4. ringBuf \in [Rings -> Seq(Bytes)] /\ \A r \in Rings : Len(ringBuf[r]) <= SOCKBUF
    BY <2>3, UnixSockAssumption DEF SockInit
  <2>5. next_id \in 0 .. MaxIds /\ messages \in 0 .. MaxMessages
    BY UnixSockAssumption DEF SockInit
  <2>6. ringsUsed \subseteq Rings
    BY DEF SockInit
  <2>7. sockets \in [Table -> [state : {"FREI", "HOERT", "VERBUNDEN"}, id : 0 .. MaxIds,
                            name : Names \cup {""}, rx : Rings \cup {NoRing},
                            tx : Rings \cup {NoRing}, peer : 0 .. MaxIds]]
    BY <2>1, Zenon DEF SockInit
  <2>8. sockTask \in [SockTasks -> [op : {"idle", "send", "recv"}, ring : Rings \cup {NoRing},
                                 id : 0 .. MaxIds, len : Nat, msg : 0 .. MaxMessages]]
    BY <2>2, Zenon DEF SockInit
  <2> QED
    BY <2>4, <2>5, <2>6, <2>7, <2>8 DEF SockTypeOK
<1>4. SockTyped
  BY <1>1, <1>2, <1>3 DEF SockTyped, SockInit, TaskIdle
<1>5. SockBooks
  <2>1. \A r \in Rings : Len(Stream(r)) = 0
    BY EmptyStream DEF SockInit, Stream
  <2>2. \A r \in Rings : Whole(Stream(r)) /\ Known(Stream(r))
    BY <2>1 DEF Whole, Known
  <2>3. \A t \in SockTasks : CallTrue(t)
    BY <1>2 DEF CallTrue, TaskIdle
  <2> QED
    BY <1>1, <2>2, <2>3 DEF SockBooks
<1> QED
  BY <1>4, <1>5 DEF SockInv

(* A new socket has rings nobody has, and nothing was stored in them.      *)
LEMMA SockCreateKeeps ==
  ASSUME SockInv, NEW name \in Names, SockCreate(name)
  PROVE  SockInv'
<1> DEFINE k == Min(FreeSlots)
<1>1. PICK rx \in Rings \ ringsUsed, tx \in Rings \ ringsUsed :
       /\ rx # tx
       /\ sockets' = [sockets EXCEPT ![k] =
                        [state |-> "HOERT", id |-> next_id + 1, name |-> name,
                         rx |-> rx, tx |-> tx, peer |-> 0]]
       /\ ringsUsed' = ringsUsed \cup {rx, tx}
       /\ ringBuf' = [r \in Rings |-> IF r \in {rx, tx} THEN <<>> ELSE ringBuf[r]]
       /\ readOut' = [r \in Rings |-> IF r \in {rx, tx} THEN <<>> ELSE readOut[r]]
  BY DEF SockCreate
<1> DEFINE new == [state |-> "HOERT", id |-> next_id + 1, name |-> name, rx |-> rx, tx |-> tx, peer |-> 0]
<1>2. k \in Table /\ k \notin Taken
  BY FreeSocket DEF SockCreate
<1>3. /\ sockTask' = sockTask /\ messages' = messages /\ pulled' = pulled
      /\ next_id' = next_id + 1 /\ next_id \in Nat /\ next_id + 1 \in 1 .. MaxIds
  <2>1. next_id \in 0 .. MaxIds
    BY DEF SockInv, SockTyped, SockTypeOK
  <2>2. /\ sockTask' = sockTask /\ messages' = messages /\ pulled' = pulled
        /\ next_id' = next_id + 1 /\ next_id < MaxIds
    BY DEF SockCreate
  <2> QED
    BY <2>1, <2>2, UnixSockAssumption
<1>4. sockets'[k] = new /\ \A i \in Table : i # k => sockets'[i] = sockets[i]
  BY <1>1, <1>2 DEF SockInv, SockTyped, SockTypeOK
<1> HIDE DEF k
<1>5. Taken' = Taken \cup {k}
  BY <1>2, <1>4 DEF Taken
<1>6. SockTypeOK'
  <2>1. new \in [state : {"FREI", "HOERT", "VERBUNDEN"}, id : 0 .. MaxIds,
                            name : Names \cup {""}, rx : Rings \cup {NoRing},
                            tx : Rings \cup {NoRing}, peer : 0 .. MaxIds]
    <3>1. next_id + 1 \in 0 .. MaxIds /\ 0 \in 0 .. MaxIds
      BY <1>3, UnixSockAssumption
    <3> QED
      BY <3>1
  <2>2. \A r \in Rings : ringBuf'[r] \in Seq(Bytes) /\ Len(ringBuf'[r]) <= SOCKBUF
    <3>1. <<>> \in Seq(Bytes) /\ Len(<<>>) = 0 /\ SOCKBUF \in Nat
      BY UnixSockAssumption
    <3>2. \A r \in Rings : ringBuf[r] \in Seq(Bytes) /\ Len(ringBuf[r]) <= SOCKBUF
      BY DEF SockInv, SockTyped, SockTypeOK
    <3>3. \A r \in Rings : ringBuf'[r] = <<>> \/ ringBuf'[r] = ringBuf[r]
      BY <1>1
    <3>4. Len(<<>>) <= SOCKBUF
      BY <3>1
    <3> QED
      BY <3>1, <3>2, <3>3, <3>4, Zenon
  <2>3. ringBuf' \in [Rings -> Seq(Bytes)]
    BY <1>1, <2>2
  <2> HIDE DEF new
  <2> QED
    BY <1>1, <1>2, <1>3, <2>1, <2>2, <2>3 DEF SockInv, SockTyped, SockTypeOK, new
<1>7. SockTyped'
  <2>1. readOut' \in [Rings -> Seq(Bytes)]
    BY <1>1 DEF SockInv, SockTyped
  <2>2. \A i \in Taken' : /\ sockets'[i].rx \in Rings /\ sockets'[i].tx \in Rings
                          /\ sockets'[i].id \in 1 .. next_id' /\ sockets'[i].peer \in 0 .. next_id'
    <3> SUFFICES ASSUME NEW i \in Taken'
                 PROVE  /\ sockets'[i].rx \in Rings /\ sockets'[i].tx \in Rings
                        /\ sockets'[i].id \in 1 .. next_id' /\ sockets'[i].peer \in 0 .. next_id'
      OBVIOUS
    <3>1. CASE i = k
      BY <1>3, <1>4, <3>1
    <3>2. CASE i # k
      <4>1. i \in Taken /\ sockets'[i] = sockets[i]
        BY <1>4, <1>5, <3>2 DEF Taken
      <4> QED
        BY <1>3, <4>1 DEF SockInv, SockTyped
    <3> QED
      BY <3>1, <3>2
  <2> QED
    BY <1>3, <1>6, <2>1, <2>2 DEF SockInv, SockTyped
<1>8. ASSUME SockBooks PROVE SockBooks'
  <2>1. \A r \in Rings : IF r \in {rx, tx} THEN Stream(r)' = <<>> \o <<>> ELSE Stream(r)' = Stream(r)
    BY <1>1 DEF Stream
  <2>2. Len(Stream(rx)') = 0 /\ Len(Stream(tx)') = 0
    BY <2>1, EmptyStream
  <2>3. \A t \in SockTasks, r \in Rings : SendsOn(t, r)' <=> SendsOn(t, r)
    BY <1>3 DEF SendsOn
  <2>4. \A t \in SockTasks : ~SendsOn(t, rx) /\ ~SendsOn(t, tx)
    BY <1>8 DEF SockBooks, CallTrue, SendsOn
  <2>5. \A i \in Taken : /\ sockets'[i] = sockets[i] /\ sockets[i].rx \in Rings /\ sockets[i].tx \in Rings
                         /\ {sockets[i].rx, sockets[i].tx} \cap {rx, tx} = {}
                         /\ Stream(sockets[i].rx)' = Stream(sockets[i].rx)
                         /\ Stream(sockets[i].tx)' = Stream(sockets[i].tx)
    <3> SUFFICES ASSUME NEW i \in Taken
                 PROVE  /\ sockets'[i] = sockets[i] /\ sockets[i].rx \in Rings /\ sockets[i].tx \in Rings
                        /\ {sockets[i].rx, sockets[i].tx} \cap {rx, tx} = {}
                        /\ Stream(sockets[i].rx)' = Stream(sockets[i].rx)
                        /\ Stream(sockets[i].tx)' = Stream(sockets[i].tx)
      OBVIOUS
    <3>1. sockets'[i] = sockets[i] /\ i \in Table
      BY <1>2, <1>4 DEF Taken
    <3>2. sockets[i].rx \in Rings /\ sockets[i].tx \in Rings
      BY DEF SockInv, SockTyped
    <3>3. sockets[i].rx \in ringsUsed /\ sockets[i].tx \in ringsUsed
      BY <1>8 DEF SockBooks, EndTrue
    <3>4. {sockets[i].rx, sockets[i].tx} \cap {rx, tx} = {}
      BY <3>3
    <3> QED
      BY <2>1, <3>1, <3>2, <3>4
  <2>6. ASSUME NEW i \in Taken' PROVE EndTrue(i)'
    <3>1. CASE i = k
      <4>1. From(Stream(tx)', next_id + 1) /\ NotOf(Stream(rx)', next_id + 1)
        BY <2>2 DEF From, NotOf
      <4> QED
        BY <1>1, <1>4, <2>2, <2>3, <2>4, <3>1, <4>1 DEF EndTrue
    <3>2. CASE i # k
      <4>1. i \in Taken
        BY <1>5, <3>2
      <4>2. EndTrue(i)
        BY <1>8, <4>1 DEF SockBooks
      <4> QED
        BY <1>1, <1>3, <2>3, <2>5, <4>1, <4>2 DEF EndTrue
    <3> QED
      BY <3>1, <3>2
  <2>7. ASSUME NEW i \in Taken', NEW j \in Taken', i # j PROVE Related(i, j)'
    <3>1. CASE i # k /\ j # k
      <4>1. i \in Taken /\ j \in Taken
        BY <1>5, <3>1
      <4> QED
        BY <1>8, <2>5, <2>7, <4>1 DEF SockBooks, Related
    <3>2. CASE i = k
      <4>1. j \in Taken
        BY <1>5, <2>7, <3>2
      <4>2. sockets[j].id \in 1 .. next_id
        BY <4>1 DEF SockInv, SockTyped
      <4>3. sockets'[j] = sockets[j] /\ {sockets[j].rx, sockets[j].tx} \cap {rx, tx} = {}
        BY <2>5, <4>1
      <4>4. /\ sockets'[i].id = next_id + 1 /\ sockets'[i].peer = 0
            /\ sockets'[i].rx = rx /\ sockets'[i].tx = tx
        BY <1>4, <3>2
      <4>5. sockets'[i].id # sockets'[j].id /\ sockets'[i].peer # sockets'[j].id
        BY <1>3, <4>2, <4>3, <4>4
      <4>6. /\ sockets'[i].rx # sockets'[j].rx /\ sockets'[i].rx # sockets'[j].tx
            /\ sockets'[i].tx # sockets'[j].rx /\ sockets'[i].tx # sockets'[j].tx
        BY <4>3, <4>4
      <4> QED
        BY <4>5, <4>6 DEF Related
    <3>3. CASE j = k
      <4>1. i \in Taken
        BY <1>5, <2>7, <3>3
      <4>2. sockets[i].id \in 1 .. next_id /\ sockets[i].peer \in 0 .. next_id
        BY <4>1 DEF SockInv, SockTyped
      <4>3. sockets'[i] = sockets[i] /\ {sockets[i].rx, sockets[i].tx} \cap {rx, tx} = {}
        BY <2>5, <4>1
      <4>4. /\ sockets'[j].id = next_id + 1 /\ sockets'[j].rx = rx /\ sockets'[j].tx = tx
        BY <1>4, <3>3
      <4>5. sockets'[i].id # sockets'[j].id /\ sockets'[i].peer # sockets'[j].id
        BY <1>3, <4>2, <4>3, <4>4
      <4>6. /\ sockets'[i].rx # sockets'[j].rx /\ sockets'[i].rx # sockets'[j].tx
            /\ sockets'[i].tx # sockets'[j].rx /\ sockets'[i].tx # sockets'[j].tx
        BY <4>3, <4>4
      <4> QED
        BY <4>5, <4>6 DEF Related
    <3> QED
      BY <3>1, <3>2, <3>3
  <2>8. ASSUME NEW t \in SockTasks PROVE CallTrue(t)'
    <3> SUFFICES ASSUME sockTask[t].op # "idle" PROVE CallTrue(t)'
      BY <1>3 DEF CallTrue
    <3>1. CallTrue(t) /\ sockTask[t].ring \in Rings
      BY <1>8 DEF SockBooks, SockInv, SockTyped
    <3>2. Stream(sockTask[t].ring)' = Stream(sockTask[t].ring)
      BY <1>3, <2>1, <3>1 DEF CallTrue
    <3> QED
      BY <1>1, <1>3, <2>3, <3>1, <3>2 DEF CallTrue
  <2>9. ASSUME NEW r \in Rings PROVE Whole(Stream(r))' /\ Known(Stream(r))'
    <3>1. CASE r \in {rx, tx}
      BY <2>2, <3>1 DEF Whole, Known
    <3>2. CASE r \notin {rx, tx}
      <4>1. Stream(r)' = Stream(r)
        BY <2>1, <3>2
      <4>2. Whole(Stream(r)) /\ Known(Stream(r))
        BY <1>8 DEF SockBooks
      <4> QED
        BY <1>3, <4>1, <4>2 DEF Whole, Known
    <3> QED
      BY <3>1, <3>2
  <2> QED
    BY <2>6, <2>7, <2>8, <2>9 DEF SockBooks
<1> QED
  BY <1>3, <1>7, <1>8 DEF SockInv

(* A client is the listening socket's other end.                           *)
LEMMA SockConnectKeeps ==
  ASSUME SockInv, NEW name \in Names, SockConnect(name)
  PROVE  SockInv'
<1> DEFINE k == Min(FreeSlots)
           i == Min(Named(name))
<1>1. /\ k \in Table /\ k \notin Taken /\ i \in Taken /\ i \in Table /\ i # k
      /\ sockets[i].state = "HOERT"
  BY FreeSocket, FoundSocket DEF SockConnect, Taken
<1>2. /\ sockTask' = sockTask /\ messages' = messages /\ pulled' = pulled
      /\ ringBuf' = ringBuf /\ ringsUsed' = ringsUsed /\ readOut' = readOut
  BY DEF SockConnect
<1>3. next_id' = next_id + 1 /\ next_id \in Nat /\ next_id + 1 \in 1 .. MaxIds
  <2>1. next_id \in 0 .. MaxIds
    BY DEF SockInv, SockTyped, SockTypeOK
  <2>2. next_id' = next_id + 1 /\ next_id < MaxIds
    BY DEF SockConnect
  <2> QED
    BY <2>1, <2>2, UnixSockAssumption
<1>4. sockets' = [sockets EXCEPT ![i].state = "VERBUNDEN", ![i].peer = next_id + 1,
                                 ![k] = Client(sockets[i])]
  BY DEF SockConnect
<1> DEFINE Socket == [state : {"FREI", "HOERT", "VERBUNDEN"}, id : 0 .. MaxIds,
                      name : Names \cup {""}, rx : Rings \cup {NoRing},
                      tx : Rings \cup {NoRing}, peer : 0 .. MaxIds]
           s == sockets[i]
           n == next_id + 1
<1>5. sockets \in [Table -> Socket] /\ s \in Socket
  BY <1>1 DEF SockInv, SockTyped, SockTypeOK
<1> HIDE DEF k, i
<1>6. sockets'[i] = [s EXCEPT !.state = "VERBUNDEN", !.peer = n]
  BY <1>1, <1>4, <1>5
<1>7. sockets'[k] = Client(s)
  BY <1>1, <1>4, <1>5
<1>8. \A j \in Table : j # i /\ j # k => sockets'[j] = sockets[j]
  BY <1>1, <1>4, <1>5
<1>9. /\ sockets'[i].state = "VERBUNDEN" /\ sockets'[i].peer = n /\ sockets'[i].id = s.id
      /\ sockets'[i].rx = s.rx /\ sockets'[i].tx = s.tx
      /\ sockets'[k].state = "VERBUNDEN" /\ sockets'[k].peer = s.id /\ sockets'[k].id = n
      /\ sockets'[k].rx = s.tx /\ sockets'[k].tx = s.rx
  <2>1. /\ sockets'[i].state = "VERBUNDEN" /\ sockets'[i].peer = n /\ sockets'[i].id = s.id
        /\ sockets'[i].rx = s.rx /\ sockets'[i].tx = s.tx
    BY <1>5, <1>6
  <2>2. /\ sockets'[k].state = "VERBUNDEN" /\ sockets'[k].peer = s.id /\ sockets'[k].id = n
        /\ sockets'[k].rx = s.tx /\ sockets'[k].tx = s.rx
    BY <1>7 DEF Client
  <2> QED
    BY <2>1, <2>2
<1>10. Taken' = Taken \cup {k}
  BY <1>1, <1>8, <1>9 DEF Taken
<1>11. SockTyped'
  <2>1. sockets'[i] \in Socket /\ sockets'[k] \in Socket
    <3>1. n \in 0 .. MaxIds
      BY <1>3
    <3>2. sockets'[i] \in Socket
      BY <1>5, <1>6, <3>1
    <3>3. s.rx \in Rings \cup {NoRing} /\ s.tx \in Rings \cup {NoRing} /\ s.id \in 0 .. MaxIds
          /\ s.name \in Names \cup {""}
      BY <1>5
    <3>4. sockets'[k] \in Socket
      <4>1. Client(s) \in Socket
        BY <3>1, <3>3, Zenon DEF Client
      <4> QED
        BY <1>7, <4>1
    <3> QED
      BY <3>2, <3>4
  <2>2. sockets' \in [Table -> Socket]
    <3>1. \A j \in Table : sockets'[j] \in Socket
      BY <1>5, <1>8, <2>1
    <3>2. sockets' = [j \in Table |-> sockets'[j]]
      BY <1>4, <1>5
    <3> HIDE DEF Socket
    <3> QED
      BY <3>1, <3>2
  <2>3. SockTypeOK'
    <3>1. next_id' \in 0 .. MaxIds
      BY <1>3
    <3> QED
      BY <1>2, <2>2, <3>1 DEF SockInv, SockTyped, SockTypeOK
  <2>4. ASSUME NEW j \in Taken'
        PROVE  /\ sockets'[j].rx \in Rings /\ sockets'[j].tx \in Rings
               /\ sockets'[j].id \in 1 .. next_id' /\ sockets'[j].peer \in 0 .. next_id'
    <3>1. s.rx \in Rings /\ s.tx \in Rings /\ s.id \in 1 .. next_id
      BY <1>1 DEF SockInv, SockTyped
    <3>2. CASE j = k \/ j = i
      BY <1>3, <1>9, <3>1, <3>2
    <3>3. CASE j # k /\ j # i
      <4>1. j \in Taken /\ sockets'[j] = sockets[j]
        BY <1>8, <1>10, <3>3 DEF Taken
      <4> QED
        BY <1>3, <4>1 DEF SockInv, SockTyped
    <3> QED
      BY <3>2, <3>3
  <2>5. \A t \in SockTasks : sockTask'[t].op = "send" => sockTask'[t].id \in 1 .. next_id'
    BY <1>2, <1>3 DEF SockInv, SockTyped
  <2> QED
    BY <1>2, <2>3, <2>4, <2>5 DEF SockInv, SockTyped
<1>12. ASSUME SockBooks PROVE SockBooks'
  <2>1. \A r : Stream(r)' = Stream(r)
    BY <1>2 DEF Stream
  <2>2. \A t, r : SendsOn(t, r)' <=> SendsOn(t, r)
    BY <1>2 DEF SendsOn
  <2>3. EndTrue(i) /\ s.rx \in Rings /\ s.tx \in Rings /\ s.id \in 1 .. next_id /\ s.peer = 0
    <3>1. EndTrue(i)
      BY <1>1, <1>12 DEF SockBooks
    <3> QED
      BY <1>1, <3>1 DEF EndTrue, SockInv, SockTyped
  <2>4. ASSUME NEW j \in Taken'
        PROVE  EndTrue(j)'
    <3>1. CASE j = k
      <4>1. From(Stream(s.rx), n) /\ Len(Stream(s.rx)) = 0 /\ \A t \in SockTasks : ~SendsOn(t, s.rx)
        BY <1>1, <2>3 DEF EndTrue, From
      <4>2. NotOf(Stream(s.tx), n)
        <5>1. Known(Stream(s.tx))
          BY <1>12, <2>3 DEF SockBooks
        <5> QED
          BY <1>3, <5>1 DEF Known, NotOf
      <4>3. \A t \in SockTasks : SendsOn(t, s.tx) => sockTask[t].id # n
        BY <1>3 DEF SockInv, SockTyped, SendsOn
      <4>4. s.rx # s.tx /\ s.rx \in ringsUsed /\ s.tx \in ringsUsed
        BY <2>3 DEF EndTrue
      <4> QED
        BY <1>2, <1>9, <2>1, <2>2, <3>1, <4>1, <4>2, <4>3, <4>4 DEF EndTrue
    <3>2. CASE j = i
      BY <1>2, <1>9, <2>1, <2>2, <2>3, <3>2 DEF EndTrue
    <3>3. CASE j # k /\ j # i
      <4>1. j \in Taken /\ sockets'[j] = sockets[j]
        BY <1>8, <1>10, <3>3 DEF Taken
      <4>2. EndTrue(j)
        BY <1>12, <4>1 DEF SockBooks
      <4> QED
        BY <1>2, <2>1, <2>2, <4>1, <4>2 DEF EndTrue
    <3> QED
      BY <3>1, <3>2, <3>3
  <2>5. ASSUME NEW j \in Taken, j # i
        PROVE  /\ sockets'[j] = sockets[j] /\ j # k /\ sockets[j].id \in 1 .. next_id /\ sockets[j].peer \in 0 .. next_id
               /\ s.id # sockets[j].id /\ sockets[j].peer # s.id
               /\ s.rx # sockets[j].rx /\ s.rx # sockets[j].tx
               /\ s.tx # sockets[j].rx /\ s.tx # sockets[j].tx
    <3>1. sockets'[j] = sockets[j] /\ j # k /\ sockets[j].id \in 1 .. next_id /\ sockets[j].peer \in 0 .. next_id
      BY <1>1, <1>8, <2>5 DEF Taken, SockInv, SockTyped
    <3>2. Related(i, j) /\ Related(j, i)
      BY <1>1, <1>12, <2>5 DEF SockBooks
    <3>3. s.peer # sockets[j].id
      BY <2>3, <3>1
    <3> QED
      BY <3>1, <3>2, <3>3 DEF Related
  <2>6. ASSUME NEW j \in Taken', NEW l \in Taken', j # l
        PROVE  Related(j, l)'
    <3>1. CASE j \notin {i, k} /\ l \notin {i, k}
      <4>1. j \in Taken /\ l \in Taken
        BY <1>10, <3>1
      <4>2. sockets'[j] = sockets[j] /\ sockets'[l] = sockets[l] /\ Related(j, l)
        BY <1>12, <2>5, <2>6, <3>1, <4>1 DEF SockBooks
      <4> QED
        BY <4>2 DEF Related
    <3>2. CASE j \in {i, k} /\ l \in {i, k}
      <4>1. s.id # n
        BY <1>3, <2>3
      <4> QED
        BY <1>9, <2>6, <3>2, <4>1 DEF Related
    <3>3. CASE j \in {i, k} /\ l \notin {i, k}
      <4>1. l \in Taken
        BY <1>10, <3>3
      <4>2. sockets[l].id # n
        BY <1>3, <2>5, <3>3, <4>1
      <4> QED
        BY <1>9, <2>5, <3>3, <4>1, <4>2 DEF Related
    <3>4. CASE j \notin {i, k} /\ l \in {i, k}
      <4>1. j \in Taken
        BY <1>10, <3>4
      <4>2. sockets[j].id # n /\ sockets[j].peer # n
        BY <1>3, <2>5, <3>4, <4>1
      <4> QED
        BY <1>9, <2>5, <3>4, <4>1, <4>2 DEF Related
    <3> QED
      BY <3>1, <3>2, <3>3, <3>4
  <2>7. ASSUME NEW t \in SockTasks PROVE CallTrue(t)'
    <3>1. CallTrue(t)
      BY <1>12 DEF SockBooks
    <3> QED
      BY <1>2, <2>1, <2>2, <3>1 DEF CallTrue
  <2>8. \A r \in Rings : Whole(Stream(r))' /\ Known(Stream(r))'
    <3>1. ASSUME NEW r \in Rings PROVE Whole(Stream(r))' /\ Known(Stream(r))'
      <4>1. Whole(Stream(r)) /\ Known(Stream(r))
        BY <1>12 DEF SockBooks
      <4>2. Whole(Stream(r))'
        BY <2>1, <4>1 DEF Whole
      <4>3. Known(Stream(r))'
        BY <1>3, <2>1, <4>1 DEF Known
      <4> QED
        BY <4>2, <4>3
    <3> QED
      BY <3>1
  <2> QED
    BY <2>4, <2>6, <2>7, <2>8 DEF SockBooks
<1> QED
  BY <1>2, <1>11, <1>12 DEF SockInv

(* A socket is closed; unless a call was at one of its rings, the others   *)
(* have theirs.                                                            *)
LEMMA SockCloseKeeps ==
  ASSUME SockInv, NEW id \in Ids, SockClose(id)
  PROVE  SockInv'
<1> DEFINE i == Min(Numbered(id))
           freed == IF sockets[i].state = "HOERT" THEN {sockets[i].rx, sockets[i].tx} ELSE {}
<1>1. i \in Taken /\ i \in Table
  BY FoundSocket DEF SockClose, Taken
<1>2. /\ sockets' = [sockets EXCEPT ![i] = SockFree]
      /\ ringsUsed' = ringsUsed \ freed
      /\ pulled' = pulled \cup {r \in freed : \E t \in SockTasks : sockTask[t].ring = r}
      /\ ringBuf' = ringBuf /\ sockTask' = sockTask /\ next_id' = next_id
      /\ messages' = messages /\ readOut' = readOut
  BY DEF SockClose
<1>3. freed \subseteq Rings
  BY <1>1 DEF SockInv, SockTyped
<1>4. sockets'[i] = SockFree /\ \A j \in Table : j # i => sockets'[j] = sockets[j]
  BY <1>1, <1>2 DEF SockInv, SockTyped, SockTypeOK
<1> HIDE DEF i
<1>5. Taken' = Taken \ {i}
  <2>0. SockFree.state = "FREI"
    BY DEF SockFree
  <2>1. sockets'[i].state = "FREI"
    BY <1>4, <2>0
  <2> QED
    BY <1>1, <1>4, <2>1 DEF Taken
<1>6. SockTyped'
  <2> DEFINE Socket == [state : {"FREI", "HOERT", "VERBUNDEN"}, id : 0 .. MaxIds,
                      name : Names \cup {""}, rx : Rings \cup {NoRing},
                      tx : Rings \cup {NoRing}, peer : 0 .. MaxIds]
  <2>1. SockFree \in Socket
    BY UnixSockAssumption DEF SockFree
  <2>2. sockets' \in [Table -> Socket]
    <3>1. sockets \in [Table -> Socket]
      BY DEF SockInv, SockTyped, SockTypeOK
    <3> HIDE DEF Socket
    <3> QED
      BY <1>1, <1>2, <2>1, <3>1
  <2>3. SockTypeOK'
    BY <1>2, <2>2 DEF SockInv, SockTyped, SockTypeOK
  <2>4. \A j \in Taken' : j \in Taken /\ sockets'[j] = sockets[j]
    BY <1>4, <1>5 DEF Taken
  <2> QED
    BY <1>2, <1>3, <2>3, <2>4 DEF SockInv, SockTyped
<1>7. ASSUME SockBooks, pulled' = {} PROVE SockBooks'
  <2>1. \A r : Stream(r)' = Stream(r)
    BY <1>2 DEF Stream
  <2>2. \A t, r : SendsOn(t, r)' <=> SendsOn(t, r)
    BY <1>2 DEF SendsOn
  <2>3. \A t \in SockTasks : sockTask[t].ring \notin freed
    BY <1>2, <1>7
  <2>4. ASSUME NEW j \in Taken'
        PROVE  /\ j \in Taken /\ j # i /\ sockets'[j] = sockets[j]
               /\ sockets[j].rx \notin freed /\ sockets[j].tx \notin freed
    <3>1. j \in Taken /\ j # i /\ sockets'[j] = sockets[j]
      BY <1>4, <1>5 DEF Taken
    <3>2. Related(i, j) /\ EndTrue(i) /\ sockets[j].id \in 1 .. next_id
      BY <1>1, <1>7, <3>1 DEF SockBooks, SockInv, SockTyped
    <3>3. next_id \in Nat
      <4>1. next_id \in 0 .. MaxIds
        BY DEF SockInv, SockTyped, SockTypeOK
      <4> QED
        BY <4>1, UnixSockAssumption
    <3>4. sockets[i].state = "HOERT" => sockets[i].peer # sockets[j].id
      BY <3>2, <3>3 DEF EndTrue
    <3> QED
      BY <3>1, <3>2, <3>4 DEF Related
  <2>5. ASSUME NEW j \in Taken' PROVE EndTrue(j)'
    <3>1. EndTrue(j)
      BY <1>7, <2>4 DEF SockBooks
    <3> HIDE DEF freed
    <3> QED
      BY <1>2, <2>1, <2>2, <2>4, <3>1 DEF EndTrue
  <2>6. ASSUME NEW j \in Taken', NEW l \in Taken', j # l PROVE Related(j, l)'
    <3>1. Related(j, l)
      BY <1>7, <2>4, <2>6 DEF SockBooks
    <3>2. sockets'[j] = sockets[j] /\ sockets'[l] = sockets[l]
      BY <2>4
    <3> QED
      BY <3>1, <3>2 DEF Related
  <2>7. ASSUME NEW t \in SockTasks PROVE CallTrue(t)'
    <3>1. CallTrue(t)
      BY <1>7 DEF SockBooks
    <3> HIDE DEF freed
    <3> QED
      BY <1>2, <2>1, <2>2, <2>3, <3>1 DEF CallTrue
  <2>8. ASSUME NEW r \in Rings PROVE Whole(Stream(r))' /\ Known(Stream(r))'
    <3>1. Whole(Stream(r)) /\ Known(Stream(r))
      BY <1>7 DEF SockBooks
    <3> QED
      BY <1>2, <2>1, <3>1 DEF Whole, Known
  <2> QED
    BY <2>5, <2>6, <2>7, <2>8 DEF SockBooks
<1> QED
  BY <1>2, <1>6, <1>7 DEF SockInv

(* Of open sockets only one sends on a ring, and the one that receives     *)
(* from it is another.                                                     *)
LEMMA OneSender ==
  ASSUME SockInv, SockBooks, NEW i \in Taken, NEW j \in Taken
  PROVE  /\ sockets[i].tx = sockets[j].tx => i = j
         /\ sockets[i].tx = sockets[j].rx => /\ sockets[i].id # sockets[j].id
                                             /\ sockets[j].state # "HOERT"
<1>1. CASE i = j
  BY <1>1 DEF SockBooks, EndTrue
<1>2. CASE i # j
  <2>1. Related(i, j) /\ EndTrue(i) /\ EndTrue(j)
    BY <1>2 DEF SockBooks
  <2>2. sockets[i].id \in 1 .. next_id /\ next_id \in 0 .. MaxIds
    BY DEF SockInv, SockTyped, SockTypeOK
  <2>3. sockets[i].id # 0
    BY <2>2, UnixSockAssumption
  <2>4. sockets[i].tx # sockets[j].tx
    BY <2>1 DEF Related, EndTrue
  <2>5. sockets[i].tx = sockets[j].rx => sockets[j].peer = sockets[i].id
    BY <2>1 DEF Related
  <2> QED
    BY <1>2, <2>1, <2>3, <2>4, <2>5 DEF Related, EndTrue
<1> QED
  BY <1>1, <1>2

(* A task is led to a ring of a socket.                                    *)
LEMMA SockCallKeeps ==
  ASSUME SockInv, NEW t \in SockTasks, NEW id \in Ids, NEW len \in Nat,
         SockSend(t, id, len) \/ SockRecv(t, id, len)
  PROVE  SockInv'
<1>1. PICK i \in Taken : i = Min(Numbered(id)) /\ sockets[i].id = id
  BY FoundSocket DEF SockSend, SockRecv
<1> DEFINE s == sockets[i]
<1>2. /\ sockets' = sockets /\ ringBuf' = ringBuf /\ ringsUsed' = ringsUsed
      /\ next_id' = next_id /\ readOut' = readOut /\ pulled' = pulled
  BY DEF SockSend, SockRecv
<1>3. messages' \in 0 .. MaxMessages
  <2>1. messages \in 0 .. MaxMessages
    BY DEF SockInv, SockTyped, SockTypeOK
  <2>2. CASE SockRecv(t, id, len)
    BY <2>1, <2>2 DEF SockRecv
  <2>3. CASE SockSend(t, id, len)
    <3>1. messages < MaxMessages /\ messages' = messages + 1
      BY <2>3 DEF SockSend
    <3> QED
      BY <2>1, <3>1, UnixSockAssumption
  <2> QED
    BY <2>2, <2>3
<1>4. \E o \in {"send", "recv"}, r \in {s.rx, s.tx}, m \in 0 .. MaxMessages :
        /\ sockTask' = [sockTask EXCEPT ![t] = [op |-> o, ring |-> r, id |-> id, len |-> len, msg |-> m]]
        /\ o = "send" => r = s.tx /\ m \in 1 .. MaxMessages
  <2>1. CASE SockRecv(t, id, len)
    <3>1. sockTask' = [sockTask EXCEPT ![t] = [op |-> "recv", ring |-> s.rx, id |-> id, len |-> len, msg |-> 0]]
      BY <1>1, <2>1 DEF SockRecv
    <3>2. 0 \in 0 .. MaxMessages
      BY UnixSockAssumption
    <3> QED
      BY <3>1, <3>2
  <2>2. CASE SockSend(t, id, len)
    <3>1. sockTask' = [sockTask EXCEPT ![t] = [op |-> "send", ring |-> s.tx, id |-> id, len |-> len, msg |-> messages + 1]]
      BY <1>1, <2>2 DEF SockSend
    <3>2. messages \in 0 .. MaxMessages /\ messages < MaxMessages
      BY <2>2 DEF SockSend, SockInv, SockTyped, SockTypeOK
    <3>3. messages + 1 \in 0 .. MaxMessages /\ messages + 1 \in 1 .. MaxMessages
      BY <3>2, UnixSockAssumption
    <3> HIDE DEF s
    <3> QED
      BY <3>1, <3>3
  <2> QED
    BY <2>1, <2>2
<1>5. PICK o \in {"send", "recv"}, r \in {s.rx, s.tx}, m \in 0 .. MaxMessages :
        /\ sockTask' = [sockTask EXCEPT ![t] = [op |-> o, ring |-> r, id |-> id, len |-> len, msg |-> m]]
        /\ o = "send" => r = s.tx /\ m \in 1 .. MaxMessages
  BY <1>4
<1>6. DOMAIN sockTask = SockTasks
  BY DEF SockInv, SockTyped, SockTypeOK
<1>7. /\ sockTask'[t].op = o /\ sockTask'[t].ring = r /\ sockTask'[t].id = id /\ sockTask'[t].msg = m
      /\ \A u \in SockTasks : u # t => sockTask'[u] = sockTask[u]
  BY <1>5, <1>6
<1>8. s.id \in 1 .. next_id /\ s.rx \in Rings /\ s.tx \in Rings
  BY <1>1 DEF SockInv, SockTyped
<1>9. SockTyped'
  <2> DEFINE Call == [op : {"idle", "send", "recv"}, ring : Rings \cup {NoRing},
                      id : 0 .. MaxIds, len : Nat, msg : 0 .. MaxMessages]
  <2>1. [op |-> o, ring |-> r, id |-> id, len |-> len, msg |-> m] \in Call
    <3>1. id \in 0 .. MaxIds
      BY UnixSockAssumption DEF Ids
    <3>2. o \in {"idle", "send", "recv"} /\ r \in Rings \cup {NoRing}
      BY <1>5, <1>8
    <3> QED
      BY <3>1, <3>2, Zenon
  <2>2. sockTask' \in [SockTasks -> Call]
    <3>1. sockTask \in [SockTasks -> Call]
      BY DEF SockInv, SockTyped, SockTypeOK
    <3> HIDE DEF Call
    <3> QED
      BY <1>5, <2>1, <3>1
  <2>3. SockTypeOK'
    BY <1>2, <1>3, <2>2 DEF SockInv, SockTyped, SockTypeOK
  <2>4. Taken' = Taken
    BY <1>2 DEF Taken
  <2>5. ASSUME NEW u \in SockTasks
        PROVE  /\ sockTask'[u].op # "idle" => sockTask'[u].ring \in Rings
               /\ sockTask'[u].op = "send" => /\ sockTask'[u].id \in 1 .. next_id'
                                              /\ sockTask'[u].msg \in 1 .. MaxMessages
    <3>1. CASE u = t
      BY <1>1, <1>2, <1>5, <1>7, <1>8, <3>1
    <3>2. CASE u # t
      BY <1>2, <1>7, <3>2 DEF SockInv, SockTyped
    <3> QED
      BY <3>1, <3>2
  <2> QED
    BY <1>2, <2>3, <2>4, <2>5 DEF SockInv, SockTyped
<1>10. ASSUME SockBooks PROVE SockBooks'
  <2>1. /\ \A q : Stream(q)' = Stream(q)
        /\ Taken' = Taken
    BY <1>2 DEF Stream, Taken
  <2>2. \A u \in SockTasks : \A q : SendsOn(u, q)' => SendsOn(u, q) \/ (u = t /\ o = "send" /\ q = s.tx)
    BY <1>5, <1>7 DEF SendsOn
  <2>3. EndTrue(i)
    BY <1>1, <1>10 DEF SockBooks
  <2>4. ASSUME NEW j \in Taken PROVE EndTrue(j)'
    <3>1. EndTrue(j)
      BY <1>10 DEF SockBooks
    <3>2. s.tx = sockets[j].tx => i = j
      BY <1>1, <1>10, OneSender
    <3>3. s.tx = sockets[j].rx => s.id # sockets[j].id /\ sockets[j].state # "HOERT"
      BY <1>1, <1>10, OneSender
    <3>4. \A u \in SockTasks : /\ SendsOn(u, sockets[j].tx)' => sockTask'[u].id = sockets[j].id
                               /\ SendsOn(u, sockets[j].rx)' => sockTask'[u].id # sockets[j].id
      <4> SUFFICES ASSUME NEW u \in SockTasks
                   PROVE  /\ SendsOn(u, sockets[j].tx)' => sockTask'[u].id = sockets[j].id
                          /\ SendsOn(u, sockets[j].rx)' => sockTask'[u].id # sockets[j].id
        BY <1>2
      <4>1. CASE u = t
        <5>1. SendsOn(t, sockets[j].tx)' => i = j
          BY <1>2, <1>5, <1>7, <3>2 DEF SendsOn
        <5>2. SendsOn(t, sockets[j].rx)' => s.id # sockets[j].id
          BY <1>2, <1>5, <1>7, <3>3 DEF SendsOn
        <5> QED
          BY <1>1, <1>7, <4>1, <5>1, <5>2
      <4>2. CASE u # t
        <5>1. \A q : SendsOn(u, q)' => SendsOn(u, q)
          BY <2>2, <4>2
        <5>2. sockTask'[u] = sockTask[u]
          BY <1>7, <4>2
        <5> QED
          BY <1>2, <3>1, <5>1, <5>2 DEF EndTrue
      <4> QED
        BY <4>1, <4>2
    <3>5. sockets[j].state = "HOERT" => \A u \in SockTasks : ~SendsOn(u, sockets[j].rx)'
      BY <1>2, <2>2, <3>1, <3>3 DEF EndTrue
    <3> QED
      BY <1>2, <2>1, <3>1, <3>4, <3>5 DEF EndTrue
  <2>5. ASSUME NEW j \in Taken, NEW l \in Taken, j # l PROVE Related(j, l)'
    <3>1. Related(j, l)
      BY <1>10, <2>5 DEF SockBooks
    <3> QED
      BY <1>2, <3>1 DEF Related
  <2>6. ASSUME NEW u \in SockTasks PROVE CallTrue(u)'
    <3>0. s.rx \in ringsUsed /\ s.tx \in ringsUsed /\ From(Stream(s.tx), id)
      BY <1>1, <2>3 DEF EndTrue
    <3>1. \A w \in SockTasks : SendsOn(w, s.tx)' => sockTask'[w].id = id
      <4> SUFFICES ASSUME NEW w \in SockTasks, SendsOn(w, s.tx)' PROVE sockTask'[w].id = id
        BY <1>2
      <4>1. CASE w = t
        BY <1>7, <4>1
      <4>2. CASE w # t
        BY <1>1, <1>2, <1>7, <2>3, <4>2 DEF EndTrue, SendsOn
      <4> QED
        BY <4>1, <4>2
    <3>2. CASE u = t
      <4>1. sockTask'[u].ring \in ringsUsed'
        BY <1>2, <1>7, <3>0, <3>2
      <4>2. sockTask'[u].op = "send" => sockTask'[u].ring = s.tx /\ sockTask'[u].id = id
        BY <1>5, <1>7, <3>2
      <4>3. sockTask'[u].op = "send" => From(Stream(sockTask[u].ring), sockTask[u].id)'
        BY <1>2, <3>0, <4>2 DEF From, Stream
      <4>4. \A w \in SockTasks : sockTask'[u].op = "send" /\ SendsOn(w, sockTask[u].ring)' => sockTask'[w].id = sockTask'[u].id
        BY <1>2, <3>1, <4>2
      <4> QED
        BY <4>1, <4>3, <4>4 DEF CallTrue
    <3>3. CASE u # t
      <4>1. CallTrue(u) /\ sockTask'[u] = sockTask[u]
        BY <1>7, <1>10, <3>3 DEF SockBooks
      <4>2. sockTask[u].op = "send" => SendsOn(u, sockTask[u].ring)
        BY DEF SendsOn
      <4>3. sockTask[u].op = "send" /\ sockTask[u].ring = s.tx => sockTask[u].id = id
        BY <1>1, <2>3, <4>2 DEF EndTrue
      <4>4. ASSUME sockTask[u].op = "send", NEW w \in SockTasks, SendsOn(w, sockTask[u].ring)'
            PROVE  sockTask'[w].id = sockTask[u].id
        <5>0. SendsOn(w, sockTask[u].ring)' <=> sockTask'[w].op = "send" /\ sockTask'[w].ring = sockTask[u].ring
          BY <4>1 DEF SendsOn
        <5>1. CASE sockTask[u].ring = s.tx
          BY <1>2, <3>1, <4>3, <4>4, <5>0, <5>1 DEF SendsOn
        <5>2. CASE sockTask[u].ring # s.tx
          <6>1. w # t
            BY <1>5, <1>7, <4>4, <5>0, <5>2
          <6>2. SendsOn(w, sockTask[u].ring) /\ sockTask'[w] = sockTask[w]
            BY <1>7, <4>4, <5>0, <6>1 DEF SendsOn
          <6> QED
            BY <4>1, <4>4, <6>2 DEF CallTrue
        <5> QED
          BY <5>1, <5>2
      <4> QED
        BY <1>2, <2>1, <4>1, <4>4 DEF CallTrue
    <3> QED
      BY <3>2, <3>3
  <2>7. ASSUME NEW q \in Rings PROVE Whole(Stream(q))' /\ Known(Stream(q))'
    <3>1. Whole(Stream(q)) /\ Known(Stream(q))
      BY <1>10 DEF SockBooks
    <3> QED
      BY <1>2, <2>1, <3>1 DEF Whole, Known
  <2> QED
    BY <2>1, <2>4, <2>5, <2>6, <2>7 DEF SockBooks
<1> QED
  BY <1>2, <1>9, <1>10 DEF SockInv

(* A message goes behind what its end has sent on the ring.                *)
LEMMA SchreibenKeeps ==
  ASSUME SockInv, NEW t \in SockTasks, Schreiben(t)
  PROVE  SockInv'
<1>1. PICK r : r = sockTask[t].ring
  OBVIOUS
<1>2. PICK m : m = Message(t)
  OBVIOUS
<1>3. PICK f, a, n : f = sockTask[t].id /\ a = sockTask[t].msg /\ n = sockTask[t].len
  OBVIOUS
<1>4. /\ sockTask[t].op = "send" /\ Len(ringBuf[r]) + n <= SOCKBUF
      /\ ringBuf' = [ringBuf EXCEPT ![r] = @ \o m]
      /\ sockTask' = [sockTask EXCEPT ![t] = TaskIdle]
      /\ sockets' = sockets /\ ringsUsed' = ringsUsed /\ next_id' = next_id
      /\ messages' = messages /\ readOut' = readOut /\ pulled' = pulled
  BY <1>1, <1>2, <1>3 DEF Schreiben
<1>5. r \in Rings /\ f \in 1 .. next_id /\ a \in 1 .. MaxMessages
  BY <1>1, <1>3, <1>4 DEF SockInv, SockTyped
<1>6. n \in Nat /\ next_id \in 0 .. MaxIds
  BY <1>3 DEF SockInv, SockTyped, SockTypeOK
<1>7. f \in Ids
  BY <1>5, <1>6, UnixSockAssumption DEF Ids
<1>8. m = [i \in 1 .. n |-> [msg |-> a, at |-> i, len |-> n, from |-> f]]
  BY <1>2, <1>3 DEF Message
<1>9. m \in Seq(Bytes) /\ Len(m) = n
  <2>1. \A i \in 1 .. n : [msg |-> a, at |-> i, len |-> n, from |-> f] \in Bytes
    BY <1>5, <1>6, <1>7 DEF Bytes
  <2>2. m \in [1 .. n -> Bytes]
    BY <1>8, <2>1
  <2> QED
    BY <1>6, <2>2
<1>10. ringBuf \in [Rings -> Seq(Bytes)] /\ readOut \in [Rings -> Seq(Bytes)]
  BY DEF SockInv, SockTyped, SockTypeOK
<1>11. ringBuf[r] \o m \in Seq(Bytes) /\ Len(ringBuf[r] \o m) = Len(ringBuf[r]) + n
  BY <1>5, <1>9, <1>10, ConcatProperties
<1>12. /\ ringBuf'[r] = ringBuf[r] \o m /\ \A q \in Rings : q # r => ringBuf'[q] = ringBuf[q]
       /\ sockTask'[t] = TaskIdle /\ \A u \in SockTasks : u # t => sockTask'[u] = sockTask[u]
  <2>1. DOMAIN sockTask = SockTasks
    BY DEF SockInv, SockTyped, SockTypeOK
  <2> QED
    BY <1>4, <1>5, <1>10, <2>1
<1>13. SockTyped'
  <2> DEFINE Call == [op : {"idle", "send", "recv"}, ring : Rings \cup {NoRing},
                      id : 0 .. MaxIds, len : Nat, msg : 0 .. MaxMessages]
  <2>1. TaskIdle \in Call
    BY UnixSockAssumption DEF TaskIdle
  <2>2. sockTask' \in [SockTasks -> Call]
    <3>1. sockTask \in [SockTasks -> Call]
      BY DEF SockInv, SockTyped, SockTypeOK
    <3> HIDE DEF Call
    <3> QED
      BY <1>4, <2>1, <3>1
  <2>3. ringBuf' \in [Rings -> Seq(Bytes)]
    BY <1>4, <1>10, <1>11
  <2>4. \A q \in Rings : Len(ringBuf'[q]) <= SOCKBUF
    <3>1. \A q \in Rings : Len(ringBuf[q]) <= SOCKBUF
      BY DEF SockInv, SockTyped, SockTypeOK
    <3> QED
      BY <1>4, <1>11, <1>12, <3>1
  <2>5. SockTypeOK'
    BY <1>4, <2>2, <2>3, <2>4 DEF SockInv, SockTyped, SockTypeOK
  <2>6. Taken' = Taken
    BY <1>4 DEF Taken
  <2>7. TaskIdle.op = "idle"
    BY DEF TaskIdle
  <2>8. ASSUME NEW u \in SockTasks
        PROVE  /\ sockTask'[u].op # "idle" => sockTask'[u].ring \in Rings
               /\ sockTask'[u].op = "send" => /\ sockTask'[u].id \in 1 .. next_id'
                                              /\ sockTask'[u].msg \in 1 .. MaxMessages
    <3>1. CASE u = t
      BY <1>12, <2>7, <3>1
    <3>2. CASE u # t
      BY <1>4, <1>12, <3>2 DEF SockInv, SockTyped
    <3> QED
      BY <3>1, <3>2
  <2> QED
    BY <1>4, <2>5, <2>6, <2>8 DEF SockInv, SockTyped
<1>14. ASSUME SockBooks PROVE SockBooks'
  <2> DEFINE was(q) == readOut[q] \o ringBuf[q]
             now(q) == readOut'[q] \o ringBuf'[q]
  <2>1. now(r) = was(r) \o m
    <3>1. PICK u \in Seq(Bytes), v \in Seq(Bytes) : u = readOut[r] /\ v = ringBuf[r]
      BY <1>5, <1>10
    <3>2. (u \o v) \o m = u \o (v \o m)
      BY <1>9, ConcatAssociative
    <3> QED
      BY <1>4, <1>12, <3>1, <3>2
  <2>2. \A q \in Rings : q # r => now(q) = was(q)
    BY <1>4, <1>12
  <2>3. \A q : Stream(q) = was(q) /\ Stream(q)' = now(q)
    BY DEF Stream
  <2> HIDE DEF was, now
  <2>4. Taken' = Taken
    BY <1>4 DEF Taken
  <2>5. CallTrue(t) /\ SendsOn(t, r) /\ From(was(r), f)
    BY <1>1, <1>3, <1>4, <1>14, <2>3 DEF SockBooks, CallTrue, SendsOn
  <2>6. Whole(was(r)) /\ Known(was(r)) /\ was(r) \in Seq(Bytes)
    <3>1. Stream(r) \in Seq(Bytes)
      BY <1>5, StreamTyped DEF SockInv
    <3> QED
      BY <1>5, <1>14, <2>3, <3>1 DEF SockBooks
  <2>7. now(r) \in Seq(Bytes) /\ Whole(now(r)) /\ From(now(r), f)
    BY <1>5, <1>6, <1>7, <1>8, <2>1, <2>5, <2>6, WholeAppend, SMTT(30)
  <2>8. \A u \in SockTasks : /\ sockTask'[u].op # "idle" => u # t /\ sockTask'[u] = sockTask[u]
    <3>1. TaskIdle.op = "idle"
      BY DEF TaskIdle
    <3> QED
      BY <1>12, <3>1
  <2>9. ASSUME NEW j \in Taken PROVE EndTrue(j)'
    <3>1. EndTrue(j) /\ sockets[j].rx \in Rings /\ sockets[j].tx \in Rings
      BY <1>14 DEF SockBooks, SockInv, SockTyped
    <3>2. \A u \in SockTasks : \A q : sockTask'[u].op = "send" /\ sockTask'[u].ring = q =>
                                        SendsOn(u, q) /\ sockTask'[u].id = sockTask[u].id
      BY <2>8 DEF SendsOn
    <3>3. From(now(sockets[j].tx), sockets[j].id)
      <4>1. CASE sockets[j].tx = r
        <5>1. f = sockets[j].id
          BY <1>3, <2>5, <3>1, <4>1 DEF EndTrue
        <5> QED
          BY <2>7, <4>1, <5>1
      <4>2. CASE sockets[j].tx # r
        BY <2>2, <2>3, <3>1, <4>2 DEF EndTrue
      <4> QED
        BY <4>1, <4>2
    <3>4. sockets[j].rx = r => sockets[j].state # "HOERT"
      BY <2>5, <3>1 DEF EndTrue
    <3>5. NotOf(now(sockets[j].rx), sockets[j].id)
      <4>1. CASE sockets[j].rx = r
        <5>1. f # sockets[j].id
          BY <1>3, <2>5, <3>1, <4>1 DEF EndTrue
        <5> QED
          BY <2>7, <4>1, <5>1 DEF From, NotOf
      <4>2. CASE sockets[j].rx # r
        BY <2>2, <2>3, <3>1, <4>2 DEF EndTrue
      <4> QED
        BY <4>1, <4>2
    <3>6. sockets[j].state = "HOERT" => Len(now(sockets[j].rx)) = 0
      BY <2>2, <2>3, <3>1, <3>4 DEF EndTrue
    <3> QED
      BY <1>4, <2>3, <3>1, <3>2, <3>3, <3>5, <3>6 DEF EndTrue, SendsOn
  <2>10. ASSUME NEW j \in Taken, NEW l \in Taken, j # l PROVE Related(j, l)'
    <3>1. Related(j, l)
      BY <1>14, <2>10 DEF SockBooks
    <3> QED
      BY <1>4, <3>1 DEF Related
  <2>11. ASSUME NEW u \in SockTasks PROVE CallTrue(u)'
    <3> SUFFICES ASSUME sockTask'[u].op # "idle" PROVE CallTrue(u)'
      BY DEF CallTrue
    <3>1. PICK q : q = sockTask[u].ring
      OBVIOUS
    <3>2. sockTask'[u] = sockTask[u] /\ u # t /\ CallTrue(u) /\ q \in Rings /\ q \in ringsUsed
      BY <1>14, <2>8, <3>1 DEF SockBooks, CallTrue, SockInv, SockTyped
    <3>3. ASSUME sockTask[u].op = "send" PROVE From(now(q), sockTask[u].id)
      <4>1. CASE q = r
        <5>1. sockTask[u].id = f
          BY <1>1, <1>3, <1>4, <2>5, <3>1, <3>3, <4>1 DEF CallTrue, SendsOn
        <5> QED
          BY <2>7, <4>1, <5>1
      <4>2. CASE q # r
        BY <2>2, <2>3, <3>1, <3>2, <3>3, <4>2 DEF CallTrue
      <4> QED
        BY <4>1, <4>2
    <3>4. ASSUME sockTask[u].op = "send", NEW w \in SockTasks, sockTask'[w].op = "send", sockTask'[w].ring = q
          PROVE  sockTask'[w].id = sockTask[u].id
      <4>1. sockTask'[w] = sockTask[w] /\ SendsOn(w, q)
        BY <2>8, <3>4 DEF SendsOn
      <4> QED
        BY <3>1, <3>2, <3>4, <4>1 DEF CallTrue
    <3> QED
      BY <1>4, <2>3, <3>1, <3>2, <3>3, <3>4 DEF CallTrue, SendsOn
  <2>12. ASSUME NEW q \in Rings PROVE Whole(Stream(q))' /\ Known(Stream(q))'
    <3>1. CASE q = r
      <4>1. Known(now(q))
        BY <1>5, <2>7, <3>1 DEF Known, From
      <4> QED
        BY <1>4, <2>3, <2>7, <3>1, <4>1 DEF Whole, Known
    <3>2. CASE q # r
      <4>1. Whole(Stream(q)) /\ Known(Stream(q)) /\ Stream(q)' = Stream(q)
        BY <1>14, <2>2, <2>3, <3>2 DEF SockBooks
      <4> QED
        BY <1>4, <4>1 DEF Whole, Known
    <3> QED
      BY <3>1, <3>2
  <2> QED
    BY <2>4, <2>9, <2>10, <2>11, <2>12 DEF SockBooks
<1> QED
  BY <1>4, <1>13, <1>14 DEF SockInv

(* What is read moves from the ring to what was read.                      *)
LEMMA LesenKeeps ==
  ASSUME SockInv, NEW t \in SockTasks, Lesen(t)
  PROVE  SockInv'
<1>1. PICK r : r = sockTask[t].ring
  OBVIOUS
<1>2. PICK n : n = IF Len(ringBuf[r]) < sockTask[t].len THEN Len(ringBuf[r]) ELSE sockTask[t].len
  OBVIOUS
<1>3. /\ sockTask[t].op = "recv"
      /\ readOut' = [readOut EXCEPT ![r] = @ \o SubSeq(ringBuf[r], 1, n)]
      /\ ringBuf' = [ringBuf EXCEPT ![r] = SubSeq(@, n + 1, Len(@))]
      /\ sockTask' = [sockTask EXCEPT ![t] = TaskIdle]
      /\ sockets' = sockets /\ ringsUsed' = ringsUsed /\ next_id' = next_id
      /\ messages' = messages /\ pulled' = pulled
  BY <1>1, <1>2 DEF Lesen
<1>4. r \in Rings
  BY <1>1, <1>3 DEF SockInv, SockTyped
<1>5. ringBuf \in [Rings -> Seq(Bytes)] /\ readOut \in [Rings -> Seq(Bytes)] /\ sockTask[t].len \in Nat
  BY DEF SockInv, SockTyped, SockTypeOK
<1>6. PICK b \in Seq(Bytes) : b = ringBuf[r]
  BY <1>4, <1>5
<1>7. n \in 0 .. Len(b) /\ Len(b) \in Nat
  BY <1>2, <1>5, <1>6
<1>8. /\ SubSeq(b, 1, n) \in Seq(Bytes) /\ SubSeq(b, n + 1, Len(b)) \in Seq(Bytes)
      /\ Len(SubSeq(b, n + 1, Len(b))) <= Len(b)
  <2>1. \A i \in 1 .. Len(b) : b[i] \in Bytes
    BY <1>6, ElementOfSeq
  <2>2. SubSeq(b, 1, n) \in Seq(Bytes)
    <3>1. \A i \in 1 .. n : b[i] \in Bytes
      BY <1>7, <2>1
    <3>2. 1 \in Int /\ n \in Int
      BY <1>7
    <3> QED
      BY <3>1, <3>2, SubSeqProperties
  <2>3. /\ SubSeq(b, n + 1, Len(b)) \in Seq(Bytes)
        /\ Len(SubSeq(b, n + 1, Len(b))) = IF n + 1 <= Len(b) THEN Len(b) - (n + 1) + 1 ELSE 0
    <3>1. \A i \in n + 1 .. Len(b) : b[i] \in Bytes
      BY <1>7, <2>1
    <3>2. n + 1 \in Int /\ Len(b) \in Int
      BY <1>7
    <3> QED
      BY <3>1, <3>2, SubSeqProperties
  <2> QED
    BY <1>7, <2>2, <2>3
<1>9. SubSeq(b, 1, n) \o SubSeq(b, n + 1, Len(b)) = b
  <2>1. /\ 1 \in 1 .. Len(b) + 1 /\ n \in 1 - 1 .. Len(b) /\ Len(b) \in n .. Len(b)
    BY <1>7
  <2>2. SubSeq(b, 1, n) \o SubSeq(b, n + 1, Len(b)) = SubSeq(b, 1, Len(b))
    BY <1>6, <2>1, ConcatAdjacentSubSeq
  <2> QED
    BY <1>6, <2>2, SubSeqFull
<1>10. /\ ringBuf'[r] = SubSeq(b, n + 1, Len(b)) /\ readOut'[r] = readOut[r] \o SubSeq(b, 1, n)
       /\ \A q \in Rings : q # r => ringBuf'[q] = ringBuf[q] /\ readOut'[q] = readOut[q]
       /\ sockTask'[t] = TaskIdle /\ \A u \in SockTasks : u # t => sockTask'[u] = sockTask[u]
  <2>1. DOMAIN sockTask = SockTasks
    BY DEF SockInv, SockTyped, SockTypeOK
  <2>2. /\ ringBuf'[r] = SubSeq(b, n + 1, Len(b))
        /\ \A q \in Rings : q # r => ringBuf'[q] = ringBuf[q]
    BY <1>3, <1>4, <1>5, <1>6
  <2>3. /\ readOut'[r] = readOut[r] \o SubSeq(b, 1, n)
        /\ \A q \in Rings : q # r => readOut'[q] = readOut[q]
    BY <1>3, <1>4, <1>5, <1>6
  <2> QED
    BY <1>3, <2>1, <2>2, <2>3
<1>11. ASSUME NEW q \in Rings PROVE Stream(q)' = Stream(q)
  <2>1. CASE q = r
    <3>1. readOut'[r] \o ringBuf'[r] = readOut[r] \o (SubSeq(b, 1, n) \o SubSeq(b, n + 1, Len(b)))
      <4>1. PICK u \in Seq(Bytes), v \in Seq(Bytes), w \in Seq(Bytes) :
              u = readOut[r] /\ v = SubSeq(b, 1, n) /\ w = SubSeq(b, n + 1, Len(b))
        BY <1>4, <1>5, <1>8
      <4>2. (u \o v) \o w = u \o (v \o w)
        BY ConcatAssociative
      <4> QED
        BY <1>10, <4>1, <4>2
    <3> QED
      BY <1>6, <1>9, <2>1, <3>1 DEF Stream
  <2>2. CASE q # r
    BY <1>10, <2>2 DEF Stream
  <2> QED
    BY <2>1, <2>2
<1>12. \A u \in SockTasks : /\ sockTask'[u].op # "idle" => u # t /\ sockTask'[u] = sockTask[u]
  <2>1. TaskIdle.op = "idle"
    BY DEF TaskIdle
  <2> QED
    BY <1>10, <2>1
<1>13. SockTyped'
  <2> DEFINE Call == [op : {"idle", "send", "recv"}, ring : Rings \cup {NoRing},
                      id : 0 .. MaxIds, len : Nat, msg : 0 .. MaxMessages]
  <2>1. TaskIdle \in Call
    BY UnixSockAssumption DEF TaskIdle
  <2>2. sockTask' \in [SockTasks -> Call]
    <3>1. sockTask \in [SockTasks -> Call]
      BY DEF SockInv, SockTyped, SockTypeOK
    <3> HIDE DEF Call
    <3> QED
      BY <1>3, <2>1, <3>1
  <2>3. ringBuf' \in [Rings -> Seq(Bytes)]
    BY <1>3, <1>5, <1>6, <1>8
  <2>4. readOut' \in [Rings -> Seq(Bytes)]
    <3>1. readOut[r] \o SubSeq(b, 1, n) \in Seq(Bytes)
      BY <1>4, <1>5, <1>8, ConcatProperties
    <3> QED
      BY <1>3, <1>5, <1>6, <3>1
  <2>5. \A q \in Rings : Len(ringBuf'[q]) <= SOCKBUF
    <3>1. \A q \in Rings : Len(ringBuf[q]) <= SOCKBUF
      BY DEF SockInv, SockTyped, SockTypeOK
    <3>2. Len(SubSeq(b, n + 1, Len(b))) \in Nat
      BY <1>8, LenProperties
    <3>3. Len(ringBuf'[r]) <= SOCKBUF
      BY <1>4, <1>6, <1>7, <1>8, <1>10, <3>1, <3>2, UnixSockAssumption
    <3> QED
      BY <1>10, <3>1, <3>3
  <2>6. SockTypeOK'
    BY <1>3, <2>2, <2>3, <2>5 DEF SockInv, SockTyped, SockTypeOK
  <2>7. Taken' = Taken
    BY <1>3 DEF Taken
  <2>8. ASSUME NEW u \in SockTasks
        PROVE  /\ sockTask'[u].op # "idle" => sockTask'[u].ring \in Rings
               /\ sockTask'[u].op = "send" => /\ sockTask'[u].id \in 1 .. next_id'
                                              /\ sockTask'[u].msg \in 1 .. MaxMessages
    BY <1>3, <1>12 DEF SockInv, SockTyped
  <2> QED
    BY <1>3, <2>4, <2>6, <2>7, <2>8 DEF SockInv, SockTyped
<1>14. ASSUME SockBooks PROVE SockBooks'
  <2>1. Taken' = Taken
    BY <1>3 DEF Taken
  <2>2. \A u \in SockTasks : \A q : sockTask'[u].op = "send" /\ sockTask'[u].ring = q =>
                                      SendsOn(u, q) /\ sockTask'[u].id = sockTask[u].id
    BY <1>12 DEF SendsOn
  <2> DEFINE was(q) == readOut[q] \o ringBuf[q]
             now(q) == readOut'[q] \o ringBuf'[q]
  <2>3. \A q : Stream(q) = was(q) /\ Stream(q)' = now(q)
    BY DEF Stream
  <2>4. \A q \in Rings : now(q) = was(q)
    BY <1>11, <2>3
  <2> HIDE DEF was, now
  <2>5. ASSUME NEW j \in Taken PROVE EndTrue(j)'
    <3>1. EndTrue(j) /\ sockets[j].rx \in Rings /\ sockets[j].tx \in Rings
      BY <1>14 DEF SockBooks, SockInv, SockTyped
    <3> QED
      BY <1>3, <2>2, <2>3, <2>4, <3>1 DEF EndTrue, SendsOn
  <2>6. ASSUME NEW j \in Taken, NEW l \in Taken, j # l PROVE Related(j, l)'
    <3>1. Related(j, l)
      BY <1>14, <2>6 DEF SockBooks
    <3> QED
      BY <1>3, <3>1 DEF Related
  <2>7. ASSUME NEW u \in SockTasks PROVE CallTrue(u)'
    <3> SUFFICES ASSUME sockTask'[u].op # "idle" PROVE CallTrue(u)'
      BY DEF CallTrue
    <3>1. sockTask'[u] = sockTask[u] /\ CallTrue(u) /\ sockTask[u].ring \in Rings
      BY <1>12, <1>14 DEF SockBooks, SockInv, SockTyped
    <3> QED
      BY <1>3, <2>2, <2>3, <2>4, <3>1 DEF CallTrue, SendsOn
  <2>8. ASSUME NEW q \in Rings PROVE Whole(Stream(q))' /\ Known(Stream(q))'
    <3>1. Whole(Stream(q)) /\ Known(Stream(q)) /\ Stream(q)' = Stream(q)
      BY <1>11, <1>14 DEF SockBooks
    <3> QED
      BY <1>3, <3>1 DEF Whole, Known
  <2> QED
    BY <2>1, <2>5, <2>6, <2>7, <2>8 DEF SockBooks
<1> QED
  BY <1>3, <1>13, <1>14 DEF SockInv

LEMMA SockGoesOn ==
  ASSUME SockInv, [SockNext]_sockVars
  PROVE  SockInv'
<1>1. CASE UNCHANGED sockVars
  <2>1. Taken' = Taken
    BY <1>1 DEF Taken, sockVars
  <2>2. \A q : Stream(q)' = Stream(q)
    BY <1>1 DEF Stream, sockVars
  <2>3. SockTyped'
    BY <1>1, <2>1 DEF SockInv, SockTyped, SockTypeOK, sockVars
  <2>4. ASSUME SockBooks PROVE SockBooks'
    <3>1. \A i \in Taken : EndTrue(i)'
      BY <1>1, <2>4 DEF SockBooks, EndTrue, SendsOn, Stream, From, NotOf, sockVars
    <3>2. \A i, j \in Taken : i # j => Related(i, j)'
      BY <1>1, <2>4 DEF SockBooks, Related, Stream, From, NotOf, sockVars
    <3>3. \A t \in SockTasks : CallTrue(t)'
      BY <1>1, <2>4 DEF SockBooks, CallTrue, SendsOn, Stream, From, NotOf, sockVars
    <3>4. \A r \in Rings : Whole(Stream(r))' /\ Known(Stream(r))'
      BY <1>1, <2>4 DEF SockBooks, Whole, Known, Stream, sockVars
    <3> QED
      BY <2>1, <3>1, <3>2, <3>3, <3>4 DEF SockBooks
  <2> QED
    BY <1>1, <2>3, <2>4 DEF SockInv, sockVars
<1>2. CASE \E n \in Names : SockCreate(n) \/ SockConnect(n)
  BY <1>2, SockCreateKeeps, SockConnectKeeps
<1>3. CASE \E id \in Ids : SockClose(id)
  BY <1>3, SockCloseKeeps
<1>4. CASE \E t \in SockTasks, id \in Ids :
             (\E len \in SendLens : SockSend(t, id, len)) \/ (\E len \in RecvLens : SockRecv(t, id, len))
  <2>1. \E t \in SockTasks, id \in Ids, len \in Nat : SockSend(t, id, len) \/ SockRecv(t, id, len)
    BY <1>4, UnixSockAssumption
  <2> QED
    BY <2>1, SockCallKeeps
<1>5. CASE \E t \in SockTasks : Schreiben(t) \/ Lesen(t)
  BY <1>5, SchreibenKeeps, LesenKeeps
<1> QED
  BY <1>1, <1>2, <1>3, <1>4, <1>5 DEF SockNext

LEMMA SockPromises == SockInv => SockTypeOK /\ MessagesWhole
<1> SUFFICES ASSUME SockInv, pulled = {} PROVE MessagesWhole
  BY DEF SockInv, SockTyped, MessagesWhole
<1>1. SockBooks
  BY DEF SockInv
<1>2. ASSUME NEW r \in Rings, NEW i \in DOMAIN Stream(r)
      PROVE  /\ Stream(r)[i].from = Stream(r)[1].from
             /\ Stream(r)[i].at > 1 => i > 1 /\ Stream(r)[i - 1] = [Stream(r)[i] EXCEPT !.at = @ - 1]
             /\ Stream(r)[i].at < Stream(r)[i].len => i < Len(Stream(r))
  <2>1. Stream(r) \in Seq(Bytes)
    BY StreamTyped DEF SockInv
  <2>2. i \in 1 .. Len(Stream(r)) /\ Whole(Stream(r))
    BY <1>1, <2>1 DEF SockBooks
  <2> QED
    BY <2>2 DEF Whole
<1>3. ASSUME NEW i \in Taken
      PROVE  /\ {sockets[i].rx, sockets[i].tx} \subseteq ringsUsed
             /\ \A j \in Taken \ {i} :
                  IF sockets[i].peer = sockets[j].id
                  THEN sockets[j].peer = sockets[i].id /\ sockets[i].rx = sockets[j].tx
                       /\ sockets[i].tx = sockets[j].rx
                  ELSE {sockets[i].rx, sockets[i].tx} \cap {sockets[j].rx, sockets[j].tx} = {}
             /\ \A b \in ToSet(Stream(sockets[i].rx)) : b.from # sockets[i].id
  <2>1. EndTrue(i) /\ sockets[i].rx \in Rings
    BY <1>1 DEF SockBooks, SockInv, SockTyped
  <2>2. ASSUME NEW j \in Taken \ {i}
        PROVE  IF sockets[i].peer = sockets[j].id
               THEN sockets[j].peer = sockets[i].id /\ sockets[i].rx = sockets[j].tx
                    /\ sockets[i].tx = sockets[j].rx
               ELSE {sockets[i].rx, sockets[i].tx} \cap {sockets[j].rx, sockets[j].tx} = {}
    <3>1. Related(i, j)
      BY <1>1 DEF SockBooks
    <3> QED
      BY <3>1 DEF Related
  <2>3. \A b \in ToSet(Stream(sockets[i].rx)) : b.from # sockets[i].id
    <3>1. PICK q \in Seq(Bytes) : q = Stream(sockets[i].rx)
      BY <2>1, StreamTyped DEF SockInv
    <3>2. NotOf(q, sockets[i].id)
      BY <2>1, <3>1 DEF EndTrue
    <3> QED
      BY <3>1, <3>2 DEF NotOf, ToSet
  <2> QED
    BY <2>1, <2>2, <2>3 DEF EndTrue
<1> QED
  BY <1>2, <1>3 DEF MessagesWhole

-----------------------------------------------------------------------------
(* The environment *)

EnvVars == [used : BOOLEAN, key : ShortKeys \cup {""}, val : EnvValues \cup {""}]

(* Keys that no long key was stored under.                                 *)
PlainKeys == ShortKeys \ {Cut[l] : l \in LongKeys}

(* A plain key is in one entry, which holds the value that was last set.   *)
EnvKept(k) ==
  /\ \A i, j \in Found(k) : i = j
  /\ \A i \in Found(k) : envTable[i].val = latest[k]
  /\ Found(k) = {} => latest[k] = ""

EnvInv == EnvTypeOK /\ \A k \in PlainKeys : EnvKept(k)

LEMMA EnvFound ==
  /\ \A k : Found(k) # {} => Min(Found(k)) \in Found(k)
  /\ Unused # {} => Min(Unused) \in Unused
<1>1. \A k : Found(k) \subseteq Nat
  BY EnvAssumption DEF Found, EnvAll
<1>2. Unused \subseteq Nat
  BY EnvAssumption DEF Unused, EnvAll
<1> QED
  BY <1>1, <1>2, MinFacts

LEMMA EnvBegins ==
  ASSUME EnvInit PROVE EnvInv
<1>1. NoVar \in EnvVars /\ ~NoVar.used
  BY DEF NoVar, EnvVars
<1>2. EnvTypeOK
  BY <1>1, Zenon DEF EnvInit, EnvTypeOK, EnvVars
<1>3. \A k : Found(k) = {}
  BY <1>1 DEF EnvInit, Found
<1>4. \A k \in PlainKeys : latest[k] = ""
  BY DEF EnvInit, PlainKeys
<1> QED
  BY <1>2, <1>3, <1>4 DEF EnvInv, EnvKept

LEMMA EnvSetKeeps ==
  ASSUME EnvInv, NEW key \in Keys, NEW val \in EnvValues, EnvSet(key, val)
  PROVE  EnvInv'
<1>0. /\ envTable \in [EnvAll -> EnvVars] /\ latest \in [ShortKeys -> EnvValues \cup {""}]
      /\ \A i \in EnvAll : envTable[i].key \in ShortKeys \cup {""}
  BY DEF EnvInv, EnvTypeOK, EnvVars
<1>1. CASE Found(key) # {}
  <2>1. PICK i \in Found(key) : i = Min(Found(key))
    BY <1>1, EnvFound
  <2>2. /\ envTable' = [envTable EXCEPT ![i].val = val] /\ latest' = [latest EXCEPT ![key] = val]
    BY <1>1, <2>1 DEF EnvSet
  <2>3. i \in EnvAll /\ envTable[i].used /\ envTable[i].key = key
    BY <2>1 DEF Found
  <2>4. envTable[i] \in EnvVars
    BY <1>0, <2>3
  <2>5. [envTable[i] EXCEPT !.val = val] \in EnvVars
    BY <2>4 DEF EnvVars
  <2>6. /\ envTable'[i].val = val /\ envTable'[i].used = envTable[i].used /\ envTable'[i].key = envTable[i].key
        /\ \A j \in EnvAll : j # i => envTable'[j] = envTable[j]
    <3>1. envTable'[i] = [envTable[i] EXCEPT !.val = val] /\ \A j \in EnvAll : j # i => envTable'[j] = envTable[j]
      BY <1>0, <2>2, <2>3
    <3> QED
      BY <2>4, <3>1 DEF EnvVars
  <2>7. EnvTypeOK'
    <3>1. envTable' \in [EnvAll -> EnvVars]
      BY <1>0, <2>2, <2>3, <2>5
    <3>2. latest' \in [ShortKeys -> EnvValues \cup {""}]
      BY <1>0, <2>2
    <3> QED
      BY <3>1, <3>2 DEF EnvTypeOK, EnvVars
  <2>8. \A k : Found(k)' = Found(k)
    BY <2>3, <2>6 DEF Found
  <2>9. ASSUME NEW k \in PlainKeys
        PROVE  /\ \A a, b \in Found(k) : a = b
               /\ \A a \in Found(k) : envTable'[a].val = latest'[k]
               /\ Found(k) = {} => latest'[k] = ""
    <3>0. EnvKept(k)
      BY DEF EnvInv
    <3>1. k \in ShortKeys
      BY DEF PlainKeys
    <3>2. CASE k = key
      <4>1. latest'[k] = val
        BY <1>0, <2>2, <3>1, <3>2
      <4> QED
        BY <1>1, <2>1, <2>6, <3>0, <3>2, <4>1 DEF EnvKept
    <3>3. CASE k # key
      <4>1. latest'[k] = latest[k]
        BY <1>0, <2>2, <3>1, <3>3
      <4>2. \A a \in Found(k) : a # i /\ a \in EnvAll
        BY <2>3, <3>3 DEF Found
      <4> QED
        BY <2>6, <3>0, <4>1, <4>2 DEF EnvKept
    <3> QED
      BY <3>2, <3>3
  <2> QED
    BY <2>7, <2>8, <2>9 DEF EnvInv, EnvKept
<1>2. CASE Found(key) = {}
  <2>0. Unused # {}
    BY <1>2 DEF EnvSet
  <2>1. PICK i \in Unused : i = Min(Unused)
    BY <2>0, EnvFound
  <2>2. /\ envTable' = [envTable EXCEPT ![i] = [used |-> TRUE, key |-> StoredKey(key), val |-> val]]
        /\ latest' = IF key \in LongKeys THEN latest ELSE [latest EXCEPT ![key] = val]
    BY <1>2, <2>1 DEF EnvSet
  <2>3. i \in EnvAll /\ ~envTable[i].used
    BY <2>1 DEF Unused
  <2>4. StoredKey(key) \in ShortKeys /\ (key \in LongKeys => StoredKey(key) \notin PlainKeys)
        /\ (key \notin LongKeys => key \in ShortKeys /\ StoredKey(key) = key)
    BY EnvAssumption DEF StoredKey, PlainKeys, Keys
  <2>5. [used |-> TRUE, key |-> StoredKey(key), val |-> val] \in EnvVars
    BY <2>4 DEF EnvVars
  <2>6. /\ envTable'[i].val = val /\ envTable'[i].used /\ envTable'[i].key = StoredKey(key)
        /\ \A j \in EnvAll : j # i => envTable'[j] = envTable[j]
    <3>1. envTable'[i] = [used |-> TRUE, key |-> StoredKey(key), val |-> val]
          /\ \A j \in EnvAll : j # i => envTable'[j] = envTable[j]
      BY <1>0, <2>2, <2>3
    <3> QED
      BY <3>1
  <2>7. EnvTypeOK'
    <3>1. envTable' \in [EnvAll -> EnvVars]
      BY <1>0, <2>2, <2>3, <2>5
    <3>2. latest' \in [ShortKeys -> EnvValues \cup {""}]
      BY <1>0, <2>2
    <3> QED
      BY <3>1, <3>2 DEF EnvTypeOK, EnvVars
  <2>8. \A k : Found(k)' = IF k = StoredKey(key) THEN Found(k) \cup {i} ELSE Found(k)
    BY <2>3, <2>6 DEF Found
  <2>9. ASSUME NEW k \in PlainKeys
        PROVE  /\ \A a, b \in Found(k)' : a = b
               /\ \A a \in Found(k)' : envTable'[a].val = latest'[k]
               /\ Found(k)' = {} => latest'[k] = ""
    <3>0. EnvKept(k)
      BY DEF EnvInv
    <3>1. k \in ShortKeys
      BY DEF PlainKeys
    <3>2. CASE k = StoredKey(key)
      <4>1. key \notin LongKeys /\ k = key
        BY <2>4, <3>2
      <4>2. Found(k)' = {i}
        BY <1>2, <2>8, <3>2, <4>1
      <4>3. latest'[k] = val
        BY <1>0, <2>2, <3>1, <4>1
      <4> QED
        BY <2>6, <4>2, <4>3
    <3>3. CASE k # StoredKey(key)
      <4>1. latest'[k] = latest[k]
        BY <1>0, <2>2, <2>4, <3>1, <3>3
      <4>2. Found(k)' = Found(k)
        BY <2>8, <3>3
      <4>3. \A a \in Found(k) : a # i /\ a \in EnvAll
        BY <2>3 DEF Found
      <4> QED
        BY <2>6, <3>0, <4>1, <4>2, <4>3 DEF EnvKept
    <3> QED
      BY <3>2, <3>3
  <2> QED
    BY <2>7, <2>9 DEF EnvInv, EnvKept
<1> QED
  BY <1>1, <1>2

LEMMA EnvUnsetKeeps ==
  ASSUME EnvInv, NEW key \in Keys, EnvUnset(key)
  PROVE  EnvInv'
<1>0. /\ envTable \in [EnvAll -> EnvVars] /\ latest \in [ShortKeys -> EnvValues \cup {""}]
  BY DEF EnvInv, EnvTypeOK, EnvVars
<1>1. PICK i \in Found(key) : i = Min(Found(key))
  BY EnvFound DEF EnvUnset
<1>2. /\ envTable' = [envTable EXCEPT ![i] = NoVar] /\ latest' = [latest EXCEPT ![key] = ""]
  BY <1>1 DEF EnvUnset
<1>3. i \in EnvAll /\ envTable[i].used /\ envTable[i].key = key
  BY <1>1 DEF Found
<1>4. NoVar \in EnvVars /\ ~NoVar.used
  BY DEF NoVar, EnvVars
<1>5. ~envTable'[i].used /\ \A j \in EnvAll : j # i => envTable'[j] = envTable[j]
  BY <1>0, <1>2, <1>3, <1>4
<1>6. EnvTypeOK'
  <2>1. envTable' \in [EnvAll -> EnvVars]
    BY <1>0, <1>2, <1>3, <1>4
  <2>2. latest' \in [ShortKeys -> EnvValues \cup {""}]
    BY <1>0, <1>2
  <2> QED
    BY <2>1, <2>2 DEF EnvTypeOK, EnvVars
<1>7. \A k : Found(k)' = Found(k) \ {i}
  BY <1>3, <1>5 DEF Found
<1>8. ASSUME NEW k \in PlainKeys
      PROVE  /\ \A a, b \in Found(k)' : a = b
             /\ \A a \in Found(k)' : envTable'[a].val = latest'[k]
             /\ Found(k)' = {} => latest'[k] = ""
  <2>0. EnvKept(k)
    BY DEF EnvInv
  <2>1. k \in ShortKeys
    BY DEF PlainKeys
  <2>2. CASE k = key
    <3>1. Found(k)' = {}
      BY <1>1, <1>7, <2>0, <2>2 DEF EnvKept
    <3>2. latest'[k] = ""
      BY <1>0, <1>2, <2>1, <2>2
    <3> QED
      BY <3>1, <3>2
  <2>3. CASE k # key
    <3>1. latest'[k] = latest[k]
      BY <1>0, <1>2, <2>1, <2>3
    <3>2. \A a \in Found(k) : a # i /\ a \in EnvAll
      BY <1>3, <2>3 DEF Found
    <3>3. Found(k)' = Found(k)
      BY <1>7, <3>2
    <3> QED
      BY <1>5, <2>0, <3>1, <3>2, <3>3 DEF EnvKept
  <2> QED
    BY <2>2, <2>3
<1> QED
  BY <1>6, <1>8 DEF EnvInv, EnvKept

LEMMA EnvGoesOn ==
  ASSUME EnvInv, [EnvNext]_envVars
  PROVE  EnvInv'
<1>1. CASE UNCHANGED envVars
  <2>1. EnvTypeOK'
    BY <1>1 DEF EnvInv, EnvTypeOK, envVars
  <2>2. ASSUME NEW k \in PlainKeys PROVE EnvKept(k)'
    <3>1. EnvKept(k)
      BY DEF EnvInv
    <3> QED
      BY <1>1, <3>1 DEF EnvKept, Found, envVars
  <2> QED
    BY <2>1, <2>2 DEF EnvInv
<1> QED
  BY <1>1, EnvSetKeeps, EnvUnsetKeeps DEF EnvNext

LEMMA EnvPromises == EnvInv => EnvTypeOK /\ LastSetWins
<1> SUFFICES ASSUME EnvInv, NEW k \in PlainKeys PROVE Cardinality(Found(k)) <= 1 /\ EnvGet(k) = latest[k]
  BY DEF EnvInv, LastSetWins, PlainKeys
<1>0. EnvKept(k)
  BY DEF EnvInv
<1>1. CASE Found(k) = {}
  <2>1. Cardinality(Found(k)) = 0
    BY <1>1, FS_EmptySet
  <2>2. EnvGet(k) = latest[k]
    BY <1>0, <1>1 DEF EnvKept, EnvGet
  <2> QED
    BY <2>1, <2>2
<1>2. CASE Found(k) # {}
  <2>1. PICK i \in Found(k) : i = Min(Found(k))
    BY <1>2, EnvFound
  <2>2. Found(k) = {i}
    BY <1>0, <2>1 DEF EnvKept
  <2>3. Cardinality(Found(k)) = 1
    BY <2>2, FS_Singleton
  <2>4. EnvGet(k) = latest[k]
    BY <1>0, <1>2, <2>1 DEF EnvKept, EnvGet
  <2> QED
    BY <2>3, <2>4
<1> QED
  BY <1>1, <1>2


-----------------------------------------------------------------------------
(* Partition tables *)

(* The places of a set in ascending order, none twice.                     *)
ListsIn(s, T) == Range(s) = T /\ Ascending(s)

LEMMA AscendingExists ==
  \A n \in Nat : \A T \in SUBSET (1 .. n) : \E s \in [1 .. Cardinality(T) -> T] : ListsIn(s, T)
<1> DEFINE Has(T) == \E s \in [1 .. Cardinality(T) -> T] : ListsIn(s, T)
           Good == {n \in Nat : \A T \in SUBSET (1 .. n) : Has(T)}
<1>1. Has({})
  <2>1. Cardinality({}) = 0
    BY FS_EmptySet
  <2>2. PICK s : s = [i \in 1 .. 0 |-> 0]
    OBVIOUS
  <2>3. DOMAIN s = {}
    BY <2>2
  <2>4. s \in [1 .. Cardinality({}) -> {}]
    BY <2>1, <2>2
  <2>5. Range(s) = {} /\ Ascending(s)
    BY <2>3 DEF Range, Ascending
  <2> QED
    BY <2>4, <2>5 DEF ListsIn
<1>2. 0 \in Good
  <2>1. \A T \in SUBSET (1 .. 0) : T = {}
    OBVIOUS
  <2> HIDE DEF Has
  <2> QED
    BY <1>1, <2>1
<1>3. ASSUME NEW n \in Nat, \A T \in SUBSET (1 .. n) : Has(T), NEW T \in SUBSET (1 .. n + 1)
      PROVE  Has(T)
  <2>1. CASE n + 1 \notin T
    <3>1. T \in SUBSET (1 .. n)
      BY <2>1
    <3> QED
      BY <1>3, <3>1
  <2>2. CASE n + 1 \in T
    <3>1. PICK U : U = T \ {n + 1}
      OBVIOUS
    <3>2. U \in SUBSET (1 .. n) /\ T = U \cup {n + 1} /\ n + 1 \notin U
      BY <2>2, <3>1
    <3>3. IsFiniteSet(U) /\ Cardinality(U) \in Nat
      <4>1. n \in Nat
        OBVIOUS
      <4>2. IsFiniteSet(1 .. n)
        BY <4>1, FS_Interval
      <4>3. IsFiniteSet(U)
        BY <3>2, <4>2, FS_Subset
      <4> QED
        BY <4>3, FS_CardinalityType
    <3>4. Cardinality(T) = Cardinality(U) + 1
      BY <3>2, <3>3, FS_AddElement
    <3>5. PICK u \in [1 .. Cardinality(U) -> U] : ListsIn(u, U)
      BY <1>3, <3>2
    <3>6. PICK c \in Nat : c = Cardinality(U)
      BY <3>3
    <3>7. PICK s : s = [i \in 1 .. c + 1 |-> IF i = c + 1 THEN n + 1 ELSE u[i]]
      OBVIOUS
    <3>8. s \in [1 .. Cardinality(T) -> T]
      <4>1. \A i \in 1 .. c + 1 : i # c + 1 => i \in 1 .. c
        BY <3>6
      <4>2. \A i \in 1 .. c : u[i] \in T
        BY <3>2, <3>5, <3>6
      <4>3. n + 1 \in T
        BY <2>2
      <4>4. s \in [1 .. c + 1 -> T]
        BY <4>1, <4>2, <4>3, <3>7
      <4> QED
        BY <4>4, <3>4, <3>6
    <3>9. Range(s) = T
      <4>1. Range(u) = U
        BY <3>5 DEF ListsIn
      <4>2. ASSUME NEW x \in T PROVE \E i \in 1 .. c + 1 : s[i] = x
        <5>1. CASE x = n + 1
          BY <5>1, <3>7, <3>6
        <5>2. CASE x \in U
          <6>1. PICK i \in 1 .. c : u[i] = x
            BY <4>1, <3>5, <3>6, <5>2 DEF Range
          <6>2. i \in 1 .. c + 1 /\ i # c + 1
            BY <3>6
          <6>3. s[i] = u[i]
            BY <6>2, <3>7
          <6> QED
            BY <6>1, <6>2, <6>3
        <5> QED
          BY <5>1, <5>2, <3>2
      <4>3. DOMAIN s = 1 .. c + 1
        BY <3>7
      <4>4. \A i \in 1 .. c + 1 : s[i] \in T
        BY <3>8, <3>4, <3>6
      <4> QED
        BY <4>2, <4>3, <4>4 DEF Range
    <3>10. Ascending(s)
      <4> SUFFICES ASSUME NEW i \in 1 .. c + 1, NEW j \in 1 .. c + 1, i < j PROVE s[i] < s[j]
        BY <3>7 DEF Ascending
      <4>0. i \in 1 .. c /\ i # c + 1
        BY <3>6
      <4>1. s[i] = u[i] /\ u[i] \in U /\ U \subseteq 1 .. n
        BY <4>0, <3>2, <3>5, <3>6, <3>7
      <4>2. CASE j = c + 1
        <5>1. s[j] = n + 1
          BY <3>7, <4>2
        <5>2. u[i] \in 1 .. n
          BY <4>1
        <5> QED
          BY <4>1, <5>1, <5>2
      <4>3. CASE j # c + 1
        <5>1. j \in 1 .. c /\ s[j] = u[j]
          BY <3>6, <3>7, <4>3
        <5>2. \A x, y \in 1 .. c : x < y => u[x] < u[y]
          BY <3>5, <3>6 DEF ListsIn, Ascending
        <5> QED
          BY <4>0, <4>1, <5>1, <5>2
      <4> QED
        BY <4>2, <4>3
    <3> QED
      BY <3>8, <3>9, <3>10 DEF ListsIn
  <2> QED
    BY <2>1, <2>2
<1>4. \A n \in Nat : n \in Good => n + 1 \in Good
  <2> HIDE DEF Has
  <2> QED
    BY <1>3
<1> HIDE DEF Good
<1>5. \A n \in Nat : n \in Good
  BY <1>2, <1>4, Induction
<1> QED
  BY <1>5 DEF Good

LEMMA NonemptyFacts ==
  ASSUME NEW n \in Nat, NEW T \in SUBSET (1 .. n)
  PROVE  /\ Cardinality(T) \in 0 .. n
         /\ Nonempty(T) \in [1 .. Cardinality(T) -> T]
         /\ Range(Nonempty(T)) = T /\ Ascending(Nonempty(T))
<1>1. \E s \in [1 .. Cardinality(T) -> T] : Range(s) = T /\ Ascending(s)
  BY AscendingExists DEF ListsIn
<1>2. Cardinality(T) \in 0 .. n
  <2>1. IsFiniteSet(1 .. n) /\ Cardinality(1 .. n) = n
    BY FS_Interval
  <2>2. Cardinality(T) \in Nat /\ Cardinality(T) <= Cardinality(1 .. n)
    BY <2>1, FS_Subset, FS_CardinalityType
  <2> QED
    BY <2>1, <2>2
<1> QED
  BY <1>1, <1>2 DEF Nonempty

PartRecord ==
  /\ partJob.disk \in PartDisks /\ partJob.phase \in {"mbr", "header", "entries", "ok", "failed"}
  /\ partJob.isGpt \in BOOLEAN
  /\ partJob = [disk |-> partJob.disk, phase |-> partJob.phase, isGpt |-> partJob.isGpt, parts |-> partJob.parts]

PartInv ==
  /\ PartRecord
  /\ partJob.phase = "mbr" => ~partJob.isGpt
  /\ partJob.phase \in {"header", "entries"} =>
       partJob.isGpt /\ \E i \in 1 .. 4 : partJob.disk.types[i] = "gpt"
  /\ PartTrue

LEMMA PartBegins ==
  ASSUME PartInit
  PROVE  PartInv
<1>1. PICK d \in PartDisks : partJob = [disk |-> d, phase |-> "mbr", isGpt |-> FALSE, parts |-> <<>>]
  BY DEF PartInit
<1>2. partJob.phase = "mbr" /\ partJob.isGpt = FALSE /\ partJob.disk = d /\ partJob.parts = <<>>
  BY <1>1
<1>3. PartRecord
  BY <1>1, <1>2 DEF PartRecord
<1> QED
  BY <1>2, <1>3 DEF PartInv, PartTrue

(* Where the entries fit the sectors, all of them are in the buffer.       *)
LEMMA BufferHolds ==
  ASSUME PartRecord
  PROVE  /\ MaxEntries \in Nat /\ MaxEntries <= PART_MAX
         /\ MaxEntries = IF Len(partJob.disk.entries) <= PART_MAX THEN Len(partJob.disk.entries) ELSE PART_MAX
         /\ MaxEntries * partJob.disk.esize <= ENTRYSECTORS * ENTRYSECTOR => InBuffer = MaxEntries
<1>1. /\ partJob.disk.esize \in Nat \ {0} /\ Len(partJob.disk.entries) \in Nat
      /\ PART_MAX \in Nat /\ ENTRYSECTORS \in Nat \ {0} /\ ENTRYSECTOR \in Nat \ {0}
  <2>1. GptHeader(partJob.disk) /\ GptEntries(partJob.disk)
    BY DrivesAssumption DEF PartRecord
  <2>2. Len(partJob.disk.entries) \in Nat
    BY <2>1, LenProperties DEF GptEntries
  <2> QED
    BY <2>1, <2>2, DrivesAssumption DEF GptHeader
<1>2. ASSUME NEW a \in Nat, NEW b \in Nat PROVE Min({a, b}) = IF a <= b THEN a ELSE b
  <2>1. Min({a, b}) \in {a, b} /\ \A x \in {a, b} : Min({a, b}) <= x
    BY MinFacts
  <2> QED
    BY <2>1
<1>3. PICK m \in Nat, e \in Nat \ {0}, s \in Nat \ {0}, t \in Nat \ {0} :
        m = MaxEntries /\ e = partJob.disk.esize /\ s = ENTRYSECTOR /\ t = ENTRYSECTORS
  <2>1. MaxEntries \in Nat
    BY <1>1, <1>2 DEF MaxEntries
  <2> QED
    BY <2>1, <1>1
<1>4. MaxEntries <= PART_MAX /\ MaxEntries = IF Len(partJob.disk.entries) <= PART_MAX THEN Len(partJob.disk.entries) ELSE PART_MAX
  BY <1>1, <1>2 DEF MaxEntries
<1>5. ASSUME m * e <= t * s PROVE InBuffer = m
  <2>1. PICK c \in Nat : c = (m * e + s - 1) \div s
    <3>1. m * e + s - 1 \in Nat
      <4>1. m * e \in Nat
        OBVIOUS
      <4> QED
        BY <4>1
    <3> QED
      BY <3>1
  <2>2. c * s >= m * e /\ c * s <= m * e + s - 1
    <3>1. PICK x \in Nat : x = m * e
      OBVIOUS
    <3>2. c = (x + s - 1) \div s /\ x + s - 1 \in Nat
      BY <2>1, <3>1
    <3>3. x + s - 1 = s * c + ((x + s - 1) % s) /\ (x + s - 1) % s \in 0 .. s - 1
      BY <3>2
    <3>4. s * c = c * s /\ c * s \in Nat
      OBVIOUS
    <3> QED
      BY <3>1, <3>3, <3>4
  <2>3. SectorsNeeded = IF c <= t THEN c ELSE t
    BY <1>2, <1>3, <2>1 DEF SectorsNeeded
  <2>4. PICK k \in Nat : k = SectorsNeeded
    BY <2>3
  <2>5. k * s >= m * e
    BY <1>5, <2>2, <2>3, <2>4
  <2>6. PICK f \in Nat : f = (k * s) \div e
    <3>1. k * s \in Nat
      OBVIOUS
    <3> QED
      BY <3>1
  <2>7. f >= m
    <3>1. PICK y \in Nat : y = k * s
      OBVIOUS
    <3>2. y = e * f + (y % e) /\ y % e \in 0 .. e - 1
      BY <2>6, <3>1
    <3>3. m * e < e * (f + 1)
      <4>1. e * (f + 1) = e * f + e /\ e * f \in Nat /\ m * e \in Nat
        OBVIOUS
      <4> QED
        BY <2>5, <3>1, <3>2, <4>1
    <3>4. ~(m >= f + 1)
      <4> SUFFICES ASSUME m >= f + 1 PROVE FALSE
        OBVIOUS
      <4>1. m * e >= (f + 1) * e
        OBVIOUS
      <4>2. (f + 1) * e = e * (f + 1) /\ e * (f + 1) \in Nat /\ m * e \in Nat
        OBVIOUS
      <4> QED
        BY <3>3, <4>1, <4>2
    <3> QED
      BY <3>4
  <2>8. InBuffer = Min({m, f})
    BY <1>3, <2>4, <2>6 DEF InBuffer
  <2> QED
    BY <1>2, <2>7, <2>8
<1> QED
  BY <1>3, <1>4, <1>5

LEMMA NonemptyListed ==
  ASSUME NEW n \in Nat, NEW T \in SUBSET (1 .. n), NEW s, s = Nonempty(T)
  PROVE  Len(s) <= n /\ Range(s) = T /\ \A i \in 1 .. Len(s) - 1 : s[i] < s[i + 1]
<1>1. PICK c \in 0 .. n : c = Cardinality(T)
  BY NonemptyFacts
<1>2. s \in [1 .. c -> T] /\ Range(s) = T /\ Ascending(s)
  BY <1>1, NonemptyFacts
<1>3. Len(s) = c
  BY <1>2
<1>4. \A i \in 1 .. c - 1 : i \in 1 .. c /\ i + 1 \in 1 .. c
  BY <1>1
<1> QED
  BY <1>2, <1>3, <1>4 DEF Ascending

LEMMA PartEnds ==
  ASSUME PartRecord, NEW phase \in {"header", "entries", "ok", "failed"}, Ends(phase)
  PROVE  /\ PartRecord' /\ partJob'.phase = phase /\ partJob'.disk = partJob.disk
         /\ partJob'.isGpt = partJob.isGpt /\ partJob'.parts = partJob.parts
<1>1. PICK d, i, p : partJob = [disk |-> d, phase |-> partJob.phase, isGpt |-> i, parts |-> p]
                     /\ d \in PartDisks /\ i \in BOOLEAN
  BY DEF PartRecord
<1>2. partJob' = [disk |-> d, phase |-> phase, isGpt |-> i, parts |-> p]
  BY <1>1 DEF Ends
<1>3. partJob'.phase = phase /\ partJob'.disk = d /\ partJob'.isGpt = i /\ partJob'.parts = p
  BY <1>2
<1>4. partJob.disk = d /\ partJob.isGpt = i /\ partJob.parts = p
  BY <1>1
<1> QED
  BY <1>1, <1>2, <1>3, <1>4 DEF PartRecord

LEMMA PartMbrKeeps ==
  ASSUME PartInv, PartMbr
  PROVE  PartInv'
<1>1. PartRecord /\ partJob.phase = "mbr" /\ ~partJob.isGpt
  BY DEF PartInv, PartMbr
<1>2. PICK d, p : partJob = [disk |-> d, phase |-> "mbr", isGpt |-> FALSE, parts |-> p]
                  /\ d \in PartDisks /\ partJob.disk = d /\ partJob.isGpt = FALSE
  BY <1>1 DEF PartRecord
<1>3. BootRecord(d) /\ DOMAIN d.types = 1 .. 4
  <2>1. BootRecord(d)
    BY <1>2, DrivesAssumption
  <2> QED
    BY <2>1, LenProperties DEF BootRecord
<1>4. "gpt" \in Range(d.types) <=> \E i \in 1 .. 4 : d.types[i] = "gpt"
  BY <1>3 DEF Range
<1>5. CASE Ends("failed")
  <2>1. PartRecord' /\ partJob'.phase = "failed"
    BY <1>1, <1>5, PartEnds
  <2> QED
    BY <2>1 DEF PartInv, PartTrue
<1>6. CASE "gpt" \in Range(d.types) /\ partJob' = [partJob EXCEPT !.isGpt = TRUE, !.phase = "header"]
  <2>1. partJob' = [disk |-> d, phase |-> "header", isGpt |-> TRUE, parts |-> p]
    BY <1>2, <1>6
  <2>2. partJob'.phase = "header" /\ partJob'.disk = d /\ partJob'.isGpt = TRUE /\ partJob'.parts = p
    BY <2>1
  <2>3. PartRecord'
    BY <1>2, <2>1, <2>2 DEF PartRecord
  <2> QED
    BY <1>4, <1>6, <2>2, <2>3 DEF PartInv, PartTrue
<1>7. CASE /\ "gpt" \notin Range(d.types)
           /\ partJob' = [partJob EXCEPT !.parts = Nonempty({i \in DOMAIN d.types : d.types[i] # "empty"}), !.phase = "ok"]
  <2>1. PICK s : s = Nonempty({i \in 1 .. 4 : d.types[i] # "empty"})
    OBVIOUS
  <2>2. partJob' = [disk |-> d, phase |-> "ok", isGpt |-> FALSE, parts |-> s]
    BY <1>2, <1>3, <1>7, <2>1
  <2>3. partJob'.phase = "ok" /\ partJob'.disk = d /\ partJob'.isGpt = FALSE /\ partJob'.parts = s
    BY <2>2
  <2>4. PartRecord'
    BY <1>2, <2>2, <2>3 DEF PartRecord
  <2>5. /\ Len(s) <= 4 /\ Range(s) = {i \in 1 .. 4 : d.types[i] # "empty"}
        /\ \A i \in 1 .. Len(s) - 1 : s[i] < s[i + 1]
    <3>1. PICK T \in SUBSET (1 .. 4) : T = {i \in 1 .. 4 : d.types[i] # "empty"}
      OBVIOUS
    <3>2. s = Nonempty(T) /\ 4 \in Nat
      BY <2>1, <3>1
    <3>3. Len(s) <= 4 /\ Range(s) = T /\ \A i \in 1 .. Len(s) - 1 : s[i] < s[i + 1]
      BY <3>2, NonemptyListed
    <3> QED
      BY <3>1, <3>3, Zenon
  <2>6. Len(s) <= PART_MAX
    <3>1. Len(s) \in Nat
      <4>1. {i \in 1 .. 4 : d.types[i] # "empty"} \in SUBSET (1 .. 4)
        OBVIOUS
      <4>2. PICK c \in 0 .. 4 : c = Cardinality({i \in 1 .. 4 : d.types[i] # "empty"})
        BY <4>1, NonemptyFacts
      <4>3. s \in [1 .. c -> {i \in 1 .. 4 : d.types[i] # "empty"}]
        BY <2>1, <4>1, <4>2, NonemptyFacts
      <4> QED
        BY <4>3
    <3>2. PICK l \in Nat : l = Len(s)
      BY <3>1
    <3> QED
      BY <2>5, <3>2, DrivesAssumption
  <2>7. PartTrue'
    BY <1>4, <1>7, <2>3, <2>5, <2>6 DEF PartTrue
  <2> QED
    BY <2>3, <2>4, <2>7 DEF PartInv
<1> QED
  BY <1>2, <1>5, <1>6, <1>7 DEF PartMbr

LEMMA PartEntriesKeeps ==
  ASSUME PartInv, PartEntries
  PROVE  PartInv'
<1>1. PartRecord /\ partJob.phase = "entries" /\ partJob.isGpt
      /\ \E i \in 1 .. 4 : partJob.disk.types[i] = "gpt"
  BY DEF PartInv, PartEntries
<1>2. PICK d, p : partJob = [disk |-> d, phase |-> "entries", isGpt |-> TRUE, parts |-> p]
                  /\ d \in PartDisks /\ partJob.disk = d /\ partJob.isGpt = TRUE
  BY <1>1 DEF PartRecord
<1>3. PICK m \in Nat : m = MaxEntries
  BY <1>1, BufferHolds
<1> DEFINE Seen(b) == [i \in 1 .. MaxEntries |-> IF i <= InBuffer THEN partJob.disk.entries[i] ELSE b[i]]
<1>4. PICK beyond \in [InBuffer + 1 .. MaxEntries -> BOOLEAN] :
        partJob' = [partJob EXCEPT !.parts = Nonempty({i \in DOMAIN Seen(beyond) : Seen(beyond)[i]}), !.phase = "ok"]
  BY DEF PartEntries
<1>17. PICK seen : seen = Seen(beyond)
  OBVIOUS
<1>18. seen = [i \in 1 .. m |-> IF i <= InBuffer THEN d.entries[i] ELSE beyond[i]]
  BY <1>2, <1>3, <1>17
<1>16. partJob' = [partJob EXCEPT !.parts = Nonempty({i \in DOMAIN seen : seen[i]}), !.phase = "ok"]
  <2> HIDE DEF Seen
  <2> QED
    BY <1>4, <1>17
<1>5. PICK T : T = {i \in 1 .. m : IF i <= InBuffer THEN d.entries[i] ELSE beyond[i]}
  OBVIOUS
<1>6. {i \in DOMAIN seen : seen[i]} = T
  BY <1>18, <1>5
<1>7. PICK s : s = Nonempty(T)
  OBVIOUS
<1>8. partJob' = [disk |-> d, phase |-> "ok", isGpt |-> TRUE, parts |-> s]
  BY <1>2, <1>16, <1>6, <1>7
<1>9. partJob'.phase = "ok" /\ partJob'.disk = d /\ partJob'.isGpt = TRUE /\ partJob'.parts = s
  BY <1>8
<1>10. PartRecord'
  BY <1>2, <1>8, <1>9 DEF PartRecord
<1>11. Len(s) <= m /\ Range(s) = T /\ (\A i \in 1 .. Len(s) - 1 : s[i] < s[i + 1]) /\ Len(s) \in Nat
  <2>1. T \in SUBSET (1 .. m)
    BY <1>5
  <2>2. PICK c \in 0 .. m : c = Cardinality(T)
    BY <2>1, NonemptyFacts
  <2>3. s \in [1 .. c -> T]
    BY <1>7, <2>1, <2>2, NonemptyFacts
  <2>4. Len(s) \in Nat
    BY <2>3
  <2> QED
    BY <1>7, <2>1, <2>4, NonemptyListed
<1>12. Len(s) <= PART_MAX
  <2>1. m <= PART_MAX
    BY <1>1, <1>3, BufferHolds
  <2>2. PICK l \in Nat : l = Len(s)
    BY <1>11
  <2> QED
    BY <1>11, <2>1, <2>2, DrivesAssumption
<1>13. MaxEntries' = m
  BY <1>2, <1>3, <1>9 DEF MaxEntries
<1>14. ASSUME m * d.esize <= ENTRYSECTORS * ENTRYSECTOR
       PROVE  T = {i \in 1 .. Len(d.entries) : i <= PART_MAX /\ d.entries[i]}
  <2>1. InBuffer = m
    BY <1>1, <1>2, <1>3, <1>14, BufferHolds
  <2>2. T = {i \in 1 .. m : d.entries[i]}
    BY <1>3, <1>5, <2>1
  <2>3. m = IF Len(d.entries) <= PART_MAX THEN Len(d.entries) ELSE PART_MAX
    BY <1>1, <1>2, <1>3, BufferHolds
  <2>4. Len(d.entries) \in Nat
    <3>1. GptEntries(d)
      BY <1>2, DrivesAssumption
    <3> QED
      BY <3>1, LenProperties DEF GptEntries
  <2>5. PICK l \in Nat : l = Len(d.entries)
    BY <2>4
  <2>6. \A i : i \in 1 .. m <=> i \in 1 .. l /\ i <= PART_MAX
    BY <2>3, <2>5, DrivesAssumption
  <2> QED
    BY <2>2, <2>5, <2>6
<1>15. PartTrue'
  <2>1. PICK e : e = MaxEntries'
    OBVIOUS
  <2> QED
    BY <1>1, <1>2, <1>9, <1>11, <1>12, <1>13, <1>14 DEF PartTrue
<1> QED
  BY <1>9, <1>10, <1>15 DEF PartInv

LEMMA PartGoesOn ==
  ASSUME PartInv, [PartNext]_partJob
  PROVE  PartInv'
<1>0. PartRecord
  BY DEF PartInv
<1>1. CASE PartHeader
  <2>1. PICK phase \in {"entries", "failed"} : Ends(phase)
    BY <1>1 DEF PartHeader
  <2>2. /\ PartRecord' /\ partJob'.phase = phase /\ partJob'.disk = partJob.disk
        /\ partJob'.isGpt = partJob.isGpt
    BY <1>0, <2>1, PartEnds
  <2>3. partJob.isGpt /\ \E i \in 1 .. 4 : partJob.disk.types[i] = "gpt"
    BY <1>1 DEF PartHeader, PartInv
  <2> QED
    BY <2>1, <2>2, <2>3 DEF PartInv, PartTrue
<1>2. CASE PartFails
  <2>1. PartRecord' /\ partJob'.phase = "failed"
    BY <1>0, <1>2, PartEnds DEF PartFails
  <2> QED
    BY <2>1 DEF PartInv, PartTrue
<1>3. CASE UNCHANGED partJob
  <2>1. MaxEntries' = MaxEntries
    BY <1>3 DEF MaxEntries
  <2>2. PartTrue'
    BY <1>3, <2>1 DEF PartInv, PartTrue
  <2>3. PartRecord'
    BY <1>0, <1>3 DEF PartRecord
  <2> QED
    BY <1>3, <2>2, <2>3 DEF PartInv
<1> QED
  BY <1>1, <1>2, <1>3, PartMbrKeeps, PartEntriesKeeps DEF PartNext

-----------------------------------------------------------------------------
(* The IDE channel *)

IdeJobs == [phase : {"idle", "command", "data", "flush", "ok", "failed"}, op : {"none", "read", "write"},
            drive : IdeDrives, lba : Lbas, count : Nat, s : Nat, got : Seq(IdeValues), alone : BOOLEAN]

(* Where a call is, of the sectors it was asked for.                       *)
JobOrder(job) ==
  /\ job.s <= job.count
  /\ job.phase \in {"command", "data"} =>
       job.s < job.count /\ job.op \in {"read", "write"} /\ job.lba + job.count - 1 \in Lbas
  /\ job.phase = "command" => job.s = 0 /\ job.got = <<>>
  /\ job.phase \in {"flush", "ok"} => job.s = job.count /\ job.op \in {"read", "write"}
                                      /\ job.lba + job.count - 1 \in Lbas

(* The sectors that a call has behind it are where they belong.            *)
Moved(job, t, disk) ==
  IF job.op = "read" THEN job.got = [i \in 1 .. job.s |-> disk[job.drive][job.lba + i - 1]]
  ELSE \A i \in 0 .. job.s - 1 : disk[job.drive][job.lba + i] = TaskWrites[t]

(* A call that is alone finds in the channel what it has put there, and in *)
(* the drive its own command.                                              *)
Undisturbed(job, t, reg, dev, disk) ==
  job.alone =>
    /\ job.phase = "command" => reg = [drive |-> job.drive, lba |-> job.lba, count |-> job.count]
    /\ job.phase = "data" => dev = [cmd |-> job.op, drive |-> job.drive, lba |-> job.lba + job.s,
                                    left |-> job.count - job.s]
    /\ job.phase \in {"data", "flush", "ok"} => Moved(job, t, disk)

IdeTyped ==
  /\ ideReg \in [drive : IdeDrives, lba : Lbas, count : Nat]
  /\ ideDev \in [cmd : {"none", "read", "write"}, drive : IdeDrives, lba : Lbas, left : Int]
  /\ ideDisk \in [IdeDrives -> [Lbas -> IdeValues]]
  /\ ideJob \in [IdeTasks -> IdeJobs]

IdeInv ==
  /\ IdeTyped
  /\ \A t \in IdeTasks : JobOrder(ideJob[t]) /\ Undisturbed(ideJob[t], t, ideReg, ideDev, ideDisk)

LEMMA LbasFacts ==
  \E n \in Nat \ {0} : Cardinality(Lbas) = n /\ Lbas = 0 .. n - 1
BY DrivesAssumption

LEMMA IdleJob ==
  /\ IdeIdle \in IdeJobs /\ JobOrder(IdeIdle)
  /\ IdeIdle.phase = "idle"
<1>1. 0 \in Lbas
  BY LbasFacts
<1>2. <<>> \in Seq(IdeValues)
  OBVIOUS
<1> QED
  BY <1>1, <1>2, DrivesAssumption DEF IdeIdle, IdeJobs, JobOrder

LEMMA IdeBegins ==
  ASSUME IdeInit
  PROVE  IdeInv
<1>0. 0 \in Lbas /\ 0 \in IdeDrives
  BY LbasFacts, DrivesAssumption
<1>1. \A t \in IdeTasks : ideJob[t] = IdeIdle
  BY DEF IdeInit
<1>2. ideJob \in [IdeTasks -> IdeJobs]
  BY IdleJob DEF IdeInit
<1>3. ideReg \in [drive : IdeDrives, lba : Lbas, count : Nat]
  BY <1>0 DEF IdeInit
<1>4. ideDev \in [cmd : {"none", "read", "write"}, drive : IdeDrives, lba : Lbas, left : Int]
  BY <1>0 DEF IdeInit, NoCommand
<1>5. ideDisk \in [IdeDrives -> [Lbas -> IdeValues]]
  <2>1. (CHOOSE v \in IdeValues : TRUE) \in IdeValues
    BY DrivesAssumption
  <2> QED
    BY <2>1 DEF IdeInit
<1>6. \A t \in IdeTasks : JobOrder(ideJob[t]) /\ Undisturbed(ideJob[t], t, ideReg, ideDev, ideDisk)
  BY <1>1, IdleJob DEF Undisturbed
<1> QED
  BY <1>2, <1>3, <1>4, <1>5, <1>6 DEF IdeInv, IdeTyped

(* The calls of the others are not alone afterwards, or are over.          *)
LEMMA OthersNoted ==
  ASSUME IdeInv, NEW t \in IdeTasks, NEW job \in IdeJobs, JobOrder(job), ideJob' = Noted(t, job),
         NEW b \in BOOLEAN, NEW mine, mine = [job EXCEPT !.alone = b],
         b = (job.alone /\ \A w \in IdeTasks \ {t} : ~Calling(w)),
         Undisturbed(mine, t, ideReg', ideDev', ideDisk')
  PROVE  /\ ideJob' \in [IdeTasks -> IdeJobs]
         /\ \A u \in IdeTasks : JobOrder(ideJob'[u]) /\ Undisturbed(ideJob'[u], u, ideReg', ideDev', ideDisk')
<1>1. mine \in IdeJobs /\ JobOrder(mine)
  <2>1. mine \in IdeJobs
    BY DEF IdeJobs
  <2>2. /\ mine.phase = job.phase /\ mine.op = job.op /\ mine.drive = job.drive /\ mine.lba = job.lba
        /\ mine.count = job.count /\ mine.s = job.s /\ mine.got = job.got
    BY DEF IdeJobs
  <2> QED
    BY <2>1, <2>2 DEF JobOrder
<1>2. ideJob'[t] = mine
  BY DEF Noted
<1>3. ASSUME NEW u \in IdeTasks, u # t
      PROVE  ideJob'[u] \in IdeJobs /\ JobOrder(ideJob'[u]) /\ Undisturbed(ideJob'[u], u, ideReg', ideDev', ideDisk')
  <2>1. ideJob[u] \in IdeJobs /\ JobOrder(ideJob[u])
    BY DEF IdeInv, IdeTyped
  <2>2. CASE Calling(u)
    <3>1. PICK j : j = [ideJob[u] EXCEPT !.alone = FALSE]
      OBVIOUS
    <3>2. ideJob'[u] = j
      BY <1>3, <2>2, <3>1 DEF Noted
    <3>3. j \in IdeJobs /\ j.alone = FALSE
      BY <2>1, <3>1 DEF IdeJobs
    <3>4. /\ j.phase = ideJob[u].phase /\ j.op = ideJob[u].op /\ j.drive = ideJob[u].drive /\ j.lba = ideJob[u].lba
          /\ j.count = ideJob[u].count /\ j.s = ideJob[u].s /\ j.got = ideJob[u].got
      BY <2>1, <3>1 DEF IdeJobs
    <3>5. JobOrder(j)
      BY <2>1, <3>4 DEF JobOrder
    <3> QED
      BY <3>2, <3>3, <3>5 DEF Undisturbed
  <2>3. CASE ~Calling(u)
    <3>1. ideJob'[u] = IdeIdle
      BY <1>3, <2>3 DEF Noted
    <3> QED
      BY <3>1, IdleJob DEF Undisturbed
  <2> QED
    BY <2>2, <2>3
<1>4. ideJob' = [u \in IdeTasks |-> ideJob'[u]]
  BY DEF Noted
<1>5. \A u \in IdeTasks : ideJob'[u] \in IdeJobs
  BY <1>1, <1>2, <1>3
<1> QED
  BY <1>1, <1>2, <1>3, <1>4, <1>5

(* What an assignment to one field leaves of a call.                       *)
LEMMA JobEdits ==
  ASSUME NEW p, NEW o, NEW d, NEW l, NEW n, NEW k, NEW g, NEW a, NEW r, NEW x,
         r = [phase |-> p, op |-> o, drive |-> d, lba |-> l, count |-> n, s |-> k, got |-> g, alone |-> a]
  PROVE  /\ [r EXCEPT !.phase = x] =
              [phase |-> x, op |-> o, drive |-> d, lba |-> l, count |-> n, s |-> k, got |-> g, alone |-> a]
         /\ [r EXCEPT !.op = x] =
              [phase |-> p, op |-> x, drive |-> d, lba |-> l, count |-> n, s |-> k, got |-> g, alone |-> a]
         /\ [r EXCEPT !.drive = x] =
              [phase |-> p, op |-> o, drive |-> x, lba |-> l, count |-> n, s |-> k, got |-> g, alone |-> a]
         /\ [r EXCEPT !.lba = x] =
              [phase |-> p, op |-> o, drive |-> d, lba |-> x, count |-> n, s |-> k, got |-> g, alone |-> a]
         /\ [r EXCEPT !.count = x] =
              [phase |-> p, op |-> o, drive |-> d, lba |-> l, count |-> x, s |-> k, got |-> g, alone |-> a]
         /\ [r EXCEPT !.s = x] =
              [phase |-> p, op |-> o, drive |-> d, lba |-> l, count |-> n, s |-> x, got |-> g, alone |-> a]
         /\ [r EXCEPT !.got = x] =
              [phase |-> p, op |-> o, drive |-> d, lba |-> l, count |-> n, s |-> k, got |-> x, alone |-> a]
OBVIOUS

(* A call, its fields named.                                               *)
LEMMA JobFields ==
  ASSUME IdeInv, NEW t \in IdeTasks
  PROVE  \E p, o, g : \E d \in IdeDrives, l \in Lbas, n \in Nat, k \in Nat, a \in BOOLEAN :
           /\ ideJob[t] = [phase |-> p, op |-> o, drive |-> d, lba |-> l, count |-> n, s |-> k, got |-> g, alone |-> a]
           /\ g \in Seq(IdeValues) /\ k <= n
<1>1. ideJob[t] \in IdeJobs /\ JobOrder(ideJob[t])
  BY DEF IdeInv, IdeTyped
<1>2. ideJob[t].s <= ideJob[t].count
  BY <1>1 DEF JobOrder
<1> QED
  BY <1>1, <1>2 DEF IdeJobs

(* A call whose next phase moves nothing.                                  *)
LEMMA IdeCallKeeps ==
  ASSUME IdeInv, NEW t \in IdeTasks, NEW o \in {"read", "write"}, NEW d \in IdeDrives, NEW l \in Lbas,
         NEW n \in 1 .. 2, IdeCall(t, o, d, l, n)
  PROVE  IdeInv'
<1>1. PICK job : job = [phase |-> "command", op |-> o, drive |-> d, lba |-> l, count |-> n, s |-> 0,
                        got |-> <<>>, alone |-> TRUE]
  OBVIOUS
<1>2. job = [IdeIdle EXCEPT !.phase = "command", !.op = o, !.drive = d, !.lba = l, !.count = n]
  <2>1. IdeIdle = [phase |-> "idle", op |-> "none", drive |-> 0, lba |-> 0, count |-> 0, s |-> 0,
                   got |-> <<>>, alone |-> TRUE]
    BY DEF IdeIdle
  <2>2. PICK a1 : a1 = [IdeIdle EXCEPT !.phase = "command"]
    OBVIOUS
  <2>3. a1 = [phase |-> "command", op |-> "none", drive |-> 0, lba |-> 0, count |-> 0, s |-> 0, got |-> <<>>, alone |-> TRUE]
    BY <2>1, <2>2, JobEdits
  <2>4. PICK a2 : a2 = [a1 EXCEPT !.op = o]
    OBVIOUS
  <2>5. a2 = [phase |-> "command", op |-> o, drive |-> 0, lba |-> 0, count |-> 0, s |-> 0, got |-> <<>>, alone |-> TRUE]
    BY <2>3, <2>4, JobEdits
  <2>6. PICK a3 : a3 = [a2 EXCEPT !.drive = d]
    OBVIOUS
  <2>7. a3 = [phase |-> "command", op |-> o, drive |-> d, lba |-> 0, count |-> 0, s |-> 0, got |-> <<>>, alone |-> TRUE]
    BY <2>5, <2>6, JobEdits
  <2>8. PICK a4 : a4 = [a3 EXCEPT !.lba = l]
    OBVIOUS
  <2>9. a4 = [phase |-> "command", op |-> o, drive |-> d, lba |-> l, count |-> 0, s |-> 0, got |-> <<>>, alone |-> TRUE]
    BY <2>7, <2>8, JobEdits
  <2>10. PICK a5 : a5 = [a4 EXCEPT !.count = n]
    OBVIOUS
  <2>11. a5 = [phase |-> "command", op |-> o, drive |-> d, lba |-> l, count |-> n, s |-> 0, got |-> <<>>, alone |-> TRUE]
    BY <2>9, <2>10, JobEdits
  <2> QED
    BY <1>1, <2>2, <2>4, <2>6, <2>8, <2>10, <2>11
<1>3. l + n - 1 \in Lbas
  BY DEF IdeCall
<1>4. job \in IdeJobs /\ JobOrder(job)
  <2>1. <<>> \in Seq(IdeValues)
    OBVIOUS
  <2>2. job \in IdeJobs
    BY <1>1, <2>1 DEF IdeJobs
  <2> QED
    BY <1>1, <1>3, <2>2 DEF JobOrder
<1>5. ideJob' = Noted(t, job) /\ ideReg' = [drive |-> d, lba |-> l, count |-> n] /\ ideDev' = ideDev /\ ideDisk' = ideDisk
  BY <1>2 DEF IdeCall
<1>6. PICK b \in BOOLEAN : b = (job.alone /\ \A w \in IdeTasks \ {t} : ~Calling(w))
  BY <1>1
<1>7. PICK mine : mine = [job EXCEPT !.alone = b]
  OBVIOUS
<1>8. Undisturbed(mine, t, ideReg', ideDev', ideDisk')
  <2>1. mine.phase = "command" /\ mine.drive = d /\ mine.lba = l /\ mine.count = n
    BY <1>1, <1>7
  <2> QED
    BY <1>5, <2>1 DEF Undisturbed
<1>9. ideReg' \in [drive : IdeDrives, lba : Lbas, count : Nat]
  BY <1>5
<1>10. /\ ideJob' \in [IdeTasks -> IdeJobs]
       /\ \A u \in IdeTasks : JobOrder(ideJob'[u]) /\ Undisturbed(ideJob'[u], u, ideReg', ideDev', ideDisk')
  BY <1>4, <1>5, <1>6, <1>7, <1>8, OthersNoted
<1> QED
  BY <1>5, <1>9, <1>10 DEF IdeInv, IdeTyped

LEMMA IdeCommandKeeps ==
  ASSUME IdeInv, NEW t \in IdeTasks, IdeCommand(t)
  PROVE  IdeInv'
<1>1. PICK p, o, g : \E d \in IdeDrives, l \in Lbas, n \in Nat, k \in Nat, a \in BOOLEAN :
        /\ ideJob[t] = [phase |-> p, op |-> o, drive |-> d, lba |-> l, count |-> n, s |-> k, got |-> g, alone |-> a]
        /\ g \in Seq(IdeValues) /\ k <= n
  BY JobFields
<1>2. PICK d \in IdeDrives, l \in Lbas, n \in Nat, k \in Nat, a \in BOOLEAN :
        /\ ideJob[t] = [phase |-> p, op |-> o, drive |-> d, lba |-> l, count |-> n, s |-> k, got |-> g, alone |-> a]
        /\ g \in Seq(IdeValues) /\ k <= n
  BY <1>1
<1>3. p = "command"
  BY <1>2 DEF IdeCommand
<1>4. PICK old : old = ideJob[t]
  OBVIOUS
<1>5. /\ old.phase = "command" /\ old.op = o /\ old.drive = d /\ old.lba = l /\ old.count = n /\ old.s = k
      /\ old.got = g /\ old.alone = a
  BY <1>2, <1>3, <1>4
<1>6. old \in IdeJobs /\ JobOrder(old) /\ Undisturbed(old, t, ideReg, ideDev, ideDisk)
  BY <1>4 DEF IdeInv, IdeTyped
<1>7. k = 0 /\ g = <<>> /\ o \in {"read", "write"} /\ l + n - 1 \in Lbas /\ 0 < n
  BY <1>5, <1>6 DEF JobOrder
<1>8. PICK job : job = [phase |-> "data", op |-> o, drive |-> d, lba |-> l, count |-> n, s |-> 0, got |-> <<>>, alone |-> a]
  OBVIOUS
<1>9. job = [old EXCEPT !.phase = "data"]
  BY <1>2, <1>4, <1>7, <1>8
<1>10. job \in IdeJobs /\ JobOrder(job)
  <2>1. <<>> \in Seq(IdeValues)
    OBVIOUS
  <2>2. job \in IdeJobs
    BY <1>7, <1>8, <2>1 DEF IdeJobs
  <2> QED
    BY <1>7, <1>8, <2>2 DEF JobOrder
<1>11. /\ ideJob' = Noted(t, job) /\ ideReg' = ideReg /\ ideDisk' = ideDisk
       /\ ideDev' = [cmd |-> o, drive |-> ideReg.drive, lba |-> ideReg.lba, left |-> ideReg.count]
  BY <1>4, <1>5, <1>9 DEF IdeCommand
<1>12. PICK b \in BOOLEAN : b = (job.alone /\ \A w \in IdeTasks \ {t} : ~Calling(w))
  BY <1>8
<1>13. PICK mine : mine = [job EXCEPT !.alone = b]
  OBVIOUS
<1>14. mine = [phase |-> "data", op |-> o, drive |-> d, lba |-> l, count |-> n, s |-> 0, got |-> <<>>, alone |-> b]
  BY <1>8, <1>13
<1>15. /\ mine.phase = "data" /\ mine.op = o /\ mine.drive = d /\ mine.lba = l /\ mine.count = n /\ mine.s = 0
       /\ mine.got = <<>> /\ mine.alone = b
  BY <1>14
<1>16. Undisturbed(mine, t, ideReg', ideDev', ideDisk')
  <2> SUFFICES ASSUME b PROVE /\ ideDev' = [cmd |-> o, drive |-> d, lba |-> l + 0, left |-> n - 0]
                              /\ Moved(mine, t, ideDisk')
    BY <1>15 DEF Undisturbed
  <2>1. a
    BY <1>8, <1>12
  <2>2. ideReg = [drive |-> d, lba |-> l, count |-> n]
    BY <1>5, <1>6, <2>1 DEF Undisturbed
  <2>3. ideReg.drive = d /\ ideReg.lba = l /\ ideReg.count = n
    BY <2>2
  <2>4. l + 0 = l /\ n - 0 = n
    BY LbasFacts
  <2>5. <<>> = [i \in 1 .. 0 |-> ideDisk'[d][l + i - 1]]
    OBVIOUS
  <2>6. \A i \in 0 .. 0 - 1 : ideDisk'[d][l + i] = TaskWrites[t]
    OBVIOUS
  <2> QED
    BY <1>11, <1>15, <2>3, <2>4, <2>5, <2>6 DEF Moved
<1>17. ideDev' \in [cmd : {"none", "read", "write"}, drive : IdeDrives, lba : Lbas, left : Int]
  BY <1>7, <1>11 DEF IdeInv, IdeTyped
<1>18. /\ ideJob' \in [IdeTasks -> IdeJobs]
       /\ \A u \in IdeTasks : JobOrder(ideJob'[u]) /\ Undisturbed(ideJob'[u], u, ideReg', ideDev', ideDisk')
  BY <1>10, <1>11, <1>12, <1>13, <1>16, OthersNoted
<1> QED
  BY <1>11, <1>17, <1>18 DEF IdeInv, IdeTyped

(* The end of a call, well or not.                                         *)
LEMMA IdeEndKeeps ==
  ASSUME IdeInv, NEW t \in IdeTasks, IdeSectorFails(t) \/ IdeFlush(t)
  PROVE  IdeInv'
<1>1. PICK p, o, g : \E d \in IdeDrives, l \in Lbas, n \in Nat, k \in Nat, a \in BOOLEAN :
        /\ ideJob[t] = [phase |-> p, op |-> o, drive |-> d, lba |-> l, count |-> n, s |-> k, got |-> g, alone |-> a]
        /\ g \in Seq(IdeValues) /\ k <= n
  BY JobFields
<1>2. PICK d \in IdeDrives, l \in Lbas, n \in Nat, k \in Nat, a \in BOOLEAN :
        /\ ideJob[t] = [phase |-> p, op |-> o, drive |-> d, lba |-> l, count |-> n, s |-> k, got |-> g, alone |-> a]
        /\ g \in Seq(IdeValues) /\ k <= n
  BY <1>1
<1>4. PICK old : old = ideJob[t]
  OBVIOUS
<1>5. /\ old.phase = p /\ old.op = o /\ old.drive = d /\ old.lba = l /\ old.count = n /\ old.s = k
      /\ old.got = g /\ old.alone = a
  BY <1>2, <1>4
<1>6. old \in IdeJobs /\ JobOrder(old) /\ Undisturbed(old, t, ideReg, ideDev, ideDisk)
  BY <1>4 DEF IdeInv, IdeTyped
<1>7. o \in {"none", "read", "write"}
  BY <1>5, <1>6 DEF IdeJobs
<1>8. PICK q \in {"failed", "ok"} :
        /\ ideJob' = Noted(t, [ideJob[t] EXCEPT !.phase = q]) /\ ideReg' = ideReg /\ ideDisk' = ideDisk
        /\ ideDev' \in {ideDev, NoCommand} /\ (q = "ok" => p = "flush")
  BY <1>4, <1>5 DEF IdeSectorFails, IdeFlush
<1>9. PICK job : job = [phase |-> q, op |-> o, drive |-> d, lba |-> l, count |-> n, s |-> k, got |-> g, alone |-> a]
  OBVIOUS
<1>10. job = [ideJob[t] EXCEPT !.phase = q]
  BY <1>2, <1>9
<1>11. job \in IdeJobs
  BY <1>2, <1>7, <1>9 DEF IdeJobs
<1>12. JobOrder(job)
  <2>1. job.phase = q /\ job.op = o /\ job.lba = l /\ job.count = n /\ job.s = k
    BY <1>9
  <2> QED
    BY <1>2, <1>5, <1>6, <1>8, <2>1 DEF JobOrder
<1>13. PICK b \in BOOLEAN : b = (job.alone /\ \A w \in IdeTasks \ {t} : ~Calling(w))
  BY <1>9
<1>14. PICK mine : mine = [job EXCEPT !.alone = b]
  OBVIOUS
<1>15. mine = [phase |-> q, op |-> o, drive |-> d, lba |-> l, count |-> n, s |-> k, got |-> g, alone |-> b]
  BY <1>9, <1>14
<1>16. /\ mine.phase = q /\ mine.op = o /\ mine.drive = d /\ mine.lba = l /\ mine.s = k
       /\ mine.got = g /\ mine.alone = b
  BY <1>15
<1>17. Undisturbed(mine, t, ideReg', ideDev', ideDisk')
  <2> SUFFICES ASSUME b, q = "ok" PROVE Moved(mine, t, ideDisk')
    BY <1>16, <1>8 DEF Undisturbed
  <2>1. a
    BY <1>9, <1>13
  <2>2. Moved(old, t, ideDisk)
    BY <1>5, <1>6, <1>8, <2>1 DEF Undisturbed
  <2> QED
    BY <1>5, <1>8, <1>16, <2>2 DEF Moved
<1>18. ideDev' \in [cmd : {"none", "read", "write"}, drive : IdeDrives, lba : Lbas, left : Int]
  <2>1. NoCommand \in [cmd : {"none", "read", "write"}, drive : IdeDrives, lba : Lbas, left : Int]
    BY LbasFacts, DrivesAssumption DEF NoCommand
  <2> QED
    BY <1>8, <2>1 DEF IdeInv, IdeTyped
<1>19. /\ ideJob' \in [IdeTasks -> IdeJobs]
       /\ \A u \in IdeTasks : JobOrder(ideJob'[u]) /\ Undisturbed(ideJob'[u], u, ideReg', ideDev', ideDisk')
  BY <1>8, <1>10, <1>11, <1>12, <1>13, <1>14, <1>17, OthersNoted
<1> QED
  BY <1>8, <1>18, <1>19 DEF IdeInv, IdeTyped

LEMMA IdeSectorKeeps ==
  ASSUME IdeInv, NEW t \in IdeTasks, IdeSector(t)
  PROVE  IdeInv'
<1>1. PICK p, o, g : \E d \in IdeDrives, l \in Lbas, n \in Nat, k \in Nat, a \in BOOLEAN :
        /\ ideJob[t] = [phase |-> p, op |-> o, drive |-> d, lba |-> l, count |-> n, s |-> k, got |-> g, alone |-> a]
        /\ g \in Seq(IdeValues) /\ k <= n
  BY JobFields
<1>2. PICK d \in IdeDrives, l \in Lbas, n \in Nat, k \in Nat, a \in BOOLEAN :
        /\ ideJob[t] = [phase |-> p, op |-> o, drive |-> d, lba |-> l, count |-> n, s |-> k, got |-> g, alone |-> a]
        /\ g \in Seq(IdeValues) /\ k <= n
  BY <1>1
<1>3. PICK old : old = ideJob[t]
  OBVIOUS
<1>4. /\ old.phase = p /\ old.op = o /\ old.drive = d /\ old.lba = l /\ old.count = n /\ old.s = k
      /\ old.got = g /\ old.alone = a
  BY <1>2, <1>3
<1>5. old \in IdeJobs /\ JobOrder(old) /\ Undisturbed(old, t, ideReg, ideDev, ideDisk)
  BY <1>3 DEF IdeInv, IdeTyped
<1>6. p = "data" /\ ideDev.left > 0 /\ ideReg' = ideReg
  BY <1>3, <1>4 DEF IdeSector
<1>7. k < n /\ o \in {"read", "write"} /\ l + n - 1 \in Lbas
  BY <1>4, <1>5, <1>6 DEF JobOrder
<1>8. PICK e \in {"data", "flush", "ok"} :
        e = IF old.s + 1 < old.count THEN "data" ELSE IF old.op = "write" THEN "flush" ELSE "ok"
  OBVIOUS
<1>9. (e = "data" /\ k + 1 < n) \/ (e \in {"flush", "ok"} /\ k + 1 = n)
  BY <1>2, <1>4, <1>7, <1>8
<1>10. PICK dd, dl, m : ideDev = [cmd |-> ideDev.cmd, drive |-> dd, lba |-> dl, left |-> m]
                        /\ dd \in IdeDrives /\ dl \in Lbas /\ m \in Int
                        /\ dd = ideDev.drive /\ dl = ideDev.lba /\ m = ideDev.left
                        /\ ideDev.cmd \in {"none", "read", "write"}
  BY DEF IdeInv, IdeTyped
<1>11. PICK c : c = ideDev.cmd
  OBVIOUS
<1>12. PICK sz \in Nat \ {0} : sz = Cardinality(Lbas) /\ Lbas = 0 .. sz - 1
  BY LbasFacts
<1>13. ideDev' = [cmd |-> c, drive |-> dd, lba |-> (dl + 1) % sz, left |-> m - 1]
  <2>1. ideDev' = [ideDev EXCEPT !.lba = (@ + 1) % Cardinality(Lbas), !.left = @ - 1]
    BY DEF IdeSector
  <2> QED
    BY <1>10, <1>11, <1>12, <2>1
<1>14. ideDev' \in [cmd : {"none", "read", "write"}, drive : IdeDrives, lba : Lbas, left : Int]
  <2>1. (dl + 1) % sz \in Lbas
    <3>1. PICK x \in Int : x = dl + 1
      BY <1>10, <1>12
    <3>2. x % sz \in 0 .. sz - 1
      OBVIOUS
    <3> QED
      BY <1>12, <3>1, <3>2
  <2> QED
    BY <1>10, <1>11, <1>13, <2>1
<1>15. PICK h : /\ h \in Seq(IdeValues)
                /\ ideJob' = Noted(t, [phase |-> e, op |-> o, drive |-> d, lba |-> l, count |-> n, s |-> k + 1,
                                       got |-> h, alone |-> a])
                /\ o = "read" => /\ ideDisk' = ideDisk
                                 /\ \E v \in IdeValues : h = Append(g, v) /\ (c = "read" => v = ideDisk[dd][dl])
                /\ o # "read" => /\ h = g
                                 /\ ideDisk' = IF c = "write" THEN [ideDisk EXCEPT ![dd][dl] = TaskWrites[t]] ELSE ideDisk
  <2>1. PICK moved : moved = [old EXCEPT !.s = @ + 1, !.phase = e]
    OBVIOUS
  <2>2. moved = [phase |-> e, op |-> o, drive |-> d, lba |-> l, count |-> n, s |-> k + 1, got |-> g, alone |-> a]
    <3>1. PICK x : x = old.s + 1
      OBVIOUS
    <3>2. PICK m1 : m1 = [old EXCEPT !.s = x]
      OBVIOUS
    <3>6. old = [phase |-> p, op |-> o, drive |-> d, lba |-> l, count |-> n, s |-> k, got |-> g, alone |-> a]
      BY <1>2, <1>3
    <3>3. m1 = [phase |-> p, op |-> o, drive |-> d, lba |-> l, count |-> n, s |-> x, got |-> g, alone |-> a]
      BY <3>6, <3>2
    <3>4. moved = [m1 EXCEPT !.phase = e]
      BY <2>1, <3>1, <3>2
    <3>5. moved = [phase |-> e, op |-> o, drive |-> d, lba |-> l, count |-> n, s |-> x, got |-> g, alone |-> a]
      BY <3>3, <3>4, JobEdits
    <3> QED
      BY <1>4, <3>1, <3>5
  <2>3. IF o = "read"
        THEN /\ \E v \in IF c = "read" THEN {ideDisk[dd][dl]} ELSE IdeValues :
                  ideJob' = Noted(t, [moved EXCEPT !.got = Append(@, v)])
             /\ ideDisk' = ideDisk
        ELSE /\ ideJob' = Noted(t, moved)
             /\ ideDisk' = IF c = "write" THEN [ideDisk EXCEPT ![dd][dl] = TaskWrites[t]] ELSE ideDisk
    BY <1>3, <1>4, <1>8, <1>10, <1>11, <2>1 DEF IdeSector
  <2>4. CASE o = "read"
    <3>1. PICK v \in IF c = "read" THEN {ideDisk[dd][dl]} ELSE IdeValues :
            ideJob' = Noted(t, [moved EXCEPT !.got = Append(@, v)])
      BY <2>3, <2>4
    <3>2. v \in IdeValues /\ (c = "read" => v = ideDisk[dd][dl])
      <4>1. ideDisk[dd][dl] \in IdeValues
        BY <1>10 DEF IdeInv, IdeTyped
      <4> QED
        BY <3>1, <4>1
    <3>3. Append(g, v) \in Seq(IdeValues)
      BY <1>2, <3>2
    <3>4. [moved EXCEPT !.got = Append(@, v)] =
            [phase |-> e, op |-> o, drive |-> d, lba |-> l, count |-> n, s |-> k + 1, got |-> Append(g, v), alone |-> a]
      <4>1. PICK x : x = Append(g, v)
        OBVIOUS
      <4>2. PICK y : y = k + 1
        OBVIOUS
      <4>3. moved = [phase |-> e, op |-> o, drive |-> d, lba |-> l, count |-> n, s |-> y, got |-> g, alone |-> a]
        BY <2>2, <4>2
      <4>4. moved.got = g
        BY <4>3
      <4>5. [moved EXCEPT !.got = x] =
              [phase |-> e, op |-> o, drive |-> d, lba |-> l, count |-> n, s |-> y, got |-> x, alone |-> a]
        BY <4>3
      <4> QED
        BY <4>1, <4>2, <4>4, <4>5
    <3> QED
      BY <2>3, <2>4, <3>1, <3>2, <3>3, <3>4
  <2>5. CASE o # "read"
    BY <1>2, <2>2, <2>3, <2>5
  <2> QED
    BY <2>4, <2>5
<1>16. PICK job : job = [phase |-> e, op |-> o, drive |-> d, lba |-> l, count |-> n, s |-> k + 1, got |-> h, alone |-> a]
  OBVIOUS
<1>17. job \in IdeJobs
  BY <1>2, <1>7, <1>8, <1>15, <1>16 DEF IdeJobs
<1>18. JobOrder(job)
  <2>1. job.phase = e /\ job.op = o /\ job.lba = l /\ job.count = n /\ job.s = k + 1
    BY <1>16
  <2> QED
    BY <1>2, <1>7, <1>8, <1>9, <2>1 DEF JobOrder
<1>19. PICK b \in BOOLEAN : b = (job.alone /\ \A w \in IdeTasks \ {t} : ~Calling(w))
  BY <1>16
<1>20. PICK mine : mine = [job EXCEPT !.alone = b]
  OBVIOUS
<1>21. mine = [phase |-> e, op |-> o, drive |-> d, lba |-> l, count |-> n, s |-> k + 1, got |-> h, alone |-> b]
  BY <1>16, <1>20
<1>22. /\ mine.phase = e /\ mine.op = o /\ mine.drive = d /\ mine.lba = l /\ mine.count = n /\ mine.s = k + 1
       /\ mine.got = h /\ mine.alone = b
  BY <1>21
<1>23. ideDisk' \in [IdeDrives -> [Lbas -> IdeValues]]
  <2>1. TaskWrites[t] \in IdeValues /\ ideDisk \in [IdeDrives -> [Lbas -> IdeValues]]
    BY DrivesAssumption DEF IdeInv, IdeTyped
  <2>2. [ideDisk EXCEPT ![dd][dl] = TaskWrites[t]] \in [IdeDrives -> [Lbas -> IdeValues]]
    BY <2>1, <1>10
  <2> QED
    BY <1>15, <2>1, <2>2
<1>24. Undisturbed(mine, t, ideReg', ideDev', ideDisk')
  <2> SUFFICES ASSUME b
               PROVE  /\ e = "data" => ideDev' = [cmd |-> o, drive |-> d, lba |-> l + (k + 1), left |-> n - (k + 1)]
                      /\ Moved(mine, t, ideDisk')
    BY <1>8, <1>22 DEF Undisturbed
  <2>1. a
    BY <1>16, <1>19
  <2>2. ideDev = [cmd |-> o, drive |-> d, lba |-> l + k, left |-> n - k]
    BY <1>4, <1>5, <1>6, <2>1 DEF Undisturbed
  <2>3. c = o /\ dd = d /\ dl = l + k /\ m = n - k
    BY <1>10, <1>11, <2>2
  <2>4. l \in 0 .. sz - 1 /\ l + n - 1 \in 0 .. sz - 1
    BY <1>7, <1>12
  <2>5. e = "data" => (dl + 1) % sz = l + (k + 1)
    <3> SUFFICES ASSUME k + 1 < n PROVE (l + k + 1) % sz = l + (k + 1)
      BY <1>9, <2>3
    <3>1. l + k + 1 \in 0 .. sz - 1
      BY <2>4, <1>2
    <3>2. \A x \in 0 .. sz - 1 : x % sz = x
      OBVIOUS
    <3>3. (l + k + 1) % sz = l + k + 1
      BY <3>1, <3>2
    <3>4. l + k + 1 = l + (k + 1)
      BY <2>4
    <3> QED
      BY <3>3, <3>4
  <2>6. m - 1 = n - (k + 1)
    BY <2>3
  <2>7. Moved(old, t, ideDisk)
    BY <1>4, <1>5, <1>6, <2>1 DEF Undisturbed
  <2>8. CASE o = "read"
    <3>1. PICK v \in IdeValues : h = Append(g, v) /\ v = ideDisk[d][l + k]
      BY <1>15, <2>3, <2>8
    <3>2. g = [i \in 1 .. k |-> ideDisk[d][l + i - 1]]
      BY <1>4, <2>7, <2>8 DEF Moved
    <3>3. Len(g) = k
      BY <1>2, <3>2
    <3>4. h = [i \in 1 .. k + 1 |-> ideDisk[d][l + i - 1]]
      <4>1. h = [i \in 1 .. k + 1 |-> IF i = k + 1 THEN v ELSE g[i]]
        BY <1>2, <3>1, <3>3
      <4>2. \A i \in 1 .. k + 1 : (IF i = k + 1 THEN v ELSE g[i]) = ideDisk[d][l + i - 1]
        <5> TAKE i \in 1 .. k + 1
        <5>1. CASE i = k + 1
          <6>1. l + i - 1 = l + k
            BY <5>1, <2>4
          <6> QED
            BY <5>1, <6>1, <3>1
        <5>2. CASE i # k + 1
          <6>1. i \in 1 .. k
            BY <5>2
          <6> QED
            BY <5>2, <6>1, <3>2
        <5> QED
          BY <5>1, <5>2
      <4> QED
        BY <4>1, <4>2
    <3> QED
      BY <1>13, <1>15, <1>22, <2>3, <2>5, <2>6, <2>8, <3>4 DEF Moved
  <2>9. CASE o = "write"
    <3>1. ideDisk' = [ideDisk EXCEPT ![d][l + k] = TaskWrites[t]]
      BY <1>15, <2>3, <2>9
    <3>2. \A i \in 0 .. k - 1 : ideDisk[d][l + i] = TaskWrites[t]
      BY <1>4, <2>7, <2>9 DEF Moved
    <3>3. d \in DOMAIN ideDisk /\ l + k \in DOMAIN ideDisk[d]
      BY <1>10, <2>3 DEF IdeInv, IdeTyped
    <3>4. \A i \in 0 .. k : ideDisk'[d][l + i] = TaskWrites[t]
      <4> TAKE i \in 0 .. k
      <4>1. CASE i = k
        BY <3>1, <3>3, <4>1
      <4>2. CASE i # k
        <5>1. i \in 0 .. k - 1 /\ l + i # l + k
          BY <4>2, <2>4
        <5> QED
          BY <3>1, <3>2, <3>3, <5>1
      <4> QED
        BY <4>1, <4>2
    <3>5. (k + 1) - 1 = k
      OBVIOUS
    <3>6. Moved(mine, t, ideDisk')
      BY <1>22, <2>9, <3>4, <3>5 DEF Moved
    <3> QED
      BY <1>13, <2>3, <2>5, <2>6, <3>6
  <2> QED
    BY <1>7, <2>8, <2>9
<1>25. /\ ideJob' \in [IdeTasks -> IdeJobs]
       /\ \A u \in IdeTasks : JobOrder(ideJob'[u]) /\ Undisturbed(ideJob'[u], u, ideReg', ideDev', ideDisk')
  BY <1>15, <1>16, <1>17, <1>18, <1>19, <1>20, <1>24, OthersNoted
<1> QED
  BY <1>6, <1>14, <1>23, <1>25 DEF IdeInv, IdeTyped

LEMMA IdeGoesOn ==
  ASSUME IdeInv, [IdeNext]_ideVars
  PROVE  IdeInv'
<1>1. CASE UNCHANGED ideVars
  BY <1>1 DEF IdeInv, IdeTyped, ideVars
<1>2. CASE IdeNext
  BY <1>2, IdeCallKeeps, IdeCommandKeeps, IdeEndKeeps, IdeSectorKeeps DEF IdeNext
<1> QED
  BY <1>1, <1>2

LEMMA IdePromises ==
  ASSUME IdeInv
  PROVE  /\ IdeTrue
         /\ ideReg.drive \in IdeDrives /\ ideReg.lba \in Lbas /\ ideDev.lba \in Lbas
         /\ \A t \in IdeTasks : ideJob[t].s <= ideJob[t].count
<1>1. ASSUME NEW t \in IdeTasks, ideJob[t].phase = "ok", ideJob[t].alone
      PROVE  IF ideJob[t].op = "read"
             THEN ideJob[t].got = [i \in 1 .. ideJob[t].count |-> ideDisk[ideJob[t].drive][ideJob[t].lba + i - 1]]
             ELSE \A i \in 0 .. ideJob[t].count - 1 : ideDisk[ideJob[t].drive][ideJob[t].lba + i] = TaskWrites[t]
  <2>1. ideJob[t].s = ideJob[t].count
    BY <1>1 DEF IdeInv, JobOrder
  <2>2. Moved(ideJob[t], t, ideDisk)
    BY <1>1 DEF IdeInv, Undisturbed
  <2> QED
    BY <2>1, <2>2 DEF Moved
<1>2. IdeTrue
  BY <1>1 DEF IdeTrue
<1>3. \A t \in IdeTasks : ideJob[t].s <= ideJob[t].count
  BY DEF IdeInv, JobOrder
<1> QED
  BY <1>2, <1>3 DEF IdeInv, IdeTyped

-----------------------------------------------------------------------------
(* The queues of an NVMe controller *)

(* Quotient and remainder are determined by each other.                    *)
LEMMA DivUnique ==
  ASSUME NEW q \in Nat \ {0}, NEW d \in Int, NEW r \in 0 .. q - 1
  PROVE  (q * d + r) % q = r /\ (q * d + r) \div q = d
<1>0. PICK x \in Int : x = q * d + r
  OBVIOUS
<1>1. PICK s \in 0 .. q - 1 : s = x % q
  OBVIOUS
<1>2. PICK e \in Int : e = x \div q
  OBVIOUS
<1>3. x = q * e + s
  BY <1>1, <1>2
<1>4. q * (d - e) = s - r
  BY <1>0, <1>3
<1>5. s - r < q /\ r - s < q /\ s \in Int
  BY <1>1
<1>6. d - e < 1
  BY <1>4, <1>5, SMTT(30)
<1>7. d - e > -1
  BY <1>4, <1>5, SMTT(30)
<1>8. d - e = 0
  BY <1>6, <1>7
<1>9. s = r
  BY <1>8, <1>4, <1>5
<1> QED
  BY <1>0, <1>1, <1>2, <1>8, <1>9

Place(k)    == k % QSIZE
PhaseBit(k) == IF (k \div QSIZE) % 2 = 0 THEN 1 ELSE 0

(* The numbers and the places of a ring, and its phase bit.                *)
LEMMA RingStep ==
  ASSUME NEW k \in Nat
  PROVE  /\ Place(k) \in Ring /\ PhaseBit(k) \in {0, 1}
         /\ Step(Place(k)) = Place(k + 1)
         /\ PhaseBit(k + 1) = IF Step(Place(k)) = 0 THEN 1 - PhaseBit(k) ELSE PhaseBit(k)
         /\ Place(k + QSIZE) = Place(k) /\ PhaseBit(k + QSIZE) = 1 - PhaseBit(k)
<1>1. PICK q \in Nat \ {0} : q = QSIZE /\ q >= 2
  BY DrivesAssumption
<1>2. PICK d \in Nat : d = k \div q
  OBVIOUS
<1>3. PICK r \in 0 .. q - 1 : r = k % q
  OBVIOUS
<1>4. k = q * d + r
  BY <1>2, <1>3
<1>5. Place(k) = r /\ Place(k) \in Ring /\ PhaseBit(k) = (IF d % 2 = 0 THEN 1 ELSE 0)
  BY <1>1, <1>2, <1>3 DEF Place, Ring, PhaseBit
<1>6. PhaseBit(k) \in {0, 1}
  BY <1>5
<1>7. q * (d + 1) = q * d + q /\ q * d \in Nat
  OBVIOUS
<1>8. (k + q) % q = r /\ (k + q) \div q = d + 1
  <2>1. k + q = q * (d + 1) + r
    BY <1>4, <1>7
  <2> QED
    BY <2>1, DivUnique
<1>9. (d + 1) % 2 = 0 <=> d % 2 # 0
  OBVIOUS
<1>10. Place(k + QSIZE) = Place(k) /\ PhaseBit(k + QSIZE) = 1 - PhaseBit(k)
  <2>1. PhaseBit(k + QSIZE) = (IF (d + 1) % 2 = 0 THEN 1 ELSE 0)
    BY <1>1, <1>8 DEF PhaseBit
  <2>2. Place(k + QSIZE) = r
    BY <1>1, <1>8 DEF Place
  <2> QED
    BY <1>5, <1>9, <2>1, <2>2
<1>11. CASE r + 1 < q
  <2>1. k + 1 = q * d + (r + 1) /\ r + 1 \in 0 .. q - 1
    BY <1>4, <1>7, <1>11
  <2>2. (k + 1) % q = r + 1 /\ (k + 1) \div q = d
    BY <2>1, DivUnique
  <2>3. (r + 1) % q = r + 1
    BY <1>11
  <2>4. Step(Place(k)) = r + 1 /\ Place(k + 1) = r + 1 /\ PhaseBit(k + 1) = (IF d % 2 = 0 THEN 1 ELSE 0)
    BY <1>1, <1>5, <2>2, <2>3 DEF Step, Place, PhaseBit
  <2> QED
    BY <1>5, <1>6, <1>10, <2>4
<1>12. CASE r + 1 = q
  <2>1. k + 1 = q * (d + 1) + 0 /\ 0 \in 0 .. q - 1
    BY <1>4, <1>7, <1>12
  <2>2. (k + 1) % q = 0 /\ (k + 1) \div q = d + 1
    BY <2>1, DivUnique
  <2>3. q % q = 0
    <3>1. (q * 1 + 0) % q = 0 /\ q * 1 + 0 = q
      BY DivUnique
    <3> QED
      BY <3>1
  <2>4. Step(Place(k)) = 0 /\ Place(k + 1) = 0 /\ PhaseBit(k + 1) = (IF (d + 1) % 2 = 0 THEN 1 ELSE 0)
    BY <1>1, <1>5, <1>12, <2>2, <2>3 DEF Step, Place, PhaseBit
  <2> QED
    BY <1>5, <1>6, <1>9, <1>10, <2>4
<1> QED
  BY <1>11, <1>12

(* Numbers less than a turn apart have different places.                   *)
LEMMA RingApart ==
  ASSUME NEW j \in Nat, NEW k \in Nat, j < k, k - j < QSIZE
  PROVE  Place(j) # Place(k)
<1> SUFFICES ASSUME Place(j) = Place(k) PROVE FALSE
  OBVIOUS
<1>1. PICK q \in Nat \ {0} : q = QSIZE
  BY DrivesAssumption
<1>2. PICK d \in Nat, e \in Nat : d = j \div q /\ e = k \div q
  OBVIOUS
<1>3. PICK r \in 0 .. q - 1 : r = j % q /\ r = k % q
  BY <1>1 DEF Place
<1>4. j = q * d + r /\ k = q * e + r
  BY <1>2, <1>3
<1>5. q * (e - d) = k - j
  BY <1>4
<1>6. PICK f \in Int : f = e - d
  OBVIOUS
<1>7. q * f > 0 /\ q * f < q
  BY <1>1, <1>5, <1>6
<1>8. f > 0
  BY <1>7, SMTT(30)
<1>9. f < 1
  BY <1>7, SMTT(30)
<1> QED
  BY <1>8, <1>9

QueueFields == {"sq", "tail", "fetched", "cq", "head", "phase", "posted", "bit", "sent", "waits", "taken",
                "timeouts", "overrun"}

QueueTyped(q) ==
  /\ DOMAIN q = QueueFields
  /\ q.sq \in [Ring -> Nat] /\ q.cq \in [Ring -> [phase : {0, 1}, of : Nat]]
  /\ q.tail \in Ring /\ q.fetched \in Ring /\ q.head \in Ring /\ q.posted \in Ring
  /\ q.phase \in {0, 1} /\ q.bit \in {0, 1} /\ q.waits \in BOOLEAN /\ q.overrun \in BOOLEAN
  /\ q.sent \in Nat /\ q.timeouts \in Nat /\ q.taken \in Seq([asked : Nat, of : Nat])

(* The numbers behind the places: c commands are completed, and what is in *)
(* the rings between the ends of each is the commands and answers by       *)
(* number, the rest of the answers being of the round before.              *)
RingsTrue(q, c) ==
  /\ Len(q.taken) <= c /\ c <= q.sent /\ q.sent - c < QSIZE /\ c - Len(q.taken) < QSIZE
  /\ q.tail = Place(q.sent) /\ q.fetched = Place(c) /\ q.posted = Place(c) /\ q.head = Place(Len(q.taken))
  /\ q.bit = PhaseBit(c) /\ q.phase = PhaseBit(Len(q.taken))
  /\ \A k \in Nat : c <= k /\ k < q.sent => q.sq[Place(k)] = k + 1
  /\ \A k \in Nat : Len(q.taken) <= k /\ k < c => q.cq[Place(k)] = [phase |-> PhaseBit(k), of |-> k + 1]
  /\ \A k \in Nat : c <= k /\ k < Len(q.taken) + QSIZE => q.cq[Place(k)].phase # PhaseBit(k)

Answered(q) ==
  /\ \A k \in 1 .. Len(q.taken) : q.taken[k].of = k /\ q.taken[k].asked >= k
  /\ q.timeouts = 0 => \A k \in 1 .. Len(q.taken) : q.taken[k].asked = q.taken[k].of
  /\ q.sent = Len(q.taken) + q.timeouts + (IF q.waits THEN 1 ELSE 0)

QueueInv(q) ==
  /\ QueueTyped(q)
  /\ ~q.overrun => Answered(q) /\ \E c \in Nat : RingsTrue(q, c)

NvInv == DOMAIN nv = {"stage", "admin", "io"} /\ \A name \in {"admin", "io"} : QueueInv(nv[name])

LEMMA SizeFacts == QSIZE \in Nat /\ QSIZE >= 2
BY DrivesAssumption

LEMMA QueueBegins == QueueInv(NvQueue)
<1>1. 0 \in Ring
  BY SizeFacts DEF Ring
<1>2. DOMAIN NvQueue = QueueFields
  BY DEF NvQueue, QueueFields
<1>3. /\ NvQueue.sq = [i \in Ring |-> 0] /\ NvQueue.cq = [i \in Ring |-> [phase |-> 0, of |-> 0]]
      /\ NvQueue.tail = 0 /\ NvQueue.fetched = 0 /\ NvQueue.head = 0 /\ NvQueue.posted = 0
      /\ NvQueue.phase = 1 /\ NvQueue.bit = 1
  BY DEF NvQueue
<1>4. NvQueue.sent = 0 /\ NvQueue.waits = FALSE /\ NvQueue.taken = <<>> /\ NvQueue.timeouts = 0 /\ NvQueue.overrun = FALSE
  BY DEF NvQueue
<1>5. QueueTyped(NvQueue)
  <2>1. <<>> \in Seq([asked : Nat, of : Nat])
    OBVIOUS
  <2> QED
    BY <1>1, <1>2, <1>3, <1>4, <2>1, SMTT(30) DEF QueueTyped
<1>6. Len(<<>>) = 0
  OBVIOUS
<1>7. Answered(NvQueue)
  BY <1>4, <1>6 DEF Answered
<1>8. RingsTrue(NvQueue, 0)
  <2>1. \A k \in 0 .. QSIZE - 1 : k % QSIZE = k /\ k \div QSIZE = 0
    <3>1. \A q \in Nat \ {0}, k \in Nat : k < q => k % q = k /\ k \div q = 0
      OBVIOUS
    <3> QED
      BY <3>1, SizeFacts
  <2>2. Place(0) = 0 /\ PhaseBit(0) = 1
    BY <2>1, SizeFacts DEF Place, PhaseBit
  <2>3. \A k \in Nat : k < QSIZE => PhaseBit(k) = 1 /\ Place(k) \in Ring
    BY <2>1, SizeFacts DEF Place, PhaseBit, Ring
  <2>4. \A i \in Ring : NvQueue.cq[i].phase = 0
    BY <1>3
  <2> QED
    BY <1>3, <1>4, <1>6, <2>2, <2>3, <2>4, SizeFacts DEF RingsTrue
<1> QED
  BY <1>4, <1>5, <1>7, <1>8 DEF QueueInv

(* A command goes into the ring, while there is room.                      *)
LEMMA QueueSubmits ==
  ASSUME NEW q, QueueInv(q), ~q.waits, NEW p,
         p = [q EXCEPT !.sq[q.tail] = q.sent + 1, !.tail = Step(@), !.sent = @ + 1, !.waits = TRUE,
                       !.overrun = @ \/ Step(q.tail) = q.fetched]
  PROVE  QueueInv(p)
<1>1. QueueTyped(q)
  BY DEF QueueInv
<1>2. DOMAIN q = QueueFields
  BY <1>1 DEF QueueTyped
<1>3. DOMAIN p = QueueFields
  BY <1>2 DEF QueueFields
<1>4. /\ p.sq = [q.sq EXCEPT ![q.tail] = q.sent + 1] /\ p.tail = Step(q.tail) /\ p.sent = q.sent + 1
      /\ p.waits = TRUE /\ p.overrun = (q.overrun \/ Step(q.tail) = q.fetched)
  BY <1>2 DEF QueueFields
<1>5. /\ p.fetched = q.fetched /\ p.cq = q.cq /\ p.head = q.head /\ p.phase = q.phase /\ p.posted = q.posted
      /\ p.bit = q.bit /\ p.taken = q.taken /\ p.timeouts = q.timeouts
  BY <1>2 DEF QueueFields
<1>6. \A i \in Ring : Step(i) \in Ring
  BY SizeFacts DEF Step, Ring
<1>7. QueueTyped(p)
  <2>1. q.tail \in Ring /\ q.sent \in Nat /\ q.sq \in [Ring -> Nat]
    BY <1>1 DEF QueueTyped
  <2>2. p.sq \in [Ring -> Nat] /\ p.tail \in Ring /\ p.sent \in Nat /\ p.waits \in BOOLEAN
    BY <1>4, <1>6, <2>1
  <2>3. p.overrun \in BOOLEAN
    BY <1>4
  <2> QED
    BY <1>1, <1>3, <1>5, <2>2, <2>3 DEF QueueTyped
<1>8. ASSUME ~p.overrun PROVE Answered(p) /\ \E c \in Nat : RingsTrue(p, c)
  <2>1. ~q.overrun /\ Step(q.tail) # q.fetched
    BY <1>4, <1>8
  <2>2. Answered(q)
    BY <2>1 DEF QueueInv
  <2>3. PICK c \in Nat : RingsTrue(q, c)
    BY <2>1 DEF QueueInv
  <2>4. PICK n \in Nat, t \in Nat, w \in Nat : n = q.sent /\ t = Len(q.taken) /\ w = q.timeouts
    BY <1>1, LenProperties DEF QueueTyped
  <2>5. Answered(p)
    <3>1. q.sent = t + w
      BY <2>2, <2>4 DEF Answered
    <3>2. p.sent = t + w + 1
      BY <1>4, <2>4, <3>1
    <3> QED
      BY <1>4, <1>5, <2>2, <2>4, <3>2 DEF Answered
  <2>6. t <= c /\ c <= n /\ n - c < QSIZE /\ c - t < QSIZE
    BY <2>3, <2>4 DEF RingsTrue
  <2>7. n + 1 - c < QSIZE
    <3>1. Step(Place(n)) # Place(c)
      BY <2>1, <2>3, <2>4 DEF RingsTrue
    <3>2. Place(n + 1) # Place(c)
      BY <3>1, RingStep
    <3>3. n + 1 # c + QSIZE
      BY <3>2, RingStep
    <3> QED
      BY <2>6, <3>3, SizeFacts
  <2>8. ASSUME NEW k \in Nat, c <= k, k < n + 1 PROVE p.sq[Place(k)] = k + 1
    <3>1. q.tail = Place(n) /\ Place(n) \in Ring /\ Place(k) \in Ring
      BY <2>3, <2>4, RingStep DEF RingsTrue
    <3>2. q.sq \in [Ring -> Nat]
      BY <1>1 DEF QueueTyped
    <3>3. CASE k = n
      BY <1>4, <2>4, <3>1, <3>2, <3>3
    <3>4. CASE k < n
      <4>1. n - k < QSIZE
        BY <2>6, <2>8, <3>4, SizeFacts
      <4>2. Place(k) # Place(n)
        BY <3>4, <4>1, RingApart
      <4>3. q.sq[Place(k)] = k + 1
        BY <2>3, <2>4, <2>8, <3>4 DEF RingsTrue
      <4> QED
        BY <1>4, <3>1, <3>2, <4>2, <4>3
    <3> QED
      BY <2>8, <3>3, <3>4
  <2>9. p.tail = Place(n + 1)
    <3>1. p.tail = Step(Place(n))
      BY <1>4, <2>3, <2>4 DEF RingsTrue
    <3> QED
      BY <3>1, RingStep
  <2>10. p.sent = n + 1 /\ p.taken = q.taken
    BY <1>4, <1>5, <2>4
  <2>11. /\ p.fetched = Place(c) /\ p.posted = Place(c) /\ p.head = Place(t)
         /\ p.bit = PhaseBit(c) /\ p.phase = PhaseBit(t)
         /\ \A k \in Nat : t <= k /\ k < c => p.cq[Place(k)] = [phase |-> PhaseBit(k), of |-> k + 1]
         /\ \A k \in Nat : c <= k /\ k < t + QSIZE => p.cq[Place(k)].phase # PhaseBit(k)
    BY <1>5, <2>3, <2>4 DEF RingsTrue
  <2>12. c <= n + 1
    BY <2>6
  <2>13. RingsTrue(p, c)
    BY <2>4, <2>6, <2>7, <2>8, <2>9, <2>10, <2>11, <2>12 DEF RingsTrue
  <2> QED
    BY <2>5, <2>13
<1> QED
  BY <1>7, <1>8 DEF QueueInv

(* The controller answers a command.                                       *)
LEMMA QueueCompletes ==
  ASSUME NEW q, QueueInv(q), q.fetched # q.tail, Step(q.posted) # q.head, NEW p,
         p = [q EXCEPT !.cq[q.posted] = [phase |-> q.bit, of |-> q.sq[q.fetched]],
                       !.fetched = Step(@), !.posted = Step(@),
                       !.bit = IF Step(q.posted) = 0 THEN 1 - @ ELSE @]
  PROVE  QueueInv(p)
<1>1. QueueTyped(q)
  BY DEF QueueInv
<1>2. DOMAIN q = QueueFields
  BY <1>1 DEF QueueTyped
<1>3. DOMAIN p = QueueFields
  BY <1>2 DEF QueueFields
<1>4. /\ p.cq = [q.cq EXCEPT ![q.posted] = [phase |-> q.bit, of |-> q.sq[q.fetched]]]
      /\ p.fetched = Step(q.fetched) /\ p.posted = Step(q.posted)
      /\ p.bit = IF Step(q.posted) = 0 THEN 1 - q.bit ELSE q.bit
  BY <1>2 DEF QueueFields
<1>5. /\ p.sq = q.sq /\ p.tail = q.tail /\ p.head = q.head /\ p.phase = q.phase /\ p.sent = q.sent
      /\ p.waits = q.waits /\ p.taken = q.taken /\ p.timeouts = q.timeouts /\ p.overrun = q.overrun
  BY <1>2 DEF QueueFields
<1>6. \A i \in Ring : Step(i) \in Ring
  BY SizeFacts DEF Step, Ring
<1>7. QueueTyped(p)
  <2>1. /\ q.posted \in Ring /\ q.fetched \in Ring /\ q.sq \in [Ring -> Nat] /\ q.bit \in {0, 1}
        /\ q.cq \in [Ring -> [phase : {0, 1}, of : Nat]]
    BY <1>1 DEF QueueTyped
  <2>2. [phase |-> q.bit, of |-> q.sq[q.fetched]] \in [phase : {0, 1}, of : Nat]
    BY <2>1
  <2>3. p.cq \in [Ring -> [phase : {0, 1}, of : Nat]]
    BY <1>4, <2>1, <2>2
  <2>4. p.fetched \in Ring /\ p.posted \in Ring /\ p.bit \in {0, 1}
    BY <1>4, <1>6, <2>1
  <2> QED
    BY <1>1, <1>3, <1>5, <2>3, <2>4 DEF QueueTyped
<1>8. ASSUME ~p.overrun PROVE Answered(p) /\ \E c \in Nat : RingsTrue(p, c)
  <2>1. ~q.overrun
    BY <1>5, <1>8
  <2>2. Answered(p)
    BY <1>5, <2>1 DEF QueueInv, Answered
  <2>3. PICK c \in Nat : RingsTrue(q, c)
    BY <2>1 DEF QueueInv
  <2>4. PICK n \in Nat, t \in Nat : n = q.sent /\ t = Len(q.taken)
    BY <1>1, LenProperties DEF QueueTyped
  <2>5. t <= c /\ c <= n /\ n - c < QSIZE /\ c - t < QSIZE
    BY <2>3, <2>4 DEF RingsTrue
  <2>6. c < n
    <3>1. Place(c) # Place(n)
      BY <2>3, <2>4 DEF RingsTrue
    <3>2. c # n
      BY <3>1
    <3> QED
      BY <2>5, <3>2
  <2>7. c + 1 - t < QSIZE
    <3>1. Step(Place(c)) # Place(t)
      BY <2>3, <2>4 DEF RingsTrue
    <3>2. Place(c + 1) # Place(t)
      BY <3>1, RingStep
    <3>3. c + 1 # t + QSIZE
      BY <3>2, RingStep
    <3> QED
      BY <2>5, <3>3, SizeFacts
  <2>8. q.posted = Place(c) /\ Place(c) \in Ring /\ q.cq \in [Ring -> [phase : {0, 1}, of : Nat]]
    BY <1>1, <2>3, RingStep DEF RingsTrue, QueueTyped
  <2>9. p.cq[Place(c)] = [phase |-> PhaseBit(c), of |-> c + 1]
    <3>1. q.sq[Place(c)] = c + 1 /\ q.fetched = Place(c) /\ q.bit = PhaseBit(c)
      BY <2>3, <2>4, <2>6 DEF RingsTrue
    <3> QED
      BY <1>4, <2>8, <3>1
  <2>10. ASSUME NEW k \in Nat, t <= k, k < c PROVE p.cq[Place(k)] = [phase |-> PhaseBit(k), of |-> k + 1]
    <3>1. c - k < QSIZE
      BY <2>5, <2>10, SizeFacts
    <3>2. Place(k) # Place(c) /\ Place(k) \in Ring
      BY <2>10, <3>1, RingApart, RingStep
    <3>3. q.cq[Place(k)] = [phase |-> PhaseBit(k), of |-> k + 1]
      BY <2>3, <2>4, <2>10 DEF RingsTrue
    <3> QED
      BY <1>4, <2>8, <3>2, <3>3
  <2>11. ASSUME NEW k \in Nat, c + 1 <= k, k < t + QSIZE PROVE p.cq[Place(k)].phase # PhaseBit(k)
    <3>1. k - c < QSIZE /\ c < k /\ c <= k
      BY <2>5, <2>11, SizeFacts
    <3>2. Place(k) # Place(c) /\ Place(k) \in Ring
      BY <3>1, RingApart, RingStep
    <3>3. q.cq[Place(k)].phase # PhaseBit(k)
      BY <2>3, <2>4, <2>11, <3>1 DEF RingsTrue
    <3> QED
      BY <1>4, <2>8, <3>2, <3>3
  <2>12. p.fetched = Place(c + 1) /\ p.posted = Place(c + 1) /\ p.bit = PhaseBit(c + 1)
    <3>1. q.fetched = Place(c) /\ q.posted = Place(c) /\ q.bit = PhaseBit(c)
      BY <2>3 DEF RingsTrue
    <3> QED
      BY <1>4, <3>1, RingStep
  <2>13. /\ p.tail = Place(n) /\ p.head = Place(t) /\ p.phase = PhaseBit(t) /\ p.sent = n /\ Len(p.taken) = t
         /\ \A k \in Nat : c <= k /\ k < n => p.sq[Place(k)] = k + 1
    BY <1>5, <2>3, <2>4 DEF RingsTrue
  <2>14. \A k \in Nat : c + 1 <= k /\ k < n => p.sq[Place(k)] = k + 1
    BY <2>13
  <2>15. \A k \in Nat : t <= k /\ k < c + 1 => p.cq[Place(k)] = [phase |-> PhaseBit(k), of |-> k + 1]
    <3>1. \A k \in Nat : k < c + 1 => k < c \/ k = c
      OBVIOUS
    <3> QED
      BY <2>9, <2>10, <3>1
  <2>16. t <= c + 1 /\ c + 1 <= n /\ n - (c + 1) < QSIZE /\ c + 1 - t < QSIZE
    BY <2>5, <2>6, <2>7, SizeFacts
  <2>17. RingsTrue(p, c + 1)
    BY <2>11, <2>12, <2>13, <2>14, <2>15, <2>16 DEF RingsTrue
  <2> QED
    BY <2>2, <2>17
<1> QED
  BY <1>7, <1>8 DEF QueueInv

LEMMA BelowSum == \A k, x, y \in Nat : k < x + 1 + y => k < x + y \/ k = x + y
OBVIOUS

(* The driver takes an answer whose phase bit is the expected one.         *)
LEMMA QueueTakes ==
  ASSUME NEW q, QueueInv(q), q.waits, q.cq[q.head].phase = q.phase, NEW p,
         p = [q EXCEPT !.waits = FALSE, !.head = Step(@),
                       !.taken = Append(@, [asked |-> q.sent, of |-> q.cq[q.head].of]),
                       !.phase = IF Step(q.head) = 0 THEN 1 - @ ELSE @]
  PROVE  QueueInv(p)
<1>1. QueueTyped(q)
  BY DEF QueueInv
<1>2. DOMAIN q = QueueFields
  BY <1>1 DEF QueueTyped
<1>3. DOMAIN p = QueueFields
  BY <1>2 DEF QueueFields
<1>4. /\ p.waits = FALSE /\ p.head = Step(q.head)
      /\ p.taken = Append(q.taken, [asked |-> q.sent, of |-> q.cq[q.head].of])
      /\ p.phase = IF Step(q.head) = 0 THEN 1 - q.phase ELSE q.phase
  BY <1>2 DEF QueueFields
<1>5. /\ p.sq = q.sq /\ p.tail = q.tail /\ p.cq = q.cq /\ p.bit = q.bit /\ p.sent = q.sent
      /\ p.fetched = q.fetched /\ p.posted = q.posted /\ p.timeouts = q.timeouts /\ p.overrun = q.overrun
  BY <1>2 DEF QueueFields
<1>6. \A i \in Ring : Step(i) \in Ring
  BY SizeFacts DEF Step, Ring
<1>9. PICK a : /\ a = [asked |-> q.sent, of |-> q.cq[q.head].of] /\ a \in [asked : Nat, of : Nat]
               /\ a.asked = q.sent /\ a.of = q.cq[q.head].of
  <2>1. q.sent \in Nat /\ q.cq[q.head].of \in Nat
    BY <1>1 DEF QueueTyped
  <2>2. PICK x \in Nat, y \in Nat : x = q.sent /\ y = q.cq[q.head].of
    BY <2>1
  <2>3. PICK b : b = [asked |-> x, of |-> y]
    OBVIOUS
  <2>4. b \in [asked : Nat, of : Nat] /\ b.asked = x /\ b.of = y
    BY <2>3
  <2> QED
    BY <2>2, <2>3, <2>4
<1>10. PICK s \in Seq([asked : Nat, of : Nat]) : s = q.taken
  BY <1>1 DEF QueueTyped
<1>11. PICK t \in Nat : t = Len(s)
  BY LenProperties
<1>12. /\ p.taken = Append(s, a) /\ p.taken \in Seq([asked : Nat, of : Nat]) /\ Len(p.taken) = t + 1
       /\ p.taken[t + 1] = a /\ \A k \in 1 .. t : p.taken[k] = s[k]
  <2>1. p.taken = Append(s, a)
    BY <1>4, <1>9, <1>10
  <2>2. a \in [asked : Nat, of : Nat]
    BY <1>9
  <2>3. PICK V : V = [asked : Nat, of : Nat]
    OBVIOUS
  <2>4. s \in Seq(V) /\ a \in V
    BY <2>2, <2>3
  <2>5. PICK u : u = Append(s, a)
    OBVIOUS
  <2>6. u \in Seq(V) /\ Len(u) = t + 1 /\ u[t + 1] = a /\ \A k \in 1 .. t : u[k] = s[k]
    BY <2>4, <2>5, <1>11, AppendProperties
  <2> QED
    BY <2>1, <2>3, <2>5, <2>6
<1>7. QueueTyped(p)
  <2>1. q.head \in Ring /\ q.phase \in {0, 1}
    BY <1>1 DEF QueueTyped
  <2>2. p.head \in Ring /\ p.phase \in {0, 1} /\ p.waits \in BOOLEAN
    BY <1>4, <1>6, <2>1
  <2> QED
    BY <1>1, <1>3, <1>5, <1>12, <2>2 DEF QueueTyped
<1>8. ASSUME ~p.overrun PROVE Answered(p) /\ \E c \in Nat : RingsTrue(p, c)
  <2>1. ~q.overrun
    BY <1>5, <1>8
  <2>2. Answered(q)
    BY <2>1 DEF QueueInv
  <2>3. PICK c \in Nat : RingsTrue(q, c)
    BY <2>1 DEF QueueInv
  <2>4. PICK n \in Nat, w \in Nat : n = q.sent /\ w = q.timeouts
    BY <1>1 DEF QueueTyped
  <2>5. t <= c /\ c <= n /\ n - c < QSIZE /\ c - t < QSIZE
    BY <1>10, <1>11, <2>3, <2>4 DEF RingsTrue
  <2>6. q.head = Place(t) /\ q.phase = PhaseBit(t)
    BY <1>10, <1>11, <2>3 DEF RingsTrue
  <2>7. t < c
    <3> SUFFICES ASSUME t = c PROVE FALSE
      BY <2>5
    <3>1. t < t + QSIZE
      BY SizeFacts
    <3>2. q.cq[Place(t)].phase # PhaseBit(t)
      BY <1>10, <1>11, <2>3, <3>1 DEF RingsTrue
    <3> QED
      BY <2>6, <3>2
  <2>8. q.cq[Place(t)] = [phase |-> PhaseBit(t), of |-> t + 1]
    BY <1>10, <1>11, <2>3, <2>7 DEF RingsTrue
  <2>9. a.of = t + 1 /\ a.asked = n
    BY <1>9, <2>4, <2>6, <2>8
  <2>10. n = t + w + 1
    BY <1>10, <1>11, <2>2, <2>4 DEF Answered
  <2>11. Answered(p)
    <3>1. \A k \in 1 .. t : s[k].of = k /\ s[k].asked >= k
      BY <1>10, <1>11, <2>2 DEF Answered
    <3>2. \A k \in 1 .. t + 1 : k \in 1 .. t \/ k = t + 1
      OBVIOUS
    <3>3. n >= t + 1
      BY <2>10
    <3>4. \A k \in 1 .. t + 1 : p.taken[k].of = k /\ p.taken[k].asked >= k
      BY <1>12, <2>9, <3>1, <3>2, <3>3
    <3>5. ASSUME w = 0 PROVE \A k \in 1 .. t + 1 : p.taken[k].asked = p.taken[k].of
      <4>1. \A k \in 1 .. t : s[k].asked = s[k].of
        BY <1>10, <1>11, <2>2, <2>4, <3>5 DEF Answered
      <4>2. n = t + 1
        BY <2>10, <3>5
      <4> QED
        BY <1>12, <2>9, <3>2, <4>1, <4>2
    <3>6. p.sent = (t + 1) + w + 0
      <4>1. \A x, y \in Nat : x + y + 1 = (x + 1) + y + 0
        OBVIOUS
      <4> QED
        BY <1>5, <2>4, <2>10, <4>1
    <3> QED
      BY <1>4, <1>5, <1>12, <2>4, <3>4, <3>5, <3>6 DEF Answered
  <2>12. p.head = Place(t + 1) /\ p.phase = PhaseBit(t + 1)
    BY <1>4, <2>6, RingStep
  <2>13. /\ p.tail = Place(n) /\ p.fetched = Place(c) /\ p.posted = Place(c) /\ p.bit = PhaseBit(c) /\ p.sent = n
         /\ \A k \in Nat : c <= k /\ k < n => p.sq[Place(k)] = k + 1
    BY <1>5, <2>3, <2>4 DEF RingsTrue
  <2>14. \A k \in Nat : t + 1 <= k /\ k < c => p.cq[Place(k)] = [phase |-> PhaseBit(k), of |-> k + 1]
    <3>1. \A k \in Nat : t <= k /\ k < c => p.cq[Place(k)] = [phase |-> PhaseBit(k), of |-> k + 1]
      BY <1>5, <1>10, <1>11, <2>3 DEF RingsTrue
    <3>2. \A k \in Nat : t + 1 <= k => t <= k
      OBVIOUS
    <3> QED
      BY <3>1, <3>2
  <2>15. \A k \in Nat : c <= k /\ k < t + 1 + QSIZE => p.cq[Place(k)].phase # PhaseBit(k)
    <3>1. \A k \in Nat : c <= k /\ k < t + QSIZE => p.cq[Place(k)].phase # PhaseBit(k)
      BY <1>5, <1>10, <1>11, <2>3 DEF RingsTrue
    <3>2. p.cq[Place(t + QSIZE)].phase # PhaseBit(t + QSIZE)
      <4>1. Place(t + QSIZE) = Place(t) /\ PhaseBit(t + QSIZE) = 1 - PhaseBit(t) /\ PhaseBit(t) \in {0, 1}
        BY RingStep
      <4>2. p.cq[Place(t)].phase = PhaseBit(t)
        BY <1>5, <2>8
      <4> QED
        BY <4>1, <4>2
    <3>3. \A k \in Nat : k < t + 1 + QSIZE => k < t + QSIZE \/ k = t + QSIZE
      <4>1. \A k, x, y \in Nat : k < x + 1 + y => k < x + y \/ k = x + y
        BY BelowSum
      <4>2. PICK z \in Nat : z = QSIZE
        BY SizeFacts
      <4>3. \A k \in Nat : k < t + 1 + z => k < t + z \/ k = t + z
        BY <4>1
      <4> QED
        BY <4>2, <4>3
    <3> QED
      BY <3>1, <3>2, <3>3
  <2>16. t + 1 <= c /\ c - (t + 1) < QSIZE
    BY <2>5, <2>7, SizeFacts
  <2>17. RingsTrue(p, c)
    BY <1>12, <2>5, <2>12, <2>13, <2>14, <2>15, <2>16 DEF RingsTrue
  <2> QED
    BY <2>11, <2>17
<1> QED
  BY <1>7, <1>8 DEF QueueInv

LEMMA QueueTimesOut ==
  ASSUME NEW q, QueueInv(q), q.waits, NEW p, p = [q EXCEPT !.waits = FALSE, !.timeouts = @ + 1]
  PROVE  QueueInv(p)
<1>1. QueueTyped(q)
  BY DEF QueueInv
<1>2. DOMAIN q = QueueFields
  BY <1>1 DEF QueueTyped
<1>3. DOMAIN p = QueueFields
  BY <1>2 DEF QueueFields
<1>4. p.waits = FALSE /\ p.timeouts = q.timeouts + 1
  BY <1>2 DEF QueueFields
<1>5. /\ p.sq = q.sq /\ p.tail = q.tail /\ p.cq = q.cq /\ p.head = q.head /\ p.phase = q.phase /\ p.bit = q.bit
      /\ p.sent = q.sent /\ p.fetched = q.fetched /\ p.posted = q.posted /\ p.taken = q.taken /\ p.overrun = q.overrun
  BY <1>2 DEF QueueFields
<1>6. q.timeouts \in Nat /\ q.sent \in Nat
  BY <1>1 DEF QueueTyped
<1>7. QueueTyped(p)
  BY <1>1, <1>3, <1>4, <1>5, <1>6 DEF QueueTyped
<1>8. ASSUME ~p.overrun PROVE Answered(p) /\ \E c \in Nat : RingsTrue(p, c)
  <2>1. Answered(q) /\ \E c \in Nat : RingsTrue(q, c)
    BY <1>5, <1>8 DEF QueueInv
  <2>2. PICK c \in Nat : RingsTrue(q, c)
    BY <2>1
  <2>3. RingsTrue(p, c)
    BY <1>5, <2>2 DEF RingsTrue
  <2>4. PICK t \in Nat, w \in Nat : t = Len(q.taken) /\ w = q.timeouts
    BY <1>1, LenProperties DEF QueueTyped
  <2>5. q.sent = t + w + 1
    BY <2>1, <2>4 DEF Answered
  <2>6. q.sent = t + (w + 1) + 0 /\ p.timeouts # 0
    BY <1>4, <2>4, <2>5
  <2>7. Answered(p)
    BY <1>4, <1>5, <2>1, <2>4, <2>6 DEF Answered
  <2> QED
    BY <2>3, <2>7
<1> QED
  BY <1>7, <1>8 DEF QueueInv

LEMMA NvBegins ==
  ASSUME NvInit
  PROVE  NvInv
<1>1. DOMAIN nv = {"stage", "admin", "io"} /\ nv.admin = NvQueue /\ nv.io = NvQueue
  BY DEF NvInit
<1> QED
  BY <1>1, QueueBegins DEF NvInv

(* A step on one queue leaves the other alone.                             *)
LEMMA OneQueue ==
  ASSUME NvInv, NEW name \in {"admin", "io"}, NEW p, QueueInv(p),
         nv' = [nv EXCEPT ![name] = p] \/ \E st : nv' = [nv EXCEPT !.stage = st, ![name] = p]
  PROVE  NvInv'
<1>1. DOMAIN nv = {"stage", "admin", "io"} /\ \A m \in {"admin", "io"} : QueueInv(nv[m])
  BY DEF NvInv
<1>2. DOMAIN nv' = {"stage", "admin", "io"} /\ \A m \in {"admin", "io"} : nv'[m] = IF m = name THEN p ELSE nv[m]
  <2>1. CASE nv' = [nv EXCEPT ![name] = p]
    BY <1>1, <2>1
  <2>2. ASSUME NEW st, nv' = [nv EXCEPT !.stage = st, ![name] = p]
        PROVE  DOMAIN nv' = {"stage", "admin", "io"} /\ \A m \in {"admin", "io"} : nv'[m] = IF m = name THEN p ELSE nv[m]
    BY <1>1, <2>2
  <2> QED
    BY <2>1, <2>2
<1>3. \A m \in {"admin", "io"} : QueueInv(nv'[m])
  BY <1>1, <1>2
<1> QED
  BY <1>2, <1>3 DEF NvInv

LEMMA NvGoesOn ==
  ASSUME NvInv, [NvNext]_nv
  PROVE  NvInv'
<1>0. \A name \in {"admin", "io"} : QueueInv(nv[name])
  BY DEF NvInv
<1>1. ASSUME NEW name \in {"admin", "io"}, NvSubmit(name) PROVE NvInv'
  <2>1. PICK q : q = nv[name]
    OBVIOUS
  <2>2. PICK p : p = [q EXCEPT !.sq[q.tail] = q.sent + 1, !.tail = Step(@), !.sent = @ + 1, !.waits = TRUE,
                               !.overrun = @ \/ Step(q.tail) = q.fetched]
    OBVIOUS
  <2>3. ~q.waits /\ nv' = [nv EXCEPT ![name] = p]
    BY <1>1, <2>1, <2>2 DEF NvSubmit
  <2>4. QueueInv(p)
    BY <1>0, <2>1, <2>2, <2>3, QueueSubmits
  <2> QED
    BY <2>3, <2>4, OneQueue
<1>2. ASSUME NEW name \in {"admin", "io"}, NvComplete(name) PROVE NvInv'
  <2>1. PICK q : q = nv[name]
    OBVIOUS
  <2>2. PICK p : p = [q EXCEPT !.cq[q.posted] = [phase |-> q.bit, of |-> q.sq[q.fetched]],
                               !.fetched = Step(@), !.posted = Step(@),
                               !.bit = IF Step(q.posted) = 0 THEN 1 - @ ELSE @]
    OBVIOUS
  <2>3. q.fetched # q.tail /\ Step(q.posted) # q.head /\ nv' = [nv EXCEPT ![name] = p]
    BY <1>2, <2>1, <2>2 DEF NvComplete
  <2>4. QueueInv(p)
    BY <1>0, <2>1, <2>2, <2>3, QueueCompletes
  <2> QED
    BY <2>3, <2>4, OneQueue
<1>3. ASSUME NEW name \in {"admin", "io"}, NvTake(name) PROVE NvInv'
  <2>1. PICK q : q = nv[name]
    OBVIOUS
  <2>2. PICK p : p = [q EXCEPT !.waits = FALSE, !.head = Step(@),
                               !.taken = Append(@, [asked |-> q.sent, of |-> q.cq[q.head].of]),
                               !.phase = IF Step(q.head) = 0 THEN 1 - @ ELSE @]
    OBVIOUS
  <2>3. q.waits /\ q.cq[q.head].phase = q.phase /\ \E st : nv' = [nv EXCEPT !.stage = st, ![name] = p]
    BY <1>3, <2>1, <2>2 DEF NvTake
  <2>4. QueueInv(p)
    BY <1>0, <2>1, <2>2, <2>3, QueueTakes
  <2> QED
    BY <2>3, <2>4, OneQueue
<1>4. ASSUME NEW name \in {"admin", "io"}, NvTimeout(name) PROVE NvInv'
  <2>1. PICK q : q = nv[name]
    OBVIOUS
  <2>2. PICK p : p = [q EXCEPT !.waits = FALSE, !.timeouts = @ + 1]
    OBVIOUS
  <2>3. q.waits /\ \E st : nv' = [nv EXCEPT !.stage = st, ![name] = p]
    BY <1>4, <2>1, <2>2 DEF NvTimeout
  <2>4. QueueInv(p)
    BY <1>0, <2>1, <2>2, <2>3, QueueTimesOut
  <2> QED
    BY <2>3, <2>4, OneQueue
<1>5. CASE NvStart
  <2>1. nv' = [nv EXCEPT !.stage = "create_cq"] /\ DOMAIN nv = {"stage", "admin", "io"}
    BY <1>5 DEF NvStart, NvInv
  <2>2. DOMAIN nv' = {"stage", "admin", "io"} /\ \A m \in {"admin", "io"} : nv'[m] = nv[m]
    BY <2>1
  <2>3. \A m \in {"admin", "io"} : QueueInv(nv'[m])
    BY <1>0, <2>2
  <2> QED
    BY <2>2, <2>3 DEF NvInv
<1>6. CASE UNCHANGED nv
  BY <1>6 DEF NvInv
<1> QED
  BY <1>1, <1>2, <1>3, <1>4, <1>5, <1>6 DEF NvNext, NvInitCommand, NvTransfer

LEMMA NvPromises ==
  ASSUME NvInv
  PROVE  NvTrue /\ \A name \in {"admin", "io"} : nv[name].tail \in Ring /\ nv[name].head \in Ring
<1>1. ASSUME NEW q, QueueInv(q), ~q.overrun
      PROVE  /\ \A k \in DOMAIN q.taken : q.taken[k].of = k /\ q.taken[k].asked >= k
             /\ q.timeouts = 0 => \A k \in DOMAIN q.taken : q.taken[k].asked = q.taken[k].of
             /\ q.sent = Len(q.taken) + q.timeouts + (IF q.waits THEN 1 ELSE 0)
  <2>1. DOMAIN q.taken = 1 .. Len(q.taken)
    BY <1>1, LenProperties DEF QueueInv, QueueTyped
  <2>2. Answered(q)
    BY <1>1 DEF QueueInv
  <2> QED
    BY <2>1, <2>2 DEF Answered
<1>2. NvTrue
  BY <1>1 DEF NvTrue, NvInv
<1>3. \A name \in {"admin", "io"} : nv[name].tail \in Ring /\ nv[name].head \in Ring
  BY DEF NvInv, QueueInv, QueueTyped
<1> QED
  BY <1>2, <1>3

DriveInv == IdeInv /\ PartInv /\ NvInv

LEMMA DrivePromises ==
  ASSUME DriveInv
  PROVE  DriveTypeOK /\ IdeTrue /\ PartTrue /\ NvTrue
<1>1. PartTrue /\ partJob.disk \in PartDisks /\ partJob.phase \in {"mbr", "header", "entries", "ok", "failed"}
  BY DEF DriveInv, PartInv, PartRecord
<1> QED
  BY <1>1, IdePromises, NvPromises DEF DriveInv, DriveTypeOK

-----------------------------------------------------------------------------
(* Probes *)

(* A task that is alone between a hit and its single step has the only     *)
(* probe that is in a step.                                                *)
Steps(t, i) == stepper[t].tf /\ stepper[t].at = probes[i].addr

Alone ==
  /\ \A t \in ProbeTasks :
       /\ stepper[t].calls \in {<<>>, <<"ran">>, <<"pre">>, <<"pre", "ran", "post">>}
       /\ stepper[t].tf <=> stepper[t].calls = <<"pre">>
       /\ stepper[t].tf <=> stepper[t].at # NoPlace
       /\ stepper[t].tf => \E i \in ProbeIds : probes[i].active /\ probes[i].stepping /\ probes[i].addr = stepper[t].at
       /\ \A u \in ProbeTasks : stepper[t].tf /\ stepper[u].tf => t = u
  /\ \A i \in ProbeIds : probes[i].active /\ probes[i].stepping => \E t \in ProbeTasks : Steps(t, i)

Armed(i) == probes[i].active /\ ~probes[i].stepping

ProbeKept ==
  /\ \A a \in Spots : code[a] = "int3" <=> \E i \in ProbeIds : Armed(i) /\ probes[i].addr = a
  /\ \A i, j \in ProbeIds : probes[i].active /\ probes[j].active /\ probes[i].addr = probes[j].addr => i = j
  /\ \A i \in ProbeIds : probes[i].active => probes[i].saved = "own" /\ probes[i].addr \in Spots

CallNames == {"pre", "ran", "missed", "post", "skipped"}

ProbeTyped ==
  /\ ProbeTypeOK
  /\ stepper \in [ProbeTasks -> [at : Spots \cup {NoPlace}, tf : BOOLEAN, calls : Seq(CallNames)]]

ProbeInv == ProbeTyped /\ ProbeKept /\ (vectors = "kprobes" /\ ~mixed => Alone)

LEMMA ProbeBegins ==
  ASSUME ProbeInit
  PROVE  ProbeInv
<1>1. \A i \in ProbeIds : probes[i] = NoProbe
  BY DEF ProbeInit
<1>2. NoProbe.active = FALSE
  BY DEF NoProbe
<1>3. NoProbe \in [addr : Spots \cup {NoPlace}, saved : {"own", "int3"}, active : BOOLEAN, stepping : BOOLEAN]
  BY DEF NoProbe
<1>4. <<>> \in Seq(CallNames)
  OBVIOUS
<1>5. [at |-> NoPlace, tf |-> FALSE, calls |-> <<>>] \in [at : Spots \cup {NoPlace}, tf : BOOLEAN, calls : Seq(CallNames)]
  BY <1>4
<1>6. \A t \in ProbeTasks : stepper[t].at = NoPlace /\ stepper[t].tf = FALSE /\ stepper[t].calls = <<>>
  BY DEF ProbeInit
<1>7. ProbeTyped
  <2>1. stepper \in [ProbeTasks -> [at : Spots \cup {NoPlace}, tf : BOOLEAN, calls : Seq(CallNames)]]
    BY <1>5 DEF ProbeInit
  <2>2. probes \in [ProbeIds -> [addr : Spots \cup {NoPlace}, saved : {"own", "int3"}, active : BOOLEAN, stepping : BOOLEAN]]
    BY <1>3 DEF ProbeInit
  <2>3. code \in [Spots -> {"own", "int3"}] /\ vectors \in {"kprobes", "gdb"} /\ mixed \in BOOLEAN
    BY DEF ProbeInit
  <2> QED
    BY <1>6, <2>1, <2>2, <2>3 DEF ProbeTyped, ProbeTypeOK
<1>8. ProbeKept
  <2>1. \A a \in Spots : code[a] = "own"
    BY DEF ProbeInit
  <2> QED
    BY <1>1, <1>2, <2>1 DEF ProbeKept, Armed
<1>9. Alone
  <2>1. <<>> # <<"pre">>
    OBVIOUS
  <2> QED
    BY <1>1, <1>2, <1>6, <2>1 DEF Alone
<1> QED
  BY <1>7, <1>8, <1>9 DEF ProbeInv

LEMMA ProbeIdFacts ==
  /\ ProbeIds \subseteq Nat
  /\ \A a : FindProbe(a) \subseteq ProbeIds
  /\ \A S \in SUBSET ProbeIds : S # {} => Min(S) \in S
<1>1. ProbeIds \subseteq Nat
  BY DebugAssumption DEF ProbeIds
<1>2. ASSUME NEW S \in SUBSET ProbeIds, S # {} PROVE Min(S) \in S
  BY <1>1, <1>2, MinFacts
<1> QED
  BY <1>1, <1>2 DEF FindProbe

(* The one probe of an instruction, where there is one.                    *)
LEMMA TheProbe ==
  ASSUME ProbeInv, NEW a \in Spots, NEW i \in ProbeIds, probes[i].active, probes[i].addr = a
  PROVE  FindProbe(a) = {i} /\ Min(FindProbe(a)) = i /\ probes[i].saved = "own"
<1>1. FindProbe(a) = {i} /\ probes[i].saved = "own"
  BY DEF FindProbe, ProbeInv, ProbeKept
<1>2. Min({i}) = i
  BY ProbeIdFacts
<1> QED
  BY <1>1, <1>2

(* A probe whose assignment is to single fields.                           *)
ProbeEdit(p, i, b, c) ==
  \/ p = [probes EXCEPT ![i].stepping = b, ![i].active = c]
  \/ p = [probes EXCEPT ![i].stepping = b] /\ c = probes[i].active
  \/ p = [probes EXCEPT ![i].active = c] /\ b = probes[i].stepping

ProbeSet == [addr : Spots \cup {NoPlace}, saved : {"own", "int3"}, active : BOOLEAN, stepping : BOOLEAN]

ProbeIs(p, i, b, c) ==
  /\ p \in [ProbeIds -> ProbeSet]
  /\ \A j \in ProbeIds : p[j].addr = probes[j].addr /\ p[j].saved = probes[j].saved
  /\ p[i].stepping = b /\ p[i].active = c
  /\ \A j \in ProbeIds \ {i} : p[j] = probes[j]

LEMMA ProbeEdits ==
  ASSUME ProbeTyped, NEW i \in ProbeIds, NEW b \in BOOLEAN, NEW c \in BOOLEAN, NEW p, ProbeEdit(p, i, b, c)
  PROVE  ProbeIs(p, i, b, c)
<1>1. probes \in [ProbeIds -> [addr : Spots \cup {NoPlace}, saved : {"own", "int3"}, active : BOOLEAN, stepping : BOOLEAN]]
  BY DEF ProbeTyped, ProbeTypeOK
<1>2. PICK a \in Spots \cup {NoPlace}, s \in {"own", "int3"}, d \in BOOLEAN, e \in BOOLEAN :
        probes[i] = [addr |-> a, saved |-> s, active |-> d, stepping |-> e]
  BY <1>1
<1>3. probes[i].addr = a /\ probes[i].saved = s /\ probes[i].active = d /\ probes[i].stepping = e
  BY <1>2
<1>4. PICK r : r = [addr |-> a, saved |-> s, active |-> c, stepping |-> b]
  OBVIOUS
<1>5. r.addr = a /\ r.saved = s /\ r.active = c /\ r.stepping = b
      /\ r \in [addr : Spots \cup {NoPlace}, saved : {"own", "int3"}, active : BOOLEAN, stepping : BOOLEAN]
  BY <1>4
<1>6. PICK x : x = probes[i]
  OBVIOUS
<1>7. /\ [x EXCEPT !.stepping = b] = [addr |-> a, saved |-> s, active |-> d, stepping |-> b]
      /\ [x EXCEPT !.active = c] = [addr |-> a, saved |-> s, active |-> c, stepping |-> e]
  BY <1>2, <1>6
<1>8. p[i] = r /\ p \in [ProbeIds -> {r} \cup {probes[j] : j \in ProbeIds}] /\ \A j \in ProbeIds \ {i} : p[j] = probes[j]
  <2>1. CASE p = [probes EXCEPT ![i].stepping = b] /\ c = probes[i].active
    BY <1>1, <1>3, <1>4, <1>6, <1>7, <2>1
  <2>2. CASE p = [probes EXCEPT ![i].active = c] /\ b = probes[i].stepping
    BY <1>1, <1>3, <1>4, <1>6, <1>7, <2>2
  <2>3. CASE p = [probes EXCEPT ![i].stepping = b, ![i].active = c]
    <3>1. PICK y : y = [addr |-> a, saved |-> s, active |-> d, stepping |-> b]
      OBVIOUS
    <3>2. PICK m : m = [probes EXCEPT ![i].stepping = b]
      OBVIOUS
    <3>3. m = [probes EXCEPT ![i] = y]
      BY <1>1, <1>6, <1>7, <3>1, <3>2
    <3>4. m[i] = y /\ DOMAIN m = ProbeIds /\ \A j \in ProbeIds \ {i} : m[j] = probes[j]
      BY <1>1, <3>3
    <3>5. [y EXCEPT !.active = c] = r
      BY <1>4, <3>1
    <3>6. p = [m EXCEPT ![i].active = c]
      BY <2>3, <3>2
    <3>7. p = [m EXCEPT ![i] = r]
      BY <3>4, <3>5, <3>6
    <3> QED
      BY <1>1, <3>3, <3>4, <3>7
  <2> QED
    BY <2>1, <2>2, <2>3 DEF ProbeEdit
<1>9. \A z \in {r} \cup {probes[j] : j \in ProbeIds} :
        z \in [addr : Spots \cup {NoPlace}, saved : {"own", "int3"}, active : BOOLEAN, stepping : BOOLEAN]
  BY <1>1, <1>5
<1>10. p \in [ProbeIds -> [addr : Spots \cup {NoPlace}, saved : {"own", "int3"}, active : BOOLEAN, stepping : BOOLEAN]]
  BY <1>8, <1>9
<1> QED
  BY <1>3, <1>5, <1>8, <1>10 DEF ProbeIs, ProbeSet

Stepped == [at : Spots \cup {NoPlace}, tf : BOOLEAN, calls : Seq(CallNames)]

LEMMA StepperStays ==
  ASSUME ProbeInv, NEW t \in ProbeTasks
  PROVE  /\ stepper[t] \in Stepped /\ Before(t) \in Seq(CallNames)
         /\ \E p, f, c : stepper[t] = [at |-> p, tf |-> f, calls |-> c] /\ p \in Spots \cup {NoPlace} /\ f \in BOOLEAN
<1>1. stepper[t] \in Stepped
  BY DEF ProbeInv, ProbeTyped, Stepped
<1>2. <<>> \in Seq(CallNames)
  OBVIOUS
<1>3. stepper[t].calls \in Seq(CallNames)
  BY <1>1 DEF Stepped
<1>4. Before(t) \in Seq(CallNames)
  BY <1>2, <1>3 DEF Before
<1> QED
  BY <1>1, <1>4 DEF Stepped

(* What one task does is typed.                                            *)
LEMMA StepperTyped ==
  ASSUME ProbeInv, NEW t \in ProbeTasks, NEW s \in Stepped, stepper' = [stepper EXCEPT ![t] = s]
  PROVE  /\ stepper' \in [ProbeTasks -> Stepped] /\ stepper'[t] = s
         /\ \A u \in ProbeTasks \ {t} : stepper'[u] = stepper[u]
         /\ \A u \in ProbeTasks : stepper'[u].at \in Spots \cup {NoPlace} /\ stepper'[u].tf \in BOOLEAN
<1>1. stepper \in [ProbeTasks -> Stepped]
  BY DEF ProbeInv, ProbeTyped, Stepped
<1>2. stepper' \in [ProbeTasks -> Stepped] /\ stepper'[t] = s /\ \A u \in ProbeTasks \ {t} : stepper'[u] = stepper[u]
  BY <1>1
<1>3. \A u \in ProbeTasks : stepper'[u] \in Stepped
  BY <1>2
<1>4. \A u \in ProbeTasks : stepper'[u].at \in Spots \cup {NoPlace} /\ stepper'[u].tf \in BOOLEAN
  BY <1>3 DEF Stepped
<1> QED
  BY <1>2, <1>4

LEMMA StubKeepsProbes ==
  ASSUME ProbeInv, StubTakesOver \/ UNCHANGED probeVars
  PROVE  ProbeInv'
<1>1. UNCHANGED <<code, probes, stepper, mixed>> /\ vectors' \in {vectors, "gdb"}
  BY DEF StubTakesOver, probeVars
<1>2. ProbeTyped'
  BY <1>1 DEF ProbeInv, ProbeTyped, ProbeTypeOK
<1>3. ProbeKept'
  BY <1>1 DEF ProbeInv, ProbeKept, Armed
<1>4. ASSUME vectors' = "kprobes", ~mixed' PROVE Alone'
  <2>1. Alone
    BY <1>1, <1>4 DEF ProbeInv
  <2> QED
    BY <1>1, <2>1 DEF Alone, Steps
<1> QED
  BY <1>2, <1>3, <1>4 DEF ProbeInv

LEMMA RegisterKeeps ==
  ASSUME ProbeInv, NEW a \in Spots, Register(a)
  PROVE  ProbeInv'
<1>1. PICK i \in ProbeIds :
        /\ ~probes[i].active
        /\ probes' = [probes EXCEPT ![i] = [addr |-> a, saved |-> code[a], active |-> TRUE, stepping |-> FALSE]]
  <2>1. PICK free : free = {i \in ProbeIds : ~probes[i].active}
    OBVIOUS
  <2>2. free # {} /\ free \in SUBSET ProbeIds
    BY <2>1 DEF Register
  <2>3. Min(free) \in free
    BY <2>2, ProbeIdFacts
  <2> QED
    BY <2>1, <2>3 DEF Register
<1>2. /\ FindProbe(a) = {} /\ code' = [code EXCEPT ![a] = "int3"] /\ mixed' = (mixed \/ Stepping(ProbeTasks))
      /\ stepper' = stepper /\ vectors' = vectors
  BY DEF Register
<1>3. \A j \in ProbeIds : probes[j].active => probes[j].addr # a
  BY <1>2 DEF FindProbe
<1>4. code \in [Spots -> {"own", "int3"}]
      /\ probes \in [ProbeIds -> [addr : Spots \cup {NoPlace}, saved : {"own", "int3"}, active : BOOLEAN, stepping : BOOLEAN]]
  BY DEF ProbeInv, ProbeTyped, ProbeTypeOK
<1>5. code[a] = "own"
  BY <1>3, <1>4 DEF ProbeInv, ProbeKept, Armed
<1>6. PICK r : r = [addr |-> a, saved |-> "own", active |-> TRUE, stepping |-> FALSE]
  OBVIOUS
<1>7. /\ r.addr = a /\ r.saved = "own" /\ r.active = TRUE /\ r.stepping = FALSE
      /\ r \in [addr : Spots \cup {NoPlace}, saved : {"own", "int3"}, active : BOOLEAN, stepping : BOOLEAN]
  BY <1>6
<1>8. probes' = [probes EXCEPT ![i] = r]
  BY <1>1, <1>5, <1>6
<1>9. probes'[i] = r /\ \A j \in ProbeIds \ {i} : probes'[j] = probes[j]
  BY <1>4, <1>8
<1>10. ProbeTyped'
  <2>1. probes' \in [ProbeIds -> [addr : Spots \cup {NoPlace}, saved : {"own", "int3"}, active : BOOLEAN, stepping : BOOLEAN]]
    BY <1>4, <1>7, <1>8
  <2>2. code' \in [Spots -> {"own", "int3"}] /\ mixed' \in BOOLEAN
    BY <1>2, <1>4 DEF ProbeInv, ProbeTyped, ProbeTypeOK
  <2> QED
    BY <1>2, <2>1, <2>2 DEF ProbeInv, ProbeTyped, ProbeTypeOK
<1>11. ProbeKept'
  <2>1. ASSUME NEW b \in Spots PROVE code'[b] = "int3" <=> \E j \in ProbeIds : Armed(j)' /\ probes'[j].addr = b
    <3>1. CASE b = a
      <4>1. code'[b] = "int3" /\ Armed(i)' /\ probes'[i].addr = b
        BY <1>2, <1>4, <1>7, <1>9, <3>1 DEF Armed
      <4> QED
        BY <4>1
    <3>2. CASE b # a
      <4>1. code'[b] = code[b]
        BY <1>2, <1>4, <3>2
      <4>2. code[b] = "int3" <=> \E j \in ProbeIds : Armed(j) /\ probes[j].addr = b
        BY DEF ProbeInv, ProbeKept
      <4>3. \A j \in ProbeIds \ {i} : (Armed(j)' <=> Armed(j)) /\ probes'[j].addr = probes[j].addr
        BY <1>9 DEF Armed
      <4>4. ~Armed(i) /\ probes'[i].addr # b
        BY <1>1, <1>7, <1>9, <3>2 DEF Armed
      <4> QED
        BY <4>1, <4>2, <4>3, <4>4
    <3> QED
      BY <3>1, <3>2
  <2>2. \A j, k \in ProbeIds : probes'[j].active /\ probes'[k].active /\ probes'[j].addr = probes'[k].addr => j = k
    <3>1. \A j, k \in ProbeIds : probes[j].active /\ probes[k].active /\ probes[j].addr = probes[k].addr => j = k
      BY DEF ProbeInv, ProbeKept
    <3> QED
      BY <1>3, <1>7, <1>9, <3>1
  <2>3. \A j \in ProbeIds : probes'[j].active => probes'[j].saved = "own" /\ probes'[j].addr \in Spots
    BY <1>7, <1>9 DEF ProbeInv, ProbeKept
  <2> QED
    BY <2>1, <2>2, <2>3 DEF ProbeKept
<1>12. ASSUME vectors' = "kprobes", ~mixed' PROVE Alone'
  <2>1. Alone /\ \A t \in ProbeTasks : ~stepper[t].tf
    BY <1>2, <1>12 DEF ProbeInv, Stepping
  <2>2. \A j \in ProbeIds : ~(probes[j].active /\ probes[j].stepping)
    BY <2>1 DEF Alone, Steps
  <2>3. \A j \in ProbeIds : ~(probes'[j].active /\ probes'[j].stepping)
    BY <1>7, <1>9, <2>2
  <2>4. \A t \in ProbeTasks :
          /\ stepper'[t].calls \in {<<>>, <<"ran">>, <<"pre">>, <<"pre", "ran", "post">>}
          /\ stepper'[t].tf <=> stepper'[t].calls = <<"pre">>
          /\ stepper'[t].tf <=> stepper'[t].at # NoPlace
          /\ ~stepper'[t].tf
    BY <1>2, <2>1 DEF Alone
  <2> QED
    BY <2>3, <2>4 DEF Alone
<1> QED
  BY <1>10, <1>11, <1>12 DEF ProbeInv

LEMMA UnregisterKeeps ==
  ASSUME ProbeInv, NEW a \in Spots, Unregister(a)
  PROVE  ProbeInv'
<1>1. PICK i \in ProbeIds : probes[i].active /\ probes[i].addr = a
  BY DEF Unregister, FindProbe
<1>2. FindProbe(a) = {i} /\ Min(FindProbe(a)) = i /\ probes[i].saved = "own"
  BY <1>1, TheProbe
<1>3. /\ probes' = [probes EXCEPT ![i].active = FALSE] /\ code' = [code EXCEPT ![a] = "own"]
      /\ mixed' = (mixed \/ Stepping(ProbeTasks)) /\ stepper' = stepper /\ vectors' = vectors
  BY <1>2 DEF Unregister
<1>4. code \in [Spots -> {"own", "int3"}]
      /\ probes \in [ProbeIds -> [addr : Spots \cup {NoPlace}, saved : {"own", "int3"}, active : BOOLEAN, stepping : BOOLEAN]]
  BY DEF ProbeInv, ProbeTyped, ProbeTypeOK
<1>5. PICK s \in BOOLEAN : s = probes[i].stepping
  BY <1>4
<1>6. /\ probes' \in [ProbeIds -> [addr : Spots \cup {NoPlace}, saved : {"own", "int3"}, active : BOOLEAN, stepping : BOOLEAN]]
      /\ \A j \in ProbeIds : probes'[j].addr = probes[j].addr /\ probes'[j].saved = probes[j].saved
      /\ probes'[i].active = FALSE /\ \A j \in ProbeIds \ {i} : probes'[j] = probes[j]
  <2>1. ProbeTyped
    BY DEF ProbeInv
  <2>2. PICK p : p = probes'
    OBVIOUS
  <2>3. PICK c \in BOOLEAN : c = FALSE
    OBVIOUS
  <2>4. ProbeEdit(p, i, s, c)
    BY <1>3, <1>5, <2>2, <2>3 DEF ProbeEdit
  <2>5. ProbeIs(p, i, s, c)
    BY <2>1, <2>4, ProbeEdits
  <2> QED
    BY <2>2, <2>3, <2>5 DEF ProbeIs, ProbeSet
<1>7. ProbeTyped'
  <2>1. code' \in [Spots -> {"own", "int3"}] /\ mixed' \in BOOLEAN
    BY <1>3, <1>4 DEF ProbeInv, ProbeTyped, ProbeTypeOK
  <2> QED
    BY <1>3, <1>6, <2>1 DEF ProbeInv, ProbeTyped, ProbeTypeOK
<1>8. ProbeKept'
  <2>0. \A j, k \in ProbeIds : probes[j].active /\ probes[k].active /\ probes[j].addr = probes[k].addr => j = k
    BY DEF ProbeInv, ProbeKept
  <2>1. ASSUME NEW b \in Spots PROVE code'[b] = "int3" <=> \E j \in ProbeIds : Armed(j)' /\ probes'[j].addr = b
    <3>1. CASE b = a
      <4>1. code'[b] # "int3"
        BY <1>3, <1>4, <3>1
      <4>2. ASSUME NEW j \in ProbeIds, Armed(j)', probes'[j].addr = b PROVE FALSE
        <5>1. j # i /\ probes[j].active /\ probes[j].addr = a
          BY <1>6, <3>1, <4>2 DEF Armed
        <5> QED
          BY <1>1, <2>0, <5>1
      <4> QED
        BY <4>1, <4>2
    <3>2. CASE b # a
      <4>1. code'[b] = code[b]
        BY <1>3, <1>4, <3>2
      <4>2. code[b] = "int3" <=> \E j \in ProbeIds : Armed(j) /\ probes[j].addr = b
        BY DEF ProbeInv, ProbeKept
      <4>3. \A j \in ProbeIds \ {i} : (Armed(j)' <=> Armed(j)) /\ probes'[j].addr = probes[j].addr
        BY <1>6 DEF Armed
      <4>4. ~Armed(i)' /\ probes[i].addr # b
        BY <1>1, <1>6, <3>2 DEF Armed
      <4> QED
        BY <4>1, <4>2, <4>3, <4>4
    <3> QED
      BY <3>1, <3>2
  <2>2. \A j, k \in ProbeIds : probes'[j].active /\ probes'[k].active /\ probes'[j].addr = probes'[k].addr => j = k
    BY <1>6, <2>0
  <2>3. \A j \in ProbeIds : probes'[j].active => probes'[j].saved = "own" /\ probes'[j].addr \in Spots
    BY <1>6 DEF ProbeInv, ProbeKept
  <2> QED
    BY <2>1, <2>2, <2>3 DEF ProbeKept
<1>9. ASSUME vectors' = "kprobes", ~mixed' PROVE Alone'
  <2>1. Alone /\ \A t \in ProbeTasks : ~stepper[t].tf
    BY <1>3, <1>9 DEF ProbeInv, Stepping
  <2>2. \A j \in ProbeIds : ~(probes[j].active /\ probes[j].stepping)
    BY <2>1 DEF Alone, Steps
  <2>3. \A j \in ProbeIds : ~(probes'[j].active /\ probes'[j].stepping)
    BY <1>6, <2>2
  <2>4. \A t \in ProbeTasks :
          /\ stepper'[t].calls \in {<<>>, <<"ran">>, <<"pre">>, <<"pre", "ran", "post">>}
          /\ stepper'[t].tf <=> stepper'[t].calls = <<"pre">>
          /\ stepper'[t].tf <=> stepper'[t].at # NoPlace
          /\ ~stepper'[t].tf
    BY <1>3, <2>1 DEF Alone
  <2> QED
    BY <2>3, <2>4 DEF Alone
<1> QED
  BY <1>7, <1>8, <1>9 DEF ProbeInv

(* what Append leaves and adds                                             *)
LEMMA AppendFacts ==
  ASSUME NEW S, NEW s \in Seq(S), NEW e \in S
  PROVE  /\ Append(s, e) \in Seq(S) /\ Len(Append(s, e)) = Len(s) + 1
         /\ \A i \in 1 .. Len(s) : Append(s, e)[i] = s[i]
         /\ Append(s, e)[Len(s) + 1] = e
BY AppendProperties

LEMMA Appended ==
  ASSUME NEW S, NEW s \in Seq(S), NEW e \in S
  PROVE  \E u \in Seq(S) : /\ u = Append(s, e) /\ Len(u) = Len(s) + 1
         /\ (\A i \in 1 .. Len(s) : u[i] = s[i])
         /\ u[Len(s) + 1] = e
BY AppendFacts, Zenon

(* one more behind one element, or behind two                             *)
LEMMA AppendShort ==
  ASSUME NEW S, NEW t \in Seq(S), NEW e \in S
  PROVE  /\ Len(t) = 1 => Append(t, e) = <<t[1], e>>
         /\ Len(t) = 2 => Append(t, e) = <<t[1], t[2], e>>
<1>1. PICK u \in Seq(S) : u = Append(t, e) /\ Len(u) = Len(t) + 1 /\ (\A i \in 1 .. Len(t) : u[i] = t[i]) /\ u[Len(t) + 1] = e
  BY Appended, Zenon
<1>2. ASSUME Len(t) = 1 PROVE u = <<t[1], e>>
  <2>1. Len(u) = 2 /\ u[1] = t[1] /\ u[2] = e
    BY <1>1, <1>2
  <2> QED
    BY <2>1
<1>3. ASSUME Len(t) = 2 PROVE u = <<t[1], t[2], e>>
  <2>1. Len(u) = 3 /\ u[1] = t[1] /\ u[2] = t[2] /\ u[3] = e
    BY <1>1, <1>3
  <2> QED
    BY <2>1
<1> QED
  BY <1>1, <1>2, <1>3, Zenon

LEMMA Called ==
  ASSUME NEW s \in Seq(CallNames), NEW c \in CallNames
  PROVE  Append(s, c) \in Seq(CallNames)
BY AppendProperties

LEMMA WholeHit ==
  ASSUME NEW r, r = Append(<<"pre">>, "ran")
  PROVE  Append(r, "post") = <<"pre", "ran", "post">>
<1>1. PICK S : S = {"pre", "ran", "post"}
  OBVIOUS
<1>2. PICK t : t = <<"pre">>
  OBVIOUS
<1>3. t \in Seq(S) /\ Len(t) = 1 /\ t[1] = "pre" /\ "ran" \in S /\ "post" \in S
  BY <1>1, <1>2
<1>4. Append(t, "ran") = <<t[1], "ran">>
  BY <1>3, AppendShort, Zenon
<1>5. r = <<"pre", "ran">>
  BY <1>2, <1>3, <1>4, Zenon
<1>6. r \in Seq(S) /\ Len(r) = 2 /\ r[1] = "pre" /\ r[2] = "ran"
  BY <1>5, <1>3
<1>7. Append(r, "post") = <<r[1], r[2], "post">>
  BY <1>3, <1>6, AppendShort, Zenon
<1> QED
  BY <1>6, <1>7, Zenon

LEMMA HitKeeps ==
  ASSUME ProbeInv, NEW t \in ProbeTasks, NEW a \in Spots, NEW removes \in BOOLEAN, Hit(t, a, removes)
  PROVE  ProbeInv'
<1>0. ProbeTyped /\ ProbeKept
  BY DEF ProbeInv
<1>1. PICK i \in ProbeIds : probes[i].active /\ ~probes[i].stepping /\ probes[i].addr = a
  BY <1>0 DEF Hit, ProbeKept, Armed
<1>2. FindProbe(a) = {i} /\ Min(FindProbe(a)) = i /\ probes[i].saved = "own"
  BY <1>1, TheProbe
<1>3. /\ code' = [code EXCEPT ![a] = "own"]
      /\ probes' = [probes EXCEPT ![i].stepping = TRUE, ![i].active = ~removes]
      /\ stepper' = [stepper EXCEPT ![t] = [at |-> a, tf |-> TRUE, calls |-> Append(Before(t), "pre")]]
      /\ mixed' = (mixed \/ removes \/ Stepping(ProbeTasks \ {t})) /\ vectors' = vectors
      /\ stepper[t].at \in {NoPlace, a} /\ code[a] = "int3"
  BY <1>2 DEF Hit, Reaches
<1>4. code \in [Spots -> {"own", "int3"}] /\ probes \in [ProbeIds -> ProbeSet]
  BY <1>0 DEF ProbeTyped, ProbeTypeOK, ProbeSet
<1>5. ProbeIs(probes', i, TRUE, ~removes)
  <2>1. PICK p : p = probes'
    OBVIOUS
  <2>2. PICK b \in BOOLEAN : b = TRUE
    OBVIOUS
  <2>3. PICK c \in BOOLEAN : c = ~removes
    OBVIOUS
  <2>4. ProbeEdit(p, i, b, c)
    BY <1>3, <2>1, <2>2, <2>3 DEF ProbeEdit
  <2>5. ProbeIs(p, i, b, c)
    BY <1>0, <2>4, ProbeEdits
  <2> QED
    BY <2>1, <2>2, <2>3, <2>5, Zenon
<1>6. /\ probes' \in [ProbeIds -> ProbeSet]
      /\ \A j \in ProbeIds : probes'[j].addr = probes[j].addr /\ probes'[j].saved = probes[j].saved
      /\ probes'[i].stepping /\ (probes'[i].active <=> ~removes)
      /\ \A j \in ProbeIds \ {i} : probes'[j] = probes[j]
  BY <1>5 DEF ProbeIs
<1>7. PICK s \in Stepped : s = [at |-> a, tf |-> TRUE, calls |-> Append(Before(t), "pre")]
  <2>1. Append(Before(t), "pre") \in Seq(CallNames)
    <3>1. PICK b \in Seq(CallNames) : b = Before(t)
      BY StepperStays
    <3>2. "pre" \in CallNames
      BY DEF CallNames
    <3> QED
      BY <3>1, <3>2, Called
  <2> QED
    BY <2>1 DEF Stepped
<1>8. s.at = a /\ s.tf = TRUE /\ s.calls = Append(Before(t), "pre")
  BY <1>7
<1>9. /\ stepper' \in [ProbeTasks -> Stepped] /\ stepper'[t] = s
      /\ \A u \in ProbeTasks \ {t} : stepper'[u] = stepper[u]
      /\ \A u \in ProbeTasks : stepper'[u].at \in Spots \cup {NoPlace} /\ stepper'[u].tf \in BOOLEAN
  <2>1. stepper' = [stepper EXCEPT ![t] = s]
    BY <1>3, <1>7
  <2> QED
    BY <2>1, StepperTyped
<1>10. ProbeTyped'
  <2>1. code' \in [Spots -> {"own", "int3"}] /\ mixed' \in BOOLEAN /\ vectors' \in {"kprobes", "gdb"}
    BY <1>0, <1>3, <1>4 DEF ProbeTyped, ProbeTypeOK
  <2> QED
    BY <1>6, <1>9, <2>1 DEF ProbeTyped, ProbeTypeOK, Stepped, ProbeSet
<1>11. ProbeKept'
  <2>0. \A j, k \in ProbeIds : probes[j].active /\ probes[k].active /\ probes[j].addr = probes[k].addr => j = k
    BY <1>0 DEF ProbeKept
  <2>4. \A j \in ProbeIds : probes'[j].active => probes[j].active
    BY <1>1, <1>6
  <2>1. ASSUME NEW b \in Spots PROVE code'[b] = "int3" <=> \E j \in ProbeIds : Armed(j)' /\ probes'[j].addr = b
    <3>1. CASE b = a
      <4>1. code'[b] # "int3"
        BY <1>3, <1>4, <3>1
      <4>2. ASSUME NEW j \in ProbeIds, Armed(j)', probes'[j].addr = b PROVE FALSE
        <5>1. j # i /\ probes[j].active /\ probes[j].addr = a
          BY <1>6, <2>4, <3>1, <4>2 DEF Armed
        <5> QED
          BY <1>1, <2>0, <5>1
      <4> QED
        BY <4>1, <4>2
    <3>2. CASE b # a
      <4>1. code'[b] = code[b]
        BY <1>3, <1>4, <3>2
      <4>2. code[b] = "int3" <=> \E j \in ProbeIds : Armed(j) /\ probes[j].addr = b
        BY <1>0 DEF ProbeKept
      <4>3. \A j \in ProbeIds \ {i} : (Armed(j)' <=> Armed(j)) /\ probes'[j].addr = probes[j].addr
        BY <1>6 DEF Armed
      <4>4. ~Armed(i)' /\ probes[i].addr # b
        BY <1>1, <1>6, <3>2 DEF Armed
      <4> QED
        BY <4>1, <4>2, <4>3, <4>4
    <3> QED
      BY <3>1, <3>2
  <2>2. \A j, k \in ProbeIds : probes'[j].active /\ probes'[k].active /\ probes'[j].addr = probes'[k].addr => j = k
    BY <1>6, <2>0, <2>4
  <2>3. \A j \in ProbeIds : probes'[j].active => probes'[j].saved = "own" /\ probes'[j].addr \in Spots
    BY <1>0, <1>6, <2>4 DEF ProbeKept
  <2> QED
    BY <2>1, <2>2, <2>3 DEF ProbeKept
<1>12. ASSUME vectors' = "kprobes", ~mixed' PROVE Alone'
  <2>1. Alone /\ ~removes /\ ~mixed /\ \A u \in ProbeTasks \ {t} : ~stepper[u].tf
    BY <1>3, <1>12 DEF ProbeInv, Stepping
  <2>2. ~stepper[t].tf
    <3> SUFFICES ASSUME stepper[t].tf PROVE FALSE
      OBVIOUS
    <3>1. stepper[t].at = a
      BY <1>3, <2>1 DEF Alone
    <3>2. PICK j \in ProbeIds : probes[j].active /\ probes[j].stepping /\ probes[j].addr = a
      BY <2>1, <3>1 DEF Alone
    <3> QED
      BY <1>0, <1>1, <3>2 DEF ProbeKept
  <2>3. s.calls = <<"pre">>
    <3>1. Before(t) = <<>>
      BY <2>1, <2>2 DEF Alone, Before
    <3> QED
      BY <1>8, <3>1
  <2>4. \A j \in ProbeIds : ~(probes[j].active /\ probes[j].stepping)
    BY <2>1, <2>2 DEF Alone, Steps
  <2>5. a # NoPlace
    BY DebugAssumption DEF NoPlace
  <2>6. \A j \in ProbeIds : probes'[j].active /\ probes'[j].stepping => Steps(t, j)'
    BY <1>1, <1>6, <1>8, <1>9, <2>4 DEF Steps
  <2>7. probes'[i].active /\ probes'[i].stepping /\ probes'[i].addr = a
    BY <1>1, <1>6, <2>1
  <2>8. ASSUME NEW u \in ProbeTasks
        PROVE  /\ stepper'[u].calls \in {<<>>, <<"ran">>, <<"pre">>, <<"pre", "ran", "post">>}
               /\ stepper'[u].tf <=> stepper'[u].calls = <<"pre">>
               /\ stepper'[u].tf <=> stepper'[u].at # NoPlace
               /\ stepper'[u].tf => u = t
    <3>1. CASE u = t
      BY <1>8, <1>9, <2>3, <2>5, <3>1
    <3>2. CASE u # t
      BY <1>9, <2>1, <3>2 DEF Alone
    <3> QED
      BY <3>1, <3>2
  <2>9. ASSUME NEW u \in ProbeTasks, stepper'[u].tf
        PROVE  \E j \in ProbeIds : probes'[j].active /\ probes'[j].stepping /\ probes'[j].addr = stepper'[u].at
    BY <1>8, <1>9, <2>7, <2>8, <2>9
  <2> QED
    BY <2>6, <2>8, <2>9 DEF Alone
<1> QED
  BY <1>10, <1>11, <1>12 DEF ProbeInv

LEMMA RunsKeeps ==
  ASSUME ProbeInv, NEW t \in ProbeTasks, NEW a \in Spots, Runs(t, a)
  PROVE  ProbeInv'
<1>0. ProbeTyped /\ ProbeKept
  BY DEF ProbeInv
<1>1. /\ stepper' = [stepper EXCEPT ![t].calls = Ran(t, a)] /\ UNCHANGED <<code, probes, vectors>>
      /\ mixed' = (mixed \/ (FindProbe(a) # {} /\ Stepping(ProbeTasks \ {t})))
      /\ code[a] = "own" /\ ~stepper[t].tf /\ stepper[t].at \in {NoPlace, a}
  BY DEF Runs, Reaches
<1>2. Ran(t, a) \in Seq(CallNames)
  <2>1. PICK b \in Seq(CallNames) : b = Before(t)
    BY StepperStays
  <2>2. PICK c \in CallNames : c = IF FindProbe(a) # {} /\ stepper[t].at # a THEN "missed" ELSE "ran"
    BY DEF CallNames
  <2>3. Append(b, c) \in Seq(CallNames)
    BY Called
  <2> QED
    BY <2>1, <2>2, <2>3 DEF Ran
<1>3. PICK p, f, c : stepper[t] = [at |-> p, tf |-> f, calls |-> c] /\ p \in Spots \cup {NoPlace} /\ f \in BOOLEAN
  BY StepperStays
<1>4. PICK s : s = [at |-> p, tf |-> f, calls |-> Ran(t, a)]
  OBVIOUS
<1>5. s \in Stepped /\ s.at = stepper[t].at /\ s.tf = stepper[t].tf /\ s.calls = Ran(t, a)
  BY <1>2, <1>3, <1>4 DEF Stepped
<1>6. stepper' = [stepper EXCEPT ![t] = s]
  <2>1. PICK x, y : x = stepper[t] /\ y = Ran(t, a)
    OBVIOUS
  <2>2. [x EXCEPT !.calls = y] = s
    BY <1>3, <1>4, <2>1
  <2> QED
    BY <1>1, <2>1, <2>2
<1>7. /\ stepper' \in [ProbeTasks -> Stepped] /\ stepper'[t] = s
      /\ \A u \in ProbeTasks \ {t} : stepper'[u] = stepper[u]
      /\ \A u \in ProbeTasks : stepper'[u].at \in Spots \cup {NoPlace} /\ stepper'[u].tf \in BOOLEAN
  BY <1>5, <1>6, StepperTyped
<1>8. ProbeTyped'
  <2>1. mixed' \in BOOLEAN
    BY <1>0, <1>1 DEF ProbeTyped, ProbeTypeOK
  <2> QED
    BY <1>0, <1>1, <1>7, <2>1 DEF ProbeTyped, ProbeTypeOK, Stepped
<1>9. ProbeKept'
  BY <1>0, <1>1 DEF ProbeKept, Armed
<1>10. ASSUME vectors' = "kprobes", ~mixed' PROVE Alone'
  <2>1. Alone /\ ~mixed /\ (FindProbe(a) # {} => \A u \in ProbeTasks \ {t} : ~stepper[u].tf)
    BY <1>1, <1>10 DEF ProbeInv, Stepping
  <2>2. FindProbe(a) = {}
    <3> SUFFICES ASSUME NEW i \in ProbeIds, probes[i].active, probes[i].addr = a PROVE FALSE
      BY DEF FindProbe
    <3>1. probes[i].stepping
      BY <1>0, <1>1 DEF ProbeKept, Armed
    <3>2. PICK u \in ProbeTasks : stepper[u].tf
      BY <2>1, <3>1 DEF Alone, Steps
    <3>3. FindProbe(a) # {}
      BY DEF FindProbe
    <3> QED
      BY <1>1, <2>1, <3>2, <3>3
  <2>3. s.calls = <<"ran">>
    <3>1. Before(t) = <<>>
      BY <1>1, <2>1 DEF Alone, Before
    <3>2. Ran(t, a) = Append(<<>>, "ran")
      BY <2>2, <3>1 DEF Ran
    <3> QED
      BY <1>5, <3>2
  <2>4. <<"ran">> # <<"pre">>
    OBVIOUS
  <2>5. \A u \in ProbeTasks :
          /\ stepper'[u].tf = stepper[u].tf /\ stepper'[u].at = stepper[u].at
          /\ stepper'[u].calls = IF u = t THEN <<"ran">> ELSE stepper[u].calls
    BY <1>5, <1>7, <2>3
  <2>6. \A u \in ProbeTasks :
          /\ stepper'[u].calls \in {<<>>, <<"ran">>, <<"pre">>, <<"pre", "ran", "post">>}
          /\ stepper'[u].tf <=> stepper'[u].calls = <<"pre">>
          /\ stepper'[u].tf <=> stepper'[u].at # NoPlace
    BY <1>1, <2>1, <2>4, <2>5 DEF Alone
  <2>7. \A i \in ProbeIds : probes'[i].active /\ probes'[i].stepping => \E u \in ProbeTasks : Steps(u, i)'
    BY <1>1, <2>1, <2>5 DEF Alone, Steps
  <2>8. \A u \in ProbeTasks :
          /\ stepper'[u].tf => \E i \in ProbeIds : probes'[i].active /\ probes'[i].stepping /\ probes'[i].addr = stepper'[u].at
          /\ \A w \in ProbeTasks : stepper'[u].tf /\ stepper'[w].tf => u = w
    BY <1>1, <2>1, <2>5 DEF Alone
  <2> QED
    BY <2>6, <2>7, <2>8 DEF Alone
<1> QED
  BY <1>8, <1>9, <1>10 DEF ProbeInv

LEMMA TracedKeeps ==
  ASSUME ProbeInv, NEW t \in ProbeTasks, NEW a \in Spots, RunsTraced(t, a)
  PROVE  ProbeInv'
<1>0. ProbeTyped /\ ProbeKept /\ code \in [Spots -> {"own", "int3"}] /\ probes \in [ProbeIds -> ProbeSet]
  BY DEF ProbeInv, ProbeTyped, ProbeTypeOK, ProbeSet
<1>1. PICK stepped : stepped = {i \in ProbeIds : probes[i].active /\ probes[i].stepping}
  OBVIOUS
<1>2. /\ stepper[t].at \in {NoPlace, a} /\ code[a] = "own" /\ stepper[t].tf /\ vectors = "kprobes" /\ vectors' = vectors
      /\ mixed' = (mixed \/ Stepping(ProbeTasks \ {t}))
      /\ IF stepped = {}
         THEN /\ stepper' = [stepper EXCEPT ![t].at = NoPlace, ![t].calls = Ran(t, a)]
              /\ UNCHANGED <<code, probes>>
         ELSE /\ stepper' = [stepper EXCEPT ![t] = [at |-> NoPlace, tf |-> FALSE, calls |-> Append(Ran(t, a), "post")]]
              /\ probes' = [probes EXCEPT ![Min(stepped)].stepping = FALSE]
              /\ code' = [code EXCEPT ![probes[Min(stepped)].addr] = "int3"]
  BY <1>1 DEF RunsTraced, Reaches
<1>3. PICK r \in Seq(CallNames) : r = Ran(t, a)
  <2>1. PICK b \in Seq(CallNames) : b = Before(t)
    BY StepperStays
  <2>2. PICK c \in CallNames : c = IF FindProbe(a) # {} /\ stepper[t].at # a THEN "missed" ELSE "ran"
    BY DEF CallNames
  <2>3. Append(b, c) \in Seq(CallNames)
    BY Called
  <2> QED
    BY <2>1, <2>2, <2>3 DEF Ran
<1>4. CASE stepped = {}
  <2>1. PICK p, f, c : stepper[t] = [at |-> p, tf |-> f, calls |-> c] /\ p \in Spots \cup {NoPlace} /\ f \in BOOLEAN
    BY StepperStays
  <2>2. PICK s : s = [at |-> NoPlace, tf |-> f, calls |-> r]
    OBVIOUS
  <2>3. s \in Stepped
    BY <2>1, <2>2 DEF Stepped
  <2>4. PICK m : m = [stepper EXCEPT ![t].at = NoPlace]
    OBVIOUS
  <2>5. PICK x : x = [at |-> NoPlace, tf |-> f, calls |-> c]
    OBVIOUS
  <2>6. stepper \in [ProbeTasks -> Stepped]
    BY <1>0 DEF ProbeTyped, Stepped
  <2>7. m = [stepper EXCEPT ![t] = x]
    <3>1. PICK y : y = stepper[t]
      OBVIOUS
    <3>2. [y EXCEPT !.at = NoPlace] = x
      BY <2>1, <2>5, <3>1
    <3> QED
      BY <2>4, <3>1, <3>2
  <2>8. stepper' = [m EXCEPT ![t].calls = r]
    BY <1>2, <1>3, <1>4, <2>4
  <2>9. m[t] = x /\ DOMAIN m = ProbeTasks /\ \A u \in ProbeTasks \ {t} : m[u] = stepper[u]
    BY <2>6, <2>7
  <2>10. [x EXCEPT !.calls = r] = s
    BY <2>2, <2>5
  <2>11. stepper' = [m EXCEPT ![t] = s]
    BY <2>8, <2>9, <2>10
  <2>12. stepper' = [stepper EXCEPT ![t] = s]
    BY <2>6, <2>7, <2>9, <2>11
  <2>13. /\ stepper' \in [ProbeTasks -> Stepped]
         /\ \A u \in ProbeTasks : stepper'[u].at \in Spots \cup {NoPlace} /\ stepper'[u].tf \in BOOLEAN
    BY <2>3, <2>12, StepperTyped
  <2>14. UNCHANGED <<code, probes>>
    BY <1>2, <1>4
  <2>15. ProbeTyped'
    <3>1. mixed' \in BOOLEAN
      BY <1>0, <1>2 DEF ProbeTyped, ProbeTypeOK
    <3> QED
      BY <1>0, <1>2, <2>13, <2>14, <3>1 DEF ProbeTyped, ProbeTypeOK, Stepped
  <2>16. ProbeKept'
    BY <1>0, <2>14 DEF ProbeKept, Armed
  <2>17. mixed'
    <3> SUFFICES ASSUME ~mixed PROVE FALSE
      BY <1>2
    <3>1. Alone
      BY <1>2 DEF ProbeInv
    <3>2. \E i \in ProbeIds : probes[i].active /\ probes[i].stepping
      BY <1>2, <3>1 DEF Alone
    <3> QED
      BY <1>1, <1>4, <3>2
  <2> QED
    BY <2>15, <2>16, <2>17 DEF ProbeInv
<1>5. CASE stepped # {}
  <2>1. PICK i \in ProbeIds : i = Min(stepped) /\ i \in stepped
    <3>1. stepped \in SUBSET ProbeIds
      BY <1>1
    <3> QED
      BY <1>5, <3>1, ProbeIdFacts
  <2>2. probes[i].active /\ probes[i].stepping /\ probes[i].addr \in Spots
    BY <1>0, <1>1, <2>1 DEF ProbeKept
  <2>3. PICK d \in Spots : d = probes[i].addr
    BY <2>2
  <2>4. /\ stepper' = [stepper EXCEPT ![t] = [at |-> NoPlace, tf |-> FALSE, calls |-> Append(r, "post")]]
        /\ probes' = [probes EXCEPT ![i].stepping = FALSE] /\ code' = [code EXCEPT ![d] = "int3"]
    BY <1>2, <1>3, <1>5, <2>1, <2>3
  <2>5. PICK s \in Stepped : s = [at |-> NoPlace, tf |-> FALSE, calls |-> Append(r, "post")]
    <3>1. "post" \in CallNames
      BY DEF CallNames
    <3>2. Append(r, "post") \in Seq(CallNames)
      BY <3>1, Called
    <3> QED
      BY <3>2 DEF Stepped
  <2>6. s.at = NoPlace /\ s.tf = FALSE /\ s.calls = Append(r, "post")
    BY <2>5
  <2>7. /\ stepper' \in [ProbeTasks -> Stepped] /\ stepper'[t] = s
        /\ \A u \in ProbeTasks \ {t} : stepper'[u] = stepper[u]
        /\ \A u \in ProbeTasks : stepper'[u].at \in Spots \cup {NoPlace} /\ stepper'[u].tf \in BOOLEAN
    <3>1. stepper' = [stepper EXCEPT ![t] = s]
      BY <2>4, <2>5
    <3> QED
      BY <3>1, StepperTyped
  <2>8. ProbeIs(probes', i, FALSE, TRUE)
    <3>1. PICK p : p = probes'
      OBVIOUS
    <3>2. PICK b \in BOOLEAN : b = FALSE
      OBVIOUS
    <3>3. PICK c \in BOOLEAN : c = TRUE
      OBVIOUS
    <3>4. probes[i].active = TRUE
      BY <1>0, <2>2 DEF ProbeSet
    <3>5. ProbeEdit(p, i, b, c)
      BY <2>4, <3>1, <3>2, <3>3, <3>4 DEF ProbeEdit
    <3>6. ProbeIs(p, i, b, c)
      BY <1>0, <3>5, ProbeEdits
    <3> QED
      BY <3>1, <3>2, <3>3, <3>6, Zenon
  <2>9. /\ probes' \in [ProbeIds -> ProbeSet]
        /\ \A j \in ProbeIds : probes'[j].addr = probes[j].addr /\ probes'[j].saved = probes[j].saved
        /\ ~probes'[i].stepping /\ probes'[i].active
        /\ \A j \in ProbeIds \ {i} : probes'[j] = probes[j]
    BY <2>8 DEF ProbeIs
  <2>10. ProbeTyped'
    <3>1. code' \in [Spots -> {"own", "int3"}] /\ mixed' \in BOOLEAN /\ vectors' \in {"kprobes", "gdb"}
      BY <1>0, <1>2, <2>4 DEF ProbeTyped, ProbeTypeOK
    <3> QED
      BY <2>7, <2>9, <3>1 DEF ProbeTyped, ProbeTypeOK, Stepped, ProbeSet
  <2>11. ProbeKept'
    <3>0. \A j, k \in ProbeIds : probes[j].active /\ probes[k].active /\ probes[j].addr = probes[k].addr => j = k
      BY <1>0 DEF ProbeKept
    <3>4. \A j \in ProbeIds : probes'[j].active => probes[j].active
      BY <2>2, <2>9
    <3>1. ASSUME NEW b \in Spots PROVE code'[b] = "int3" <=> \E j \in ProbeIds : Armed(j)' /\ probes'[j].addr = b
      <4>1. CASE b = d
        <5>1. code'[b] = "int3" /\ Armed(i)' /\ probes'[i].addr = b
          BY <1>0, <2>3, <2>4, <2>9, <4>1 DEF Armed
        <5> QED
          BY <5>1
      <4>2. CASE b # d
        <5>1. code'[b] = code[b]
          BY <1>0, <2>4, <4>2
        <5>2. code[b] = "int3" <=> \E j \in ProbeIds : Armed(j) /\ probes[j].addr = b
          BY <1>0 DEF ProbeKept
        <5>3. \A j \in ProbeIds \ {i} : (Armed(j)' <=> Armed(j)) /\ probes'[j].addr = probes[j].addr
          BY <2>9 DEF Armed
        <5>4. probes'[i].addr # b /\ probes[i].addr # b
          BY <2>3, <2>9, <4>2
        <5> QED
          BY <5>1, <5>2, <5>3, <5>4
      <4> QED
        BY <4>1, <4>2
    <3>2. \A j, k \in ProbeIds : probes'[j].active /\ probes'[k].active /\ probes'[j].addr = probes'[k].addr => j = k
      BY <2>9, <3>0, <3>4
    <3>3. \A j \in ProbeIds : probes'[j].active => probes'[j].saved = "own" /\ probes'[j].addr \in Spots
      BY <1>0, <2>9, <3>4 DEF ProbeKept
    <3> QED
      BY <3>1, <3>2, <3>3 DEF ProbeKept
  <2>12. ASSUME vectors' = "kprobes", ~mixed' PROVE Alone'
    <3>1. Alone /\ ~mixed /\ \A u \in ProbeTasks \ {t} : ~stepper[u].tf
      BY <1>2, <2>12 DEF ProbeInv, Stepping
    <3>2. stepper[t].at = a /\ stepper[t].calls = <<"pre">>
      BY <1>2, <3>1 DEF Alone
    <3>3. s.calls = <<"pre", "ran", "post">>
      <4>1. Before(t) = <<"pre">>
        <5>1. a # NoPlace
          BY DebugAssumption DEF NoPlace
        <5> QED
          BY <3>1, <3>2, <5>1 DEF Before
      <4>2. r = Append(<<"pre">>, "ran")
        BY <1>3, <3>2, <4>1 DEF Ran
      <4>3. Append(r, "post") = <<"pre", "ran", "post">>
        BY <4>2, WholeHit
      <4> QED
        BY <2>6, <4>3, Zenon
    <3>4. <<"pre", "ran", "post">> # <<"pre">>
      OBVIOUS
    <3>5. \A j \in ProbeIds : ~(probes'[j].active /\ probes'[j].stepping)
      <4> SUFFICES ASSUME NEW j \in ProbeIds, j # i, probes[j].active, probes[j].stepping PROVE FALSE
        BY <2>9
      <4>1. stepper[t].at = probes[j].addr /\ stepper[t].at = probes[i].addr
        BY <2>2, <3>1 DEF Alone, Steps
      <4> QED
        BY <1>0, <2>2, <4>1 DEF ProbeKept
    <3>6. \A u \in ProbeTasks :
            /\ stepper'[u].calls \in {<<>>, <<"ran">>, <<"pre">>, <<"pre", "ran", "post">>}
            /\ stepper'[u].tf <=> stepper'[u].calls = <<"pre">>
            /\ stepper'[u].tf <=> stepper'[u].at # NoPlace
            /\ ~stepper'[u].tf
      <4> TAKE u \in ProbeTasks
      <4>1. CASE u = t
        BY <2>6, <2>7, <3>3, <3>4, <4>1
      <4>2. CASE u # t
        BY <2>7, <3>1, <4>2 DEF Alone
      <4> QED
        BY <4>1, <4>2
    <3> QED
      BY <3>5, <3>6 DEF Alone
  <2> QED
    BY <2>10, <2>11, <2>12 DEF ProbeInv
<1> QED
  BY <1>4, <1>5

LEMMA SkippedKeeps ==
  ASSUME ProbeInv, NEW t \in ProbeTasks, NEW a \in Spots, Skipped(t, a)
  PROVE  ProbeInv'
<1>1. /\ vectors = "gdb" /\ UNCHANGED <<code, probes, vectors, mixed>>
      /\ stepper' = [stepper EXCEPT ![t] = [at |-> NoPlace, tf |-> code[a] = "int3" /\ stepper[t].tf,
                       calls |-> Append(Before(t), IF code[a] = "int3" THEN "skipped" ELSE "ran")]]
  BY DEF Skipped
<1>2. PICK c \in Seq(CallNames) : c = Append(Before(t), IF code[a] = "int3" THEN "skipped" ELSE "ran")
  <2>1. PICK b \in Seq(CallNames) : b = Before(t)
    BY StepperStays
  <2>2. PICK x \in CallNames : x = IF code[a] = "int3" THEN "skipped" ELSE "ran"
    BY DEF CallNames
  <2>3. Append(b, x) \in Seq(CallNames)
    BY Called
  <2> QED
    BY <2>1, <2>2, <2>3
<1>3. PICK f \in BOOLEAN : f = (code[a] = "int3" /\ stepper[t].tf)
  OBVIOUS
<1>4. PICK s : s = [at |-> NoPlace, tf |-> f, calls |-> c]
  OBVIOUS
<1>5. s \in Stepped
  BY <1>4 DEF Stepped
<1>6. stepper' = [stepper EXCEPT ![t] = s]
  BY <1>1, <1>2, <1>3, <1>4, Zenon
<1>7. /\ stepper' \in [ProbeTasks -> Stepped]
      /\ \A u \in ProbeTasks : stepper'[u].at \in Spots \cup {NoPlace} /\ stepper'[u].tf \in BOOLEAN
  BY <1>5, <1>6, StepperTyped
<1>8. ProbeTyped'
  BY <1>1, <1>7 DEF ProbeInv, ProbeTyped, ProbeTypeOK, Stepped
<1>9. ProbeKept'
  BY <1>1 DEF ProbeInv, ProbeKept, Armed
<1> QED
  BY <1>1, <1>8, <1>9 DEF ProbeInv

LEMMA ProbeGoesOn ==
  ASSUME ProbeInv, [ProbeNext]_probeVars
  PROVE  ProbeInv'
BY StubKeepsProbes, RegisterKeeps, UnregisterKeeps, HitKeeps, RunsKeeps, TracedKeeps, SkippedKeeps DEF ProbeNext

LEMMA ProbePromises ==
  ASSUME ProbeInv
  PROVE  ProbeTypeOK /\ ProbesTrue
<1>1. ASSUME NEW a \in Spots
      PROVE  /\ code[a] = "int3" <=> \E i \in FindProbe(a) : ~probes[i].stepping
             /\ Cardinality(FindProbe(a)) <= 1
  <2>1. code[a] = "int3" <=> \E i \in FindProbe(a) : ~probes[i].stepping
    BY DEF ProbeInv, ProbeKept, Armed, FindProbe
  <2>2. CASE FindProbe(a) = {}
    BY <2>1, <2>2, FS_EmptySet
  <2>3. CASE FindProbe(a) # {}
    <3>1. PICK i \in ProbeIds : probes[i].active /\ probes[i].addr = a
      BY <2>3 DEF FindProbe
    <3>2. FindProbe(a) = {i}
      BY <3>1, TheProbe
    <3>3. Cardinality({i}) = 1
      BY FS_Singleton
    <3> QED
      BY <2>1, <3>2, <3>3
  <2> QED
    BY <2>2, <2>3
<1>2. \A i \in ProbeIds : probes[i].active => probes[i].saved = "own"
  BY DEF ProbeInv, ProbeKept
<1>3. vectors = "kprobes" /\ ~mixed =>
        \A t \in ProbeTasks :
          /\ stepper[t].calls \in {<<>>, <<"ran">>, <<"pre">>, <<"pre", "ran", "post">>}
          /\ stepper[t].tf <=> stepper[t].calls = <<"pre">>
  BY DEF ProbeInv, Alone
<1>4. ProbeTypeOK
  BY DEF ProbeInv, ProbeTyped
<1>5. ProbesTrue
  BY <1>1, <1>2, <1>3, Zenon DEF ProbesTrue
<1> QED
  BY <1>4, <1>5
-----------------------------------------------------------------------------
(* Programs and archives                                                   *)

Images(n) == [1 .. n -> [word : Int, add : Int]]

(* The sections one after the other, and the relocations.                  *)
SectionsCopied(f) == FoldLeft(LAMBDA im, s : Copied(im, f, s), HeadersCopied(f), f.sections)
Fixed(im, r, delta) == IF r.type = "HIGHLOW" THEN [im EXCEPT ![r.at + 1].add = @ + delta] ELSE im
RelocsAdded(im, rs, delta) ==
  FoldLeft(LAMBDA i, r : IF r.type = "HIGHLOW" THEN [i EXCEPT ![r.at + 1].add = @ + delta] ELSE i, im, rs)

LEMMA LesserOf ==
  ASSUME NEW x \in Nat, NEW y \in Nat
  PROVE  Min({x, y}) \in Nat /\ \A p \in Int : p < Min({x, y}) <=> p < x /\ p < y
<1>1. {x, y} \subseteq Nat /\ {x, y} # {}
  OBVIOUS
<1>2. PICK m : m = Min({x, y})
  OBVIOUS
<1>3. m \in {x, y} /\ m <= x /\ m <= y
  BY <1>1, <1>2, MinFacts
<1> QED
  BY <1>2, <1>3

LEMMA FileFacts ==
  ASSUME NEW f \in ExeFiles
  PROVE  /\ f.imageSize \in Nat /\ f.headers \in Nat /\ f.size \in Nat /\ f.imageBase \in Nat
         /\ Len(f.sections) \in Nat /\ DOMAIN f.sections = 1 .. Len(f.sections)
         /\ \A j \in 1 .. Len(f.sections) : SectionHeader(f.sections[j])
         /\ f.relocs \in Seq([type : {"HIGHLOW", "ABSOLUTE"}, at : 0 .. f.imageSize - 1])
<1>1. f.sections \in Seq(Range(f.sections)) /\ \A s \in Range(f.sections) : SectionHeader(s)
  BY ExeAssumption
<1>2. \A j \in DOMAIN f.sections : SectionHeader(f.sections[j])
  BY <1>1 DEF Range
<1>3. f.relocs \in Seq([type : {"HIGHLOW", "ABSOLUTE"}, at : 0 .. f.imageSize - 1])
  BY ExeAssumption, Zenon
<1>4. OptionalHeader(f) /\ f.size \in Nat
  BY ExeAssumption, Zenon
<1>5. Len(f.sections) \in Nat /\ DOMAIN f.sections = 1 .. Len(f.sections)
  BY <1>1
<1>6. f.imageSize \in Nat /\ f.headers \in Nat /\ f.size \in Nat /\ f.imageBase \in Nat
  BY <1>4 DEF OptionalHeader
<1> QED
  BY <1>2, <1>3, <1>5, <1>6, Zenon

LEMMA CopiedImage ==
  ASSUME NEW f \in ExeFiles, NEW im \in Images(f.imageSize), NEW s, SectionHeader(s)
  PROVE  Copied(im, f, s) \in Images(f.imageSize)
<1>0. f.imageSize \in Nat
  BY FileFacts, Zenon
<1>1. DOMAIN im = 1 .. f.imageSize /\ f.imageSize \in Nat /\ s.at \in Int /\ s.va \in Int
  BY <1>0 DEF Images, SectionHeader
<1>2. \A p \in 1 .. f.imageSize : [word |-> s.at + p - 1 - s.va, add |-> 0] \in [word : Int, add : Int]
  BY <1>1
<1>3. \A p \in 1 .. f.imageSize : im[p] \in [word : Int, add : Int]
  BY DEF Images
<1> QED
  BY <1>1, <1>2, <1>3 DEF Copied, Images

LEMMA SectionSteps ==
  ASSUME NEW f \in ExeFiles, HeadersCopied(f) \in Images(f.imageSize)
  PROVE  \E g \in [0 .. Len(f.sections) -> Images(f.imageSize)] :
           /\ g[0] = HeadersCopied(f)
           /\ \A k \in 1 .. Len(f.sections) : g[k] = Copied(g[k - 1], f, f.sections[k])
           /\ SectionsCopied(f) = g[Len(f.sections)]
<1> DEFINE V == Images(f.imageSize)
<1>1. PICK n, base, e : n = Len(f.sections) /\ base = HeadersCopied(f) /\ e = f.sections
  OBVIOUS
<1>2. n \in Nat /\ DOMAIN e = 1 .. n /\ base \in V /\ \A i \in 1 .. n : SectionHeader(e[i])
  BY <1>1, FileFacts
<1>3. PICK step : step = [x \in (1 .. n) \X V |-> Copied(x[2], f, e[x[1]])]
  OBVIOUS
<1>4. step \in [(1 .. n) \X V -> V]
  <2>1. ASSUME NEW x \in (1 .. n) \X V
        PROVE  Copied(x[2], f, e[x[1]]) \in V
    <3>1. SectionHeader(e[x[1]]) /\ x[2] \in V
      BY <1>2
    <3> QED
      BY <3>1, CopiedImage
  <2> HIDE DEF V
  <2> QED
    BY <1>3, <2>1
<1> HIDE DEF V
<1>6. PICK it \in [SUBSET (1 .. n) -> V] : IsTable(it, n, base, step)
  BY <1>2, <1>4, FoldTable
<1>7. it = [t \in SUBSET (DOMAIN e) |->
              IF t = {} THEN base ELSE Copied(it[t \ {Max(t)}], f, e[Max(t)])]
  <2>1. ASSUME NEW t \in SUBSET (1 .. n), t # {}
        PROVE  step[<<Max(t), it[t \ {Max(t)}]>>] = Copied(it[t \ {Max(t)}], f, e[Max(t)])
    <3>1. Max(t) \in 1 .. n
      BY <1>2, <2>1, MaxFacts
    <3>2. it[t \ {Max(t)}] \in V
      BY <1>6
    <3> QED
      BY <1>3, <3>1, <3>2
  <2>2. \A t \in SUBSET (1 .. n) :
          it[t] = IF t = {} THEN base ELSE Copied(it[t \ {Max(t)}], f, e[Max(t)])
    BY <1>6, <2>1 DEF IsTable
  <2> QED
    BY <1>2, <2>2
<1>8. PICK fold : /\ fold = [t \in SUBSET (DOMAIN e) |->
                                IF t = {} THEN base ELSE Copied(fold[t \ {Max(t)}], f, e[Max(t)])]
                   /\ SectionsCopied(f) = fold[DOMAIN e]
  <2> DEFINE made == CHOOSE h : h = [t \in SUBSET (DOMAIN f.sections) |->
              IF t = {} THEN HeadersCopied(f) ELSE Copied(h[t \ {Max(t)}], f, f.sections[Max(t)])]
  <2>1. made = [t \in SUBSET (DOMAIN e) |->
              IF t = {} THEN base ELSE Copied(made[t \ {Max(t)}], f, e[Max(t)])]
    BY <1>1, <1>7
  <2>2. SectionsCopied(f) = made[DOMAIN f.sections]
    BY DEF SectionsCopied, FoldLeft, MapThenFoldSet
  <2> HIDE DEF made
  <2> QED
    BY <1>1, <2>1, <2>2
<1>10. fold[{}] = base
  BY <1>8
<1>11. ASSUME NEW t \in SUBSET (1 .. n), t # {}, fold[t \ {Max(t)}] \in V
       PROVE  fold[t] = step[<<Max(t), fold[t \ {Max(t)}]>>]
  <2>1. Max(t) \in 1 .. n
    BY <1>2, <1>11, MaxFacts
  <2>2. step[<<Max(t), fold[t \ {Max(t)}]>>] = Copied(fold[t \ {Max(t)}], f, e[Max(t)])
    BY <1>3, <1>11, <2>1
  <2> QED
    BY <1>2, <1>8, <1>11, <2>2
<1>12. PICK g \in [0 .. n -> V] : Accumulates(g, n, base, step, fold)
  <2>1. Tabulates(fold, n, V, step)
    BY <1>11 DEF Tabulates
  <2> QED
    BY <1>2, <1>4, <1>10, <2>1, FoldAlong
<1>13. \A k \in 1 .. n : g[k] = Copied(g[k - 1], f, e[k])
  <2> SUFFICES ASSUME NEW k \in 1 .. n PROVE g[k] = Copied(g[k - 1], f, e[k])
    OBVIOUS
  <2>1. g[k - 1] \in V
    BY <1>2
  <2>2. step[<<k, g[k - 1]>>] = Copied(g[k - 1], f, e[k])
    BY <1>3, <2>1
  <2> QED
    BY <1>12, <2>2 DEF Accumulates
<1> QED
  BY <1>1, <1>2, <1>8, <1>12, <1>13 DEF Accumulates, V

(* The word of a place is of the last of the sections so far that fill it. *)
Fills(f, s, p)  == s.raw > 0 /\ s.at + s.raw <= f.size /\ p \in s.va .. s.va + Min({s.raw, s.vs}) - 1
Fillers(f, k, p) == {j \in 1 .. k : Fills(f, f.sections[j], p)}
HeaderWord(f, p) == IF p < f.headers /\ p < f.size THEN p ELSE Nothing
WordAt(f, k, p)  == LET by == Fillers(f, k, p)
                    IN IF by # {} THEN f.sections[Max(by)].at + p - f.sections[Max(by)].va ELSE HeaderWord(f, p)

LEMMA HeadersPlaced ==
  ASSUME NEW f \in ExeFiles
  PROVE  /\ HeadersCopied(f) \in Images(f.imageSize)
         /\ \A p \in 0 .. f.imageSize - 1 : HeadersCopied(f)[p + 1] = [word |-> HeaderWord(f, p), add |-> 0]
<1>1. PICK n, h, z \in Nat : n = f.imageSize /\ h = f.headers /\ z = f.size
  BY FileFacts
<1>2. Min({h, z}) \in Nat /\ \A p \in Int : p < Min({h, z}) <=> p < h /\ p < z
  BY LesserOf
<1>3. PICK m \in Nat : m = Min({h, z}) /\ \A p \in Int : p < m <=> p < h /\ p < z
  BY <1>2
<1>4. HeadersCopied(f) = [p \in 1 .. n |-> [word |-> IF p <= m THEN p - 1 ELSE Nothing, add |-> 0]]
  BY <1>1, <1>3 DEF HeadersCopied
<1>5. \A p \in 1 .. n : [word |-> IF p <= m THEN p - 1 ELSE Nothing, add |-> 0] \in [word : Int, add : Int]
  BY DEF Nothing
<1>6. HeadersCopied(f) \in Images(f.imageSize)
  BY <1>1, <1>4, <1>5 DEF Images
<1>7. ASSUME NEW p \in 0 .. n - 1 PROVE HeadersCopied(f)[p + 1] = [word |-> HeaderWord(f, p), add |-> 0]
  <2>1. p + 1 \in 1 .. n /\ (p + 1 <= m <=> p < m) /\ (p + 1) - 1 = p
    OBVIOUS
  <2>2. p < m <=> p < f.headers /\ p < f.size
    BY <1>1, <1>3
  <2> QED
    BY <1>4, <2>1, <2>2 DEF HeaderWord
<1> QED
  BY <1>1, <1>6, <1>7

LEMMA CopiedAt ==
  ASSUME NEW f \in ExeFiles, NEW im \in Images(f.imageSize), NEW s, SectionHeader(s), NEW p \in 0 .. f.imageSize - 1
  PROVE  Copied(im, f, s)[p + 1] = IF Fills(f, s, p) THEN [word |-> s.at + p - s.va, add |-> 0] ELSE im[p + 1]
<1>1. PICK va, vs, raw, at, z \in Nat : va = s.va /\ vs = s.vs /\ raw = s.raw /\ at = s.at /\ z = f.size
  BY FileFacts DEF SectionHeader
<1>2. PICK m \in Nat : m = Min({raw, vs})
  BY LesserOf
<1>0. f.imageSize \in Nat
  BY FileFacts, Zenon
<1>3. DOMAIN im = 1 .. f.imageSize /\ f.imageSize \in Nat /\ p + 1 \in 1 .. f.imageSize
  BY <1>0 DEF Images
<1>4. (p + 1) - 1 = p /\ (p >= va /\ p < va + m <=> p \in va .. va + m - 1) /\ at + (p + 1) - 1 - va = at + p - va
  OBVIOUS
<1>5. CASE raw > 0 /\ at + raw <= z
  <2>1. Copied(im, f, s) = [q \in DOMAIN im |->
                              IF q - 1 >= va /\ q - 1 < va + m THEN [word |-> at + q - 1 - va, add |-> 0] ELSE im[q]]
    BY <1>1, <1>2, <1>5 DEF Copied
  <2>2. Copied(im, f, s)[p + 1] = IF p >= va /\ p < va + m THEN [word |-> at + p - va, add |-> 0] ELSE im[p + 1]
    BY <1>3, <1>4, <2>1
  <2> QED
    BY <1>1, <1>2, <1>4, <1>5, <2>2 DEF Fills
<1>6. CASE ~(raw > 0 /\ at + raw <= z)
  BY <1>1, <1>6 DEF Fills, Copied
<1> QED
  BY <1>5, <1>6

LEMMA SectionsPlaced ==
  ASSUME NEW f \in ExeFiles
  PROVE  /\ SectionsCopied(f) \in Images(f.imageSize)
         /\ \A p \in 0 .. f.imageSize - 1 :
              /\ SectionsCopied(f)[p + 1].add = 0
              /\ SectionsCopied(f)[p + 1].word = WordAt(f, Len(f.sections), p)
<1>1. PICK n \in Nat : n = Len(f.sections)
  BY FileFacts
<1>2. PICK g \in [0 .. n -> Images(f.imageSize)] :
        /\ g[0] = HeadersCopied(f)
        /\ \A k \in 1 .. n : g[k] = Copied(g[k - 1], f, f.sections[k])
        /\ SectionsCopied(f) = g[n]
  BY <1>1, HeadersPlaced, SectionSteps
<1> DEFINE Here(k) == \A p \in 0 .. f.imageSize - 1 : g[k][p + 1].add = 0 /\ g[k][p + 1].word = WordAt(f, k, p)
           T == {k \in Nat : k <= n => Here(k)}
<1>3. 0 \in T
  <2> SUFFICES ASSUME NEW p \in 0 .. f.imageSize - 1 PROVE g[0][p + 1].add = 0 /\ g[0][p + 1].word = WordAt(f, 0, p)
    OBVIOUS
  <2>1. Fillers(f, 0, p) = {}
    BY DEF Fillers
  <2>2. WordAt(f, 0, p) = HeaderWord(f, p)
    BY <2>1 DEF WordAt
  <2>3. g[0][p + 1] = [word |-> HeaderWord(f, p), add |-> 0]
    BY <1>2, HeadersPlaced
  <2> QED
    BY <2>2, <2>3
<1>4. ASSUME NEW k \in Nat, k \in T PROVE k + 1 \in T
  <2> SUFFICES ASSUME k + 1 <= n, NEW p \in 0 .. f.imageSize - 1
               PROVE  g[k + 1][p + 1].add = 0 /\ g[k + 1][p + 1].word = WordAt(f, k + 1, p)
    OBVIOUS
  <2>1. k + 1 \in 1 .. n /\ k \in 0 .. n /\ (k + 1) - 1 = k
    OBVIOUS
  <2>2. Here(k)
    BY <1>4, <2>1
  <2>3. PICK s : s = f.sections[k + 1] /\ SectionHeader(s)
    BY <1>1, <2>1, FileFacts
  <2>4. g[k + 1] = Copied(g[k], f, s) /\ g[k] \in Images(f.imageSize)
    BY <1>2, <2>1, <2>3
  <2>5. g[k + 1][p + 1] = IF Fills(f, s, p) THEN [word |-> s.at + p - s.va, add |-> 0] ELSE g[k][p + 1]
    <3>1. PICK im \in Images(f.imageSize) : im = g[k]
      BY <2>4
    <3>2. Copied(im, f, s)[p + 1] = IF Fills(f, s, p) THEN [word |-> s.at + p - s.va, add |-> 0] ELSE im[p + 1]
      BY <2>3, CopiedAt, Zenon
    <3> QED
      BY <2>4, <3>1, <3>2
  <2>6. CASE Fills(f, s, p)
    <3>1. PICK by : by = Fillers(f, k + 1, p)
      OBVIOUS
    <3>2. k + 1 \in by /\ by \in SUBSET (1 .. k + 1) /\ by # {}
      BY <2>3, <2>6, <3>1 DEF Fillers
    <3>3. Max(by) \in by /\ \A x \in by : Max(by) >= x
      BY <3>2, MaxFacts
    <3>4. Max(by) = k + 1
      <4>1. PICK x \in 1 .. k + 1 : x = Max(by) /\ x >= k + 1
        BY <3>2, <3>3
      <4> QED
        BY <4>1
    <3>5. WordAt(f, k + 1, p) = s.at + p - s.va
      BY <2>3, <3>1, <3>2, <3>4 DEF WordAt
    <3> QED
      BY <2>5, <2>6, <3>5
  <2>7. CASE ~Fills(f, s, p)
    <3>1. \A j \in 1 .. k + 1 : j = k + 1 \/ j \in 1 .. k
      OBVIOUS
    <3>2. Fillers(f, k + 1, p) = Fillers(f, k, p)
      BY <2>3, <2>7, <3>1 DEF Fillers
    <3>3. WordAt(f, k + 1, p) = WordAt(f, k, p)
      BY <3>2 DEF WordAt
    <3> QED
      BY <2>2, <2>5, <2>7, <3>3
  <2> QED
    BY <2>6, <2>7
<1>5. n \in T
  <2> HIDE DEF T
  <2>1. \A k \in Nat : k \in T => k + 1 \in T
    BY <1>4
  <2> QED
    BY <1>3, <2>1, Induction
<1> QED
  BY <1>1, <1>2, <1>5

(* The relocations of a place so far.                                      *)
Relocs(n)       == [type : {"HIGHLOW", "ABSOLUTE"}, at : 0 .. n - 1]
Here(rs, k, p)  == {j \in 1 .. k : rs[j] = [type |-> "HIGHLOW", at |-> p]}

OneFixed(n, now, im, r, delta) ==
  \A p \in 0 .. n - 1 :
    /\ now[p + 1].word = im[p + 1].word
    /\ now[p + 1].add = im[p + 1].add + IF r = [type |-> "HIGHLOW", at |-> p] THEN delta ELSE 0

LEMMA FixedAt ==
  ASSUME NEW n \in Nat, NEW im \in Images(n), NEW r \in Relocs(n), NEW delta \in Int
  PROVE  /\ Fixed(im, r, delta) \in Images(n)
         /\ OneFixed(n, Fixed(im, r, delta), im, r, delta)
<1>1. PICK at \in 0 .. n - 1 : at = r.at
  BY DEF Relocs
<1>2. DOMAIN im = 1 .. n /\ \A q \in 1 .. n : im[q] \in [word : Int, add : Int]
  BY DEF Images
<1>3. PICK i \in 1 .. n : i = at + 1
  OBVIOUS
<1>4. PICK x : x = im[i]
  OBVIOUS
<1>5. x \in [word : Int, add : Int]
  BY <1>2, <1>4
<1>6. PICK y : y = [x EXCEPT !.add = @ + delta]
  OBVIOUS
<1>7. y \in [word : Int, add : Int] /\ y.word = x.word /\ y.add = x.add + delta
  BY <1>5, <1>6
<1>8. CASE r.type = "HIGHLOW"
  <2>1. Fixed(im, r, delta) = [im EXCEPT ![i] = y]
    BY <1>1, <1>3, <1>4, <1>6, <1>8 DEF Fixed
  <2>2. Fixed(im, r, delta) \in Images(n)
    BY <1>2, <1>7, <2>1 DEF Images
  <2>3. ASSUME NEW p \in 0 .. n - 1
        PROVE  /\ Fixed(im, r, delta)[p + 1].word = im[p + 1].word
               /\ Fixed(im, r, delta)[p + 1].add =
                    im[p + 1].add + IF r = [type |-> "HIGHLOW", at |-> p] THEN delta ELSE 0
    <3>1. p + 1 \in 1 .. n /\ im[p + 1].add \in Int
      BY <1>2
    <3>2. CASE p = at
      <4>1. r = [type |-> "HIGHLOW", at |-> p]
        BY <1>1, <1>8, <3>2 DEF Relocs
      <4>2. Fixed(im, r, delta)[p + 1] = y /\ im[p + 1] = x
        BY <1>2, <1>3, <1>4, <2>1, <3>1, <3>2
      <4> QED
        BY <1>7, <4>1, <4>2
    <3>3. CASE p # at
      <4>1. ~(r = [type |-> "HIGHLOW", at |-> p])
        BY <1>1, <3>3
      <4>2. Fixed(im, r, delta)[p + 1] = im[p + 1]
        BY <1>2, <1>3, <2>1, <3>1, <3>3
      <4> QED
        BY <3>1, <4>1, <4>2
    <3> QED
      BY <3>2, <3>3
  <2> QED
    BY <2>2, <2>3, Zenon DEF OneFixed
<1>9. CASE r.type # "HIGHLOW"
  <2>1. Fixed(im, r, delta) = im
    BY <1>9 DEF Fixed
  <2>2. \A p \in 0 .. n - 1 : p + 1 \in 1 .. n
    OBVIOUS
  <2>3. \A p \in 0 .. n - 1 : im[p + 1].add \in Int /\ im[p + 1].add + 0 = im[p + 1].add
    BY <1>2, <2>2
  <2>4. \A p \in 0 .. n - 1 : ~(r = [type |-> "HIGHLOW", at |-> p])
    BY <1>9
  <2> QED
    BY <2>1, <2>3, <2>4 DEF OneFixed
<1> QED
  BY <1>8, <1>9

LEMMA RelocSteps ==
  ASSUME NEW m \in Nat, NEW base \in Images(m), NEW e \in Seq(Relocs(m)), NEW delta \in Int
  PROVE  \E g \in [0 .. Len(e) -> Images(m)] :
           /\ g[0] = base
           /\ \A k \in 1 .. Len(e) : g[k] = Fixed(g[k - 1], e[k], delta)
           /\ RelocsAdded(base, e, delta) = g[Len(e)]
<1> DEFINE V == Images(m)
<1>1. PICK n : n = Len(e)
  OBVIOUS
<1>2. n \in Nat /\ DOMAIN e = 1 .. n /\ base \in V /\ \A i \in 1 .. n : e[i] \in Relocs(m)
  BY <1>1
<1>3. PICK step : step = [x \in (1 .. n) \X V |-> Fixed(x[2], e[x[1]], delta)]
  OBVIOUS
<1>4. step \in [(1 .. n) \X V -> V]
  <2>1. ASSUME NEW x \in (1 .. n) \X V
        PROVE  Fixed(x[2], e[x[1]], delta) \in V
    <3>1. e[x[1]] \in Relocs(m) /\ x[2] \in V
      BY <1>2
    <3> QED
      BY <3>1, FixedAt
  <2> HIDE DEF V
  <2> QED
    BY <1>3, <2>1
<1> HIDE DEF V
<1>6. PICK it \in [SUBSET (1 .. n) -> V] : IsTable(it, n, base, step)
  BY <1>2, <1>4, FoldTable
<1>7. it = [t \in SUBSET (DOMAIN e) |->
              IF t = {} THEN base ELSE Fixed(it[t \ {Max(t)}], e[Max(t)], delta)]
  <2>1. ASSUME NEW t \in SUBSET (1 .. n), t # {}
        PROVE  step[<<Max(t), it[t \ {Max(t)}]>>] = Fixed(it[t \ {Max(t)}], e[Max(t)], delta)
    <3>1. Max(t) \in 1 .. n
      BY <1>2, <2>1, MaxFacts
    <3>2. it[t \ {Max(t)}] \in V
      BY <1>6
    <3> QED
      BY <1>3, <3>1, <3>2
  <2>2. \A t \in SUBSET (1 .. n) :
          it[t] = IF t = {} THEN base ELSE Fixed(it[t \ {Max(t)}], e[Max(t)], delta)
    BY <1>6, <2>1 DEF IsTable
  <2> QED
    BY <1>2, <2>2
<1>8. PICK fold : /\ fold = [t \in SUBSET (DOMAIN e) |->
                                IF t = {} THEN base ELSE Fixed(fold[t \ {Max(t)}], e[Max(t)], delta)]
                   /\ RelocsAdded(base, e, delta) = fold[DOMAIN e]
  <2> DEFINE made == CHOOSE h : h = [t \in SUBSET (DOMAIN e) |->
              IF t = {} THEN base ELSE Fixed(h[t \ {Max(t)}], e[Max(t)], delta)]
  <2>1. made = [t \in SUBSET (DOMAIN e) |->
              IF t = {} THEN base ELSE Fixed(made[t \ {Max(t)}], e[Max(t)], delta)]
    BY <1>7
  <2>2. RelocsAdded(base, e, delta) = made[DOMAIN e]
    BY DEF RelocsAdded, Fixed, FoldLeft, MapThenFoldSet
  <2> HIDE DEF made
  <2> QED
    BY <2>1, <2>2
<1>10. fold[{}] = base
  BY <1>8
<1>11. ASSUME NEW t \in SUBSET (1 .. n), t # {}, fold[t \ {Max(t)}] \in V
       PROVE  fold[t] = step[<<Max(t), fold[t \ {Max(t)}]>>]
  <2>1. Max(t) \in 1 .. n
    BY <1>2, <1>11, MaxFacts
  <2>2. step[<<Max(t), fold[t \ {Max(t)}]>>] = Fixed(fold[t \ {Max(t)}], e[Max(t)], delta)
    BY <1>3, <1>11, <2>1
  <2> QED
    BY <1>2, <1>8, <1>11, <2>2
<1>12. PICK g \in [0 .. n -> V] : Accumulates(g, n, base, step, fold)
  <2>1. Tabulates(fold, n, V, step)
    BY <1>11 DEF Tabulates
  <2> QED
    BY <1>2, <1>4, <1>10, <2>1, FoldAlong
<1>13. \A k \in 1 .. n : g[k] = Fixed(g[k - 1], e[k], delta)
  <2> SUFFICES ASSUME NEW k \in 1 .. n PROVE g[k] = Fixed(g[k - 1], e[k], delta)
    OBVIOUS
  <2>1. g[k - 1] \in V
    BY <1>2
  <2>2. step[<<k, g[k - 1]>>] = Fixed(g[k - 1], e[k], delta)
    BY <1>3, <2>1
  <2> QED
    BY <1>12, <2>2 DEF Accumulates
<1> QED
  BY <1>1, <1>2, <1>8, <1>12, <1>13 DEF Accumulates, V

Unshifted(m, base) == \A p \in 0 .. m - 1 : base[p + 1].add = 0
Shifted(m, im, base, e, k, delta) ==
  \A p \in 0 .. m - 1 : /\ im[p + 1].word = base[p + 1].word
                         /\ im[p + 1].add = Cardinality(Here(e, k, p)) * delta

LEMMA RelocsAt ==
  ASSUME NEW m \in Nat, NEW base \in Images(m), NEW e \in Seq(Relocs(m)), NEW delta \in Int,
         Unshifted(m, base)
  PROVE  /\ RelocsAdded(base, e, delta) \in Images(m)
         /\ \A p \in 0 .. m - 1 :
              /\ RelocsAdded(base, e, delta)[p + 1].word = base[p + 1].word
              /\ RelocsAdded(base, e, delta)[p + 1].add = Cardinality(Here(e, Len(e), p)) * delta
<1>1. PICK n \in Nat : n = Len(e)
  OBVIOUS
<1>2. PICK g \in [0 .. n -> Images(m)] :
        /\ g[0] = base
        /\ \A k \in 1 .. n : g[k] = Fixed(g[k - 1], e[k], delta)
        /\ RelocsAdded(base, e, delta) = g[n]
  BY <1>1, RelocSteps
<1> DEFINE T == {k \in Nat : k <= n => Shifted(m, g[k], base, e, k, delta)}
<1>3. 0 \in T
  <2> SUFFICES ASSUME NEW p \in 0 .. m - 1
               PROVE  g[0][p + 1].word = base[p + 1].word /\ g[0][p + 1].add = Cardinality(Here(e, 0, p)) * delta
    BY DEF Shifted
  <2>1. Here(e, 0, p) = {}
    BY DEF Here
  <2>2. Cardinality(Here(e, 0, p)) = 0
    BY <2>1, FS_EmptySet
  <2>3. base[p + 1].add = 0
    BY DEF Unshifted
  <2>4. g[0][p + 1].add = 0
    BY <1>2, <2>3
  <2>5. 0 * delta = 0
    OBVIOUS
  <2>6. g[0][p + 1].word = base[p + 1].word
    BY <1>2
  <2>7. g[0][p + 1].add = Cardinality(Here(e, 0, p)) * delta
    BY <2>2, <2>4, <2>5, Zenon
  <2> QED
    BY <2>6, <2>7
<1>4. ASSUME NEW k \in Nat, k \in T PROVE k + 1 \in T
  <2> SUFFICES ASSUME k + 1 <= n PROVE Shifted(m, g[k + 1], base, e, k + 1, delta)
    OBVIOUS
  <2> SUFFICES ASSUME NEW p \in 0 .. m - 1
               PROVE  g[k + 1][p + 1].word = base[p + 1].word /\ g[k + 1][p + 1].add = Cardinality(Here(e, k + 1, p)) * delta
    BY DEF Shifted
  <2>1. k + 1 \in 1 .. n /\ k \in 0 .. n /\ (k + 1) - 1 = k
    OBVIOUS
  <2>12. Shifted(m, g[k], base, e, k, delta)
    BY <1>4, <2>1
  <2>2. g[k][p + 1].word = base[p + 1].word /\ g[k][p + 1].add = Cardinality(Here(e, k, p)) * delta
    BY <2>12 DEF Shifted
  <2>3. PICK r \in Relocs(m) : r = e[k + 1]
    BY <1>1, <2>1
  <2>4. PICK im \in Images(m) : im = g[k]
    BY <2>1
  <2>5. g[k + 1] = Fixed(im, r, delta)
    BY <1>2, <2>1, <2>3, <2>4
  <2>6. /\ g[k + 1][p + 1].word = im[p + 1].word
        /\ g[k + 1][p + 1].add = im[p + 1].add + IF r = [type |-> "HIGHLOW", at |-> p] THEN delta ELSE 0
    <3>1. /\ Fixed(im, r, delta)[p + 1].word = im[p + 1].word
          /\ Fixed(im, r, delta)[p + 1].add =
               im[p + 1].add + IF r = [type |-> "HIGHLOW", at |-> p] THEN delta ELSE 0
      <4>1. OneFixed(m, Fixed(im, r, delta), im, r, delta)
        BY FixedAt
      <4> QED
        BY <4>1, Zenon DEF OneFixed
    <3> QED
      BY <2>5, <3>1, Zenon
  <2>7. IsFiniteSet(Here(e, k, p)) /\ Cardinality(Here(e, k, p)) \in Nat
    <3>1. Here(e, k, p) \subseteq 1 .. k
      BY Zenon DEF Here
    <3> HIDE DEF Here
    <3>a. 1 \in Int /\ k \in Int
      OBVIOUS
    <3>b. IsFiniteSet(1 .. k)
      BY <3>a, FS_Interval
    <3>2. IsFiniteSet(Here(e, k, p))
      BY <3>1, <3>b, FS_Subset
    <3> QED
      BY <3>2, FS_CardinalityType
  <2>8. PICK c \in Nat : c = Cardinality(Here(e, k, p))
    BY <2>7
  <2>9. \A j \in 1 .. k + 1 : j = k + 1 \/ j \in 1 .. k
    OBVIOUS
  <2>10. CASE r = [type |-> "HIGHLOW", at |-> p]
    <3>4. e[k + 1] = [type |-> "HIGHLOW", at |-> p]
      BY <2>3, <2>10
    <3>5. k + 1 \notin 1 .. k /\ k + 1 \in 1 .. k + 1 /\ \A j \in 1 .. k : j \in 1 .. k + 1
      OBVIOUS
    <3>6. k + 1 \notin Here(e, k, p)
      BY <3>5 DEF Here
    <3>1. Here(e, k + 1, p) = Here(e, k, p) \cup {k + 1}
      <4>1. ASSUME NEW j PROVE j \in Here(e, k + 1, p) <=> j \in Here(e, k, p) \cup {k + 1}
        BY <2>9, <3>4, <3>5, Zenon DEF Here
      <4> QED
        BY <4>1, Zenon
    <3>2. Cardinality(Here(e, k, p) \cup {k + 1}) = Cardinality(Here(e, k, p)) + 1
      <4>1. PICK z : z = Here(e, k, p)
        OBVIOUS
      <4>2. Cardinality(z \cup {k + 1}) = IF k + 1 \in z THEN Cardinality(z) ELSE Cardinality(z) + 1
        BY <2>7, <4>1, FS_AddElement
      <4>3. k + 1 \notin z
        BY <3>6, <4>1, Zenon
      <4>4. Cardinality(z \cup {k + 1}) = Cardinality(z) + 1
        BY <4>2, <4>3, Zenon
      <4> QED
        BY <4>1, <4>4, Zenon
    <3>3. (c + 1) * delta = c * delta + delta
      OBVIOUS
    <3> QED
      BY <2>2, <2>4, <2>6, <2>8, <2>10, <3>1, <3>2, <3>3
  <2>11. CASE ~(r = [type |-> "HIGHLOW", at |-> p])
    <3>1. Here(e, k + 1, p) = Here(e, k, p)
      BY <2>1, <2>3, <2>9, <2>11 DEF Here
    <3>2. g[k + 1][p + 1].add = im[p + 1].add + 0
      BY <2>6, <2>11
    <3>3. im[p + 1].add = c * delta /\ c * delta \in Int
      BY <2>2, <2>4, <2>8
    <3> QED
      BY <2>2, <2>4, <2>6, <2>8, <3>1, <3>2, <3>3
  <2> QED
    BY <2>10, <2>11
<1>5. n \in T
  <2> HIDE DEF T
  <2>1. \A k \in Nat : k \in T => k + 1 \in T
    BY <1>4
  <2> QED
    BY <1>3, <2>1, Induction
<1>6. Shifted(m, g[n], base, e, n, delta)
  BY <1>5
<1>7. \A p \in 0 .. m - 1 : /\ g[n][p + 1].word = base[p + 1].word
                            /\ g[n][p + 1].add = Cardinality(Here(e, n, p)) * delta
  BY <1>6, Zenon DEF Shifted
<1>8. g[n] \in Images(m)
  <2>1. n \in 0 .. n
    OBVIOUS
  <2> QED
    BY <2>1
<1> QED
  BY <1>1, <1>2, <1>7, <1>8, Zenon

(* What an image that has been loaded is: what ImageTrue says of it.       *)
Imaged(f, base, im) ==
  /\ Len(im) = f.imageSize
  /\ \A p \in 0 .. f.imageSize - 1 :
       LET by == {j \in DOMAIN f.sections : Fills(f, f.sections[j], p)}
           fixes == {j \in DOMAIN f.relocs : f.relocs[j] = [type |-> "HIGHLOW", at |-> p]}
       IN /\ im[p + 1].word = IF by # {} THEN f.sections[Max(by)].at + p - f.sections[Max(by)].va
                              ELSE IF p < f.headers /\ p < f.size THEN p ELSE Nothing
          /\ im[p + 1].add = Cardinality(fixes) * (base - f.imageBase)

LEMMA ImageHolds ==
  ASSUME NEW f \in ExeFiles, NEW base \in Addresses
  PROVE  Imaged(f, base, PeImage(f, base))
<1>1. PICK n \in Nat, d \in Int : n = f.imageSize /\ d = base - f.imageBase
  <2>1. f.imageSize \in Nat /\ f.imageBase \in Nat
    BY FileFacts, Zenon
  <2>2. base \in Nat
    BY ExeAssumption
  <2> QED
    BY <2>1, <2>2
<1>2. PICK rs \in Seq(Relocs(n)) : rs = f.relocs
  <2>1. f.relocs \in Seq([type : {"HIGHLOW", "ABSOLUTE"}, at : 0 .. f.imageSize - 1])
    BY FileFacts, Zenon
  <2> QED
    BY <1>1, <2>1, Zenon DEF Relocs
<1>3. PICK e : e = IF d = 0 THEN <<>> ELSE rs
  OBVIOUS
<1>4. e \in Seq(Relocs(n))
  BY <1>3
<1>5. PICK im : im = SectionsCopied(f)
  OBVIOUS
<1>6. im \in Images(n)
  BY <1>1, <1>5, SectionsPlaced, Zenon
<1>7. \A p \in 0 .. n - 1 : im[p + 1].add = 0 /\ im[p + 1].word = WordAt(f, Len(f.sections), p)
  BY <1>1, <1>5, SectionsPlaced, Zenon
<1>8. PeImage(f, base) = RelocsAdded(im, e, d)
  <2>1. PeImage(f, base) = RelocsAdded(SectionsCopied(f), IF base - f.imageBase = 0 THEN <<>> ELSE f.relocs, base - f.imageBase)
    BY DEF PeImage, Relocated, SectionsCopied, RelocsAdded
  <2> QED
    BY <1>1, <1>2, <1>3, <1>5, <2>1, Zenon
<1>9. PICK now : now = RelocsAdded(im, e, d)
  OBVIOUS
<1>10. Unshifted(n, im)
  BY <1>7, Zenon DEF Unshifted
<1>11. /\ now \in Images(n)
       /\ \A p \in 0 .. n - 1 : /\ now[p + 1].word = im[p + 1].word
                                /\ now[p + 1].add = Cardinality(Here(e, Len(e), p)) * d
  BY <1>4, <1>6, <1>9, <1>10, RelocsAt, Zenon
<1>12. Len(now) = n
  BY <1>11 DEF Images
<1>13. ASSUME NEW p \in 0 .. n - 1
       PROVE  now[p + 1].word = IF {j \in DOMAIN f.sections : Fills(f, f.sections[j], p)} # {}
                                THEN f.sections[Max({j \in DOMAIN f.sections : Fills(f, f.sections[j], p)})].at + p
                                       - f.sections[Max({j \in DOMAIN f.sections : Fills(f, f.sections[j], p)})].va
                                ELSE IF p < f.headers /\ p < f.size THEN p ELSE Nothing
  <2>1. DOMAIN f.sections = 1 .. Len(f.sections)
    BY FileFacts, Zenon
  <2>2. Fillers(f, Len(f.sections), p) = {j \in DOMAIN f.sections : Fills(f, f.sections[j], p)}
    BY <2>1, Zenon DEF Fillers
  <2>3. now[p + 1].word = WordAt(f, Len(f.sections), p)
    BY <1>7, <1>11, Zenon
  <2> QED
    BY <2>2, <2>3, Zenon DEF WordAt, HeaderWord
<1>14. ASSUME NEW p \in 0 .. n - 1
       PROVE  now[p + 1].add = Cardinality({j \in DOMAIN rs : rs[j] = [type |-> "HIGHLOW", at |-> p]}) * d
  <2>1. PICK here : here = {j \in DOMAIN rs : rs[j] = [type |-> "HIGHLOW", at |-> p]}
    OBVIOUS
  <2>2. now[p + 1].add = Cardinality(Here(e, Len(e), p)) * d
    BY <1>11, Zenon
  <2>3. CASE d = 0
    <3>1. Here(e, Len(e), p) = {}
      BY <1>3, <2>3 DEF Here
    <3>2. Cardinality(Here(e, Len(e), p)) = 0
      BY <3>1, FS_EmptySet
    <3>3. IsFiniteSet(here)
      <4>1. here \subseteq 1 .. Len(rs) /\ Len(rs) \in Nat
        BY <2>1
      <4>2. IsFiniteSet(1 .. Len(rs))
        BY <4>1, FS_Interval
      <4> QED
        BY <4>1, <4>2, FS_Subset
    <3>4. Cardinality(here) \in Nat
      BY <3>3, FS_CardinalityType
    <3>5. Cardinality(here) * d = 0 /\ 0 * d = 0
      BY <2>3, <3>4
    <3> QED
      BY <2>1, <2>2, <3>2, <3>5, Zenon
  <2>4. CASE d # 0
    <3>1. e = rs /\ DOMAIN rs = 1 .. Len(rs)
      BY <1>3, <2>4
    <3>2. Here(e, Len(e), p) = here
      BY <2>1, <3>1, Zenon DEF Here
    <3> QED
      BY <2>1, <2>2, <3>2, Zenon
  <2> QED
    BY <2>3, <2>4
<1> QED
  BY <1>1, <1>2, <1>8, <1>9, <1>12, <1>13, <1>14, Zenon DEF Imaged

ExeStartOK ==
  /\ exeStart \in [phase : {"idle", "read", "slot"}, file : ExeFiles \cup {{}}, raw : Addresses \cup {0}]
  /\ exeStart.phase # "idle" => exeStart.file \in ExeFiles /\ exeStart.raw \in Addresses
AppsOK ==
  /\ DOMAIN exeApps = ExeIds
  /\ \A i \in ExeIds : exeApps[i].running =>
       /\ exeApps[i].file \in ExeFiles /\ exeApps[i].base \in Addresses
       /\ Imaged(exeApps[i].file, exeApps[i].base, exeApps[i].image)
BlocksApart ==
  \A i \in ExeIds : exeApps[i].running =>
    /\ \A j \in ExeIds : exeApps[j].running /\ exeApps[j].base = exeApps[i].base => i = j
    /\ exeStart.phase # "idle" => exeApps[i].base # exeStart.raw
(* the blocks on the heap                                                  *)
HeldOnes ==
  \A a : a \in exeHeap <=> \/ \E i \in ExeIds : exeApps[i].running /\ exeApps[i].base = a
                           \/ exeStart.phase # "idle" /\ a = exeStart.raw
FilesTaken ==
  /\ archive \in Archives /\ initrdOk \in BOOLEAN
  /\ dateien = IF initrdOk THEN Unpacked(archive) ELSE <<>>

ExeInv == ExeStartOK /\ AppsOK /\ BlocksApart /\ HeldOnes /\ FilesTaken

LEMMA ExeBegins == ExeInit => ExeInv
<1> SUFFICES ASSUME ExeInit PROVE ExeInv
  OBVIOUS
<1>1. ExeStartOK /\ exeStart.phase = "idle"
  BY DEF ExeInit, ExeStartOK, NoStart
<1>2. DOMAIN exeApps = ExeIds /\ \A i \in ExeIds : ~exeApps[i].running
  BY DEF ExeInit, NoApp
<1>3. HeldOnes
  BY <1>1, <1>2 DEF HeldOnes, ExeInit
<1> QED
  BY <1>1, <1>2, <1>3 DEF ExeInit, ExeInv, AppsOK, BlocksApart, FilesTaken

(* the lowest slot that rests                                              *)
LEMMA RestingSlot ==
  ASSUME Resting # {}
  PROVE  Min(Resting) \in ExeIds /\ ~exeApps[Min(Resting)].running
<1>1. Resting \subseteq Nat
  BY ExeAssumption DEF Resting, ExeIds
<1>2. Min(Resting) \in Resting
  BY <1>1, MinFacts
<1> QED
  BY <1>2 DEF Resting

(* what remains when a start is given up                                   *)
LEMMA GivenUp ==
  ASSUME ExeInv, GiveUp, exeStart.phase # "idle", UNCHANGED <<archive, dateien, initrdOk>>,
         \/ UNCHANGED exeApps
         \/ Resting # {} /\ exeApps' = [exeApps EXCEPT ![Min(Resting)] = NoApp]
  PROVE  ExeInv'
<1> USE DEF ExeInv
<1>1. ExeStartOK' /\ exeStart'.phase = "idle"
  BY DEF GiveUp, NoStart, ExeStartOK
<1>2. /\ DOMAIN exeApps' = ExeIds
      /\ \A i \in ExeIds : exeApps'[i].running <=> exeApps[i].running
      /\ \A i \in ExeIds : exeApps'[i].running => exeApps'[i] = exeApps[i]
  <2>1. CASE UNCHANGED exeApps
    BY <2>1 DEF AppsOK
  <2>2. CASE Resting # {} /\ exeApps' = [exeApps EXCEPT ![Min(Resting)] = NoApp]
    <3>1. PICK k \in ExeIds : k = Min(Resting) /\ ~exeApps[k].running
      BY <2>2, RestingSlot
    <3>2. exeApps' = [exeApps EXCEPT ![k] = NoApp] /\ DOMAIN exeApps = ExeIds
      BY <2>2, <3>1 DEF AppsOK
    <3>3. ~NoApp.running
      BY DEF NoApp
    <3> QED
      BY <3>1, <3>2, <3>3
  <2> QED
    BY <2>1, <2>2
<1>3. AppsOK'
  BY <1>2 DEF AppsOK
<1>4. BlocksApart'
  BY <1>1, <1>2 DEF BlocksApart
<1>5. HeldOnes'
  <2>1. exeHeap' = exeHeap \ {exeStart.raw}
    BY DEF GiveUp
  <2>2. \A i \in ExeIds : exeApps[i].running => exeApps[i].base # exeStart.raw
    BY DEF BlocksApart
  <2>3. ASSUME NEW a PROVE a \in exeHeap' <=> \E i \in ExeIds : exeApps[i].running /\ exeApps[i].base = a
    BY <2>1, <2>2 DEF HeldOnes
  <2>4. ASSUME NEW a
        PROVE  (\E i \in ExeIds : exeApps[i].running /\ exeApps[i].base = a) <=> \E i \in ExeIds : exeApps'[i].running /\ exeApps'[i].base = a
    BY <1>2
  <2> QED
    BY <1>1, <2>3, <2>4 DEF HeldOnes
<1>6. FilesTaken'
  BY DEF FilesTaken
<1> QED
  BY <1>1, <1>3, <1>4, <1>5, <1>6

LEMMA ExeOpenKeeps ==
  ASSUME ExeInv, NEW f \in ExeFiles, ExeOpen(f)
  PROVE  ExeInv'
<1> USE DEF ExeInv
<1>1. PICK raw \in Addresses \ exeHeap :
        exeHeap' = exeHeap \cup {raw} /\ exeStart' = [phase |-> "read", file |-> f, raw |-> raw]
  BY DEF ExeOpen
<1>2. exeStart.phase = "idle" /\ UNCHANGED <<exeApps, archive, dateien, initrdOk>>
  BY DEF ExeOpen
<1>3. ExeStartOK' /\ exeStart'.phase # "idle" /\ exeStart'.raw = raw
  BY <1>1 DEF ExeStartOK
<1>4. AppsOK' /\ FilesTaken'
  BY <1>2 DEF AppsOK, FilesTaken
<1>5. BlocksApart'
  <2>1. \A i \in ExeIds : exeApps[i].running => exeApps[i].base # raw
    BY <1>1 DEF HeldOnes
  <2> QED
    BY <1>2, <1>3, <2>1 DEF BlocksApart
<1>6. HeldOnes'
  BY <1>1, <1>2, <1>3 DEF HeldOnes
<1> QED
  BY <1>3, <1>4, <1>5, <1>6

LEMMA ExeLoads ==
  ASSUME ExeInv, exeStart.phase = "slot", Resting # {}, UNCHANGED <<archive, dateien, initrdOk>>,
         NEW base \in Addresses \ exeHeap,
         exeApps' = [exeApps EXCEPT ![Min(Resting)] =
            [running |-> TRUE, file |-> exeStart.file, base |-> base, image |-> PeImage(exeStart.file, base)]],
         exeHeap' = (exeHeap \ {exeStart.raw}) \cup {base},
         exeStart' = NoStart
  PROVE  ExeInv'
<1> USE DEF ExeInv
<1>1. PICK f \in ExeFiles : f = exeStart.file
  BY DEF ExeStartOK
<1>2. PICK k \in ExeIds : k = Min(Resting) /\ ~exeApps[k].running
  BY RestingSlot
<1>3. PICK new : new = [running |-> TRUE, file |-> f, base |-> base, image |-> PeImage(f, base)]
  OBVIOUS
<1>4. new.running /\ new.file = f /\ new.base = base /\ new.image = PeImage(f, base)
  BY <1>3
<1>5. Imaged(f, base, PeImage(f, base))
  BY ImageHolds, Zenon
<1>6. exeApps' = [exeApps EXCEPT ![k] = new] /\ DOMAIN exeApps = ExeIds
  BY <1>1, <1>2, <1>3, Zenon DEF AppsOK
<1>7. /\ DOMAIN exeApps' = ExeIds /\ exeApps'[k] = new
      /\ \A i \in ExeIds : i # k => exeApps'[i] = exeApps[i]
  BY <1>6
<1>8. ExeStartOK' /\ exeStart'.phase = "idle"
  BY DEF NoStart, ExeStartOK
<1>9. AppsOK'
  <2>1. ASSUME NEW i \in ExeIds, exeApps'[i].running
        PROVE  /\ exeApps'[i].file \in ExeFiles /\ exeApps'[i].base \in Addresses
               /\ Imaged(exeApps'[i].file, exeApps'[i].base, exeApps'[i].image)
    <3>1. CASE i = k
      BY <1>4, <1>5, <1>7, <3>1
    <3>2. CASE i # k
      BY <1>7, <2>1, <3>2 DEF AppsOK
    <3> QED
      BY <3>1, <3>2
  <2> QED
    BY <1>7, <2>1, Zenon DEF AppsOK
<1>10. \A i \in ExeIds : exeApps[i].running => exeApps[i].base # base /\ i # k /\ exeApps[i].base # exeStart.raw
  BY <1>2 DEF HeldOnes, BlocksApart
<1>11. BlocksApart'
  <2>1. ASSUME NEW i \in ExeIds, NEW j \in ExeIds, exeApps'[i].running, exeApps'[j].running,
               exeApps'[j].base = exeApps'[i].base
        PROVE  i = j
    <3>1. CASE i = k \/ j = k
      BY <1>4, <1>7, <1>10, <2>1, <3>1
    <3>2. CASE i # k /\ j # k
      BY <1>7, <2>1, <3>2 DEF BlocksApart
    <3> QED
      BY <3>1, <3>2
  <2> QED
    BY <1>8, <2>1 DEF BlocksApart
<1>12. HeldOnes'
  <2>1. ASSUME NEW a PROVE a \in exeHeap' <=> \E i \in ExeIds : exeApps'[i].running /\ exeApps'[i].base = a
    <3>1. a \in exeHeap' <=> a = base \/ \E i \in ExeIds : exeApps[i].running /\ exeApps[i].base = a
      BY <1>10 DEF HeldOnes
    <3>2. (\E i \in ExeIds : exeApps'[i].running /\ exeApps'[i].base = a)
            <=> a = base \/ \E i \in ExeIds : exeApps[i].running /\ exeApps[i].base = a
      BY <1>2, <1>4, <1>7, <1>10
    <3> QED
      BY <3>1, <3>2
  <2> QED
    BY <1>8, <2>1 DEF HeldOnes
<1>13. FilesTaken'
  BY DEF FilesTaken
<1> QED
  BY <1>8, <1>9, <1>11, <1>12, <1>13

LEMMA ExeCloseKeeps ==
  ASSUME ExeInv, NEW k \in ExeIds, ExeClose(k)
  PROVE  ExeInv'
<1> USE DEF ExeInv
<1>1. /\ exeApps[k].running /\ exeHeap' = exeHeap \ {exeApps[k].base}
      /\ exeApps' = [exeApps EXCEPT ![k] = NoApp] /\ UNCHANGED <<exeStart, archive, dateien, initrdOk>>
  BY DEF ExeClose
<1>2. /\ DOMAIN exeApps' = ExeIds /\ ~exeApps'[k].running
      /\ \A i \in ExeIds : i # k => exeApps'[i] = exeApps[i]
  BY <1>1 DEF AppsOK, NoApp
<1>3. AppsOK'
  BY <1>2 DEF AppsOK
<1>4. ExeStartOK' /\ FilesTaken'
  BY <1>1 DEF ExeStartOK, FilesTaken
<1>5. BlocksApart'
  BY <1>1, <1>2 DEF BlocksApart
<1>6. HeldOnes'
  <2>1. \A i \in ExeIds : exeApps'[i].running <=> exeApps[i].running /\ exeApps[i].base # exeApps[k].base
    BY <1>1, <1>2 DEF BlocksApart
  <2>2. \A i \in ExeIds : exeApps'[i].running => exeApps'[i].base = exeApps[i].base
    BY <1>2
  <2>3. exeStart.phase # "idle" => exeStart.raw # exeApps[k].base
    BY <1>1 DEF BlocksApart
  <2> QED
    BY <1>1, <2>1, <2>2, <2>3 DEF HeldOnes
<1> QED
  BY <1>3, <1>4, <1>5, <1>6

LEMMA ExeGoesOn == ExeInv /\ [ExeNext]_exeVars => ExeInv'
<1> SUFFICES ASSUME ExeInv, [ExeNext]_exeVars PROVE ExeInv'
  OBVIOUS
<1>1. ASSUME NEW f \in ExeFiles, ExeOpen(f) PROVE ExeInv'
  BY <1>1, ExeOpenKeeps
<1>2. ASSUME ExeRead PROVE ExeInv'
  <2>1. exeStart' = [exeStart EXCEPT !.phase = "slot"] /\ exeStart.phase = "read"
    BY <1>2 DEF ExeRead
  <2>2. UNCHANGED <<exeHeap, exeApps, archive, dateien, initrdOk>>
    BY <1>2 DEF ExeRead
  <2>3. ExeStartOK' /\ exeStart'.phase # "idle" /\ exeStart'.raw = exeStart.raw
    BY <2>1 DEF ExeInv, ExeStartOK
  <2> QED
    BY <2>1, <2>2, <2>3 DEF ExeInv, AppsOK, BlocksApart, HeldOnes, FilesTaken
<1>3. ASSUME ExeReadFails PROVE ExeInv'
  BY <1>3, GivenUp DEF ExeReadFails
<1>4. ASSUME ExeNoSlot PROVE ExeInv'
  BY <1>4, GivenUp DEF ExeNoSlot
<1>5. ASSUME ExeLoad PROVE ExeInv'
  <2>1. exeStart.phase = "slot" /\ Resting # {} /\ UNCHANGED <<archive, dateien, initrdOk>>
    BY <1>5 DEF ExeLoad
  <2>2. \/ \E base \in Addresses \ exeHeap :
             /\ exeApps' = [exeApps EXCEPT ![Min(Resting)] =
                  [running |-> TRUE, file |-> exeStart.file, base |-> base, image |-> PeImage(exeStart.file, base)]]
             /\ exeHeap' = (exeHeap \ {exeStart.raw}) \cup {base}
             /\ exeStart' = NoStart
        \/ GiveUp /\ exeApps' = [exeApps EXCEPT ![Min(Resting)] = NoApp]
    BY <1>5, Zenon DEF ExeLoad
  <2>3. CASE GiveUp /\ exeApps' = [exeApps EXCEPT ![Min(Resting)] = NoApp]
    BY <2>1, <2>3, GivenUp
  <2>4. ASSUME NEW base \in Addresses \ exeHeap,
               exeApps' = [exeApps EXCEPT ![Min(Resting)] =
                  [running |-> TRUE, file |-> exeStart.file, base |-> base, image |-> PeImage(exeStart.file, base)]],
               exeHeap' = (exeHeap \ {exeStart.raw}) \cup {base}, exeStart' = NoStart
        PROVE  ExeInv'
    BY <2>1, <2>4, ExeLoads, Zenon
  <2> QED
    BY <2>2, <2>3, <2>4, Zenon
<1>6. ASSUME ExeLoadFails PROVE ExeInv'
  BY <1>6, GivenUp DEF ExeLoadFails
<1>7. ASSUME InitrdInit PROVE ExeInv'
  <2>1. UNCHANGED <<exeHeap, exeStart, exeApps, archive>> /\ dateien' = Unpacked(archive) /\ initrdOk' = TRUE
    BY <1>7 DEF InitrdInit
  <2>2. PICK a : a = archive
    OBVIOUS
  <2>4. dateien' = Unpacked(a) /\ archive' = a
    BY <2>1, <2>2
  <2>3. FilesTaken'
    BY <2>1, <2>2, <2>4 DEF ExeInv, FilesTaken
  <2> QED
    BY <2>1, <2>3 DEF ExeInv, ExeStartOK, AppsOK, BlocksApart, HeldOnes
<1>8. ASSUME NEW i \in ExeIds, ExeClose(i) PROVE ExeInv'
  BY <1>8, ExeCloseKeeps
<1>9. CASE UNCHANGED exeVars
  BY <1>9 DEF exeVars, ExeInv, ExeStartOK, AppsOK, BlocksApart, HeldOnes, FilesTaken
<1> QED
  BY <1>1, <1>2, <1>3, <1>4, <1>5, <1>6, <1>7, <1>8, <1>9, Zenon DEF ExeNext

(* the largest, if zero may be one                                         *)
LEMMA MaxFromZero ==
  ASSUME NEW n \in Nat, NEW t \in SUBSET (0 .. n), t # {}
  PROVE  Max(t) \in t /\ \A x \in t : Max(t) >= x
<1>1. \E x \in t : \A y \in t : x >= y
  <2>1. CASE t = {0}
    BY <2>1
  <2>2. CASE t # {0}
    <3>1. PICK s : s = t \ {0}
      OBVIOUS
    <3>2. s \in SUBSET (1 .. n) /\ s # {}
      BY <2>2, <3>1
    <3>3. Max(s) \in s /\ \A x \in s : Max(s) >= x
      BY <3>2, MaxFacts
    <3>4. PICK m \in 1 .. n : m = Max(s) /\ m \in s /\ \A x \in s : m >= x
      BY <3>2, <3>3
    <3>5. \A y \in t : m >= y
      BY <3>1, <3>4
    <3> QED
      BY <3>1, <3>4, <3>5
  <2> QED
    BY <2>1, <2>2
<1> QED
  BY <1>1, Zenon DEF Max

(* The module's files that were taken: all it has whole, as far as the     *)
(* table reaches.                                                          *)
EndOf(a, m) == FoldLeft(LAMBDA sum, f : sum + ENTRYHEAD + f.size, 0, SubSeq(a.files, 1, m))
AllOf(a)    == Min({a.count, INITRD_MAX, Len(a.files)})
WholeOnes(a) == {n \in 0 .. AllOf(a) : \A m \in 1 .. n : EndOf(a, m) <= a.room}

LEMMA FilesUnpacked ==
  ASSUME NEW a \in Archives
  PROVE  \E t \in Nat : /\ Unpacked(a) = SubSeq(a.files, 1, t)
                        /\ t <= INITRD_MAX /\ t <= Len(a.files)
                        /\ \A n \in 1 .. Len(a.files) :
                             n <= a.count /\ n <= INITRD_MAX /\ (\A m \in 1 .. n : EndOf(a, m) <= a.room) => n <= t
<1>1. PICK c \in Nat, x \in Nat, l \in Nat : c = a.count /\ x = INITRD_MAX /\ l = Len(a.files)
  <2>1. a.count \in Nat /\ a.files \in Seq(Range(a.files)) /\ INITRD_MAX \in Nat
    BY InitrdAssumption, Zenon
  <2>2. PICK fs, S : fs = a.files /\ S = Range(a.files)
    OBVIOUS
  <2>3. fs \in Seq(S)
    BY <2>1, <2>2, Zenon
  <2>4. Len(fs) \in Nat
    BY <2>3
  <2> QED
    BY <2>1, <2>2, <2>4
<1>2. PICK most : most = AllOf(a)
  OBVIOUS
<1>3. /\ most \in Nat /\ most <= c /\ most <= x /\ most <= l
      /\ \A n \in Nat : n <= c /\ n <= x /\ n <= l => n <= most
  <2>1. PICK s : s = {c, x, l}
    OBVIOUS
  <2>2. s \subseteq Nat /\ s # {} /\ c \in s /\ x \in s /\ l \in s
    BY <2>1
  <2>3. Min(s) \in s /\ \A y \in s : Min(s) <= y
    BY <2>2, MinFacts
  <2>4. most = Min(s)
    BY <1>1, <1>2, <2>1 DEF AllOf
  <2> QED
    BY <2>1, <2>2, <2>3, <2>4
<1>4. PICK w : w = WholeOnes(a)
  OBVIOUS
<1>5. w \in SUBSET (0 .. most) /\ 0 \in w
  BY <1>2, <1>3, <1>4 DEF WholeOnes
<1>6. Max(w) \in w /\ \A y \in w : Max(w) >= y
  <2>1. w # {}
    BY <1>5
  <2> QED
    BY <1>3, <1>5, <2>1, MaxFromZero
<1>7. PICK t \in 0 .. most : t = Max(w) /\ \A y \in w : t >= y
  BY <1>5, <1>6
<1>8. Unpacked(a) = SubSeq(a.files, 1, t)
  <2>1. Unpacked(a) = SubSeq(a.files, 1, Max(WholeOnes(a)))
    BY DEF Unpacked, WholeOnes, AllOf, EndOf
  <2> QED
    BY <1>4, <1>7, <2>1
<1>9. ASSUME NEW n \in 1 .. Len(a.files), n <= a.count, n <= INITRD_MAX, \A m \in 1 .. n : EndOf(a, m) <= a.room
      PROVE  n <= t
  <2>1. n \in 0 .. most
    BY <1>1, <1>3, <1>9
  <2>2. n \in w
    BY <1>2, <1>4, <1>9, <2>1, Zenon DEF WholeOnes
  <2> QED
    BY <1>7, <2>1, <2>2
<1> QED
  BY <1>1, <1>3, <1>7, <1>8, <1>9

LEMMA InitrdHolds == ExeInv => InitrdTrue /\ Len(dateien) <= INITRD_MAX
<1> SUFFICES ASSUME ExeInv PROVE InitrdTrue /\ Len(dateien) <= INITRD_MAX
  OBVIOUS
<1>1. PICK a \in Archives : a = archive
  BY DEF ExeInv, FilesTaken
<1>2. CASE ~initrdOk
  <2>1. dateien = <<>>
    BY <1>2 DEF ExeInv, FilesTaken
  <2>2. Len(dateien) = 0
    BY <2>1
  <2>3. INITRD_MAX \in Nat
    BY InitrdAssumption, Zenon
  <2>4. Len(dateien) <= INITRD_MAX
    BY <2>2, <2>3
  <2> QED
    BY <1>2, <2>4 DEF InitrdTrue
<1>3. CASE initrdOk
  <2>1. dateien = Unpacked(a)
    BY <1>1, <1>3 DEF ExeInv, FilesTaken
  <2>2. PICK t \in Nat : /\ Unpacked(a) = SubSeq(a.files, 1, t)
                         /\ t <= INITRD_MAX /\ t <= Len(a.files)
                         /\ \A n \in 1 .. Len(a.files) :
                              n <= a.count /\ n <= INITRD_MAX /\ (\A m \in 1 .. n : EndOf(a, m) <= a.room) => n <= t
    BY FilesUnpacked, Zenon
  <2>3. PICK fs : fs = a.files
    OBVIOUS
  <2>4. fs \in Seq(Range(fs)) /\ \A f \in Range(fs) : f.size \in Nat
    BY <2>3, InitrdAssumption
  <2>5. PICK l \in Nat : l = Len(fs) /\ \A i \in 1 .. l : fs[i].size \in Nat
    BY <2>4 DEF Range
  <2>6. PICK d : d = dateien
    OBVIOUS
  <2>7. d = SubSeq(fs, 1, t) /\ t <= l
    BY <2>1, <2>2, <2>3, <2>5, <2>6, Zenon
  <2>8. Len(d) = t /\ DOMAIN d = 1 .. t /\ \A i \in 1 .. t : d[i] = fs[i]
    <3>1. PICK S : S = Range(fs)
      OBVIOUS
    <3>2. fs \in Seq(S)
      BY <2>4, <3>1
    <3> QED
      BY <2>5, <2>7, <3>2
  <2>9. Len(dateien) <= INITRD_MAX
    BY <2>2, <2>6, <2>8
  <2>10. ASSUME NEW n \in 1 .. Len(fs), n <= a.count, n <= INITRD_MAX,
                \A m \in 1 .. n : EndOf(a, m) <= a.room,
                \A m \in 1 .. n - 1 : fs[m].name # fs[n].name
         PROVE  InitrdFind(fs[n].name) = n /\ InitrdRead(n, 0, fs[n].size) = fs[n].size
    <3>1. n <= t
      BY <2>2, <2>3, <2>10, Zenon
    <3>2. n \in 1 .. t /\ n \in DOMAIN d /\ d[n] = fs[n] /\ fs[n].size \in Nat /\ n \in Nat
      BY <2>5, <2>8, <3>1
    <3>3. PICK same : same = {i \in DOMAIN d : d[i].name = fs[n].name}
      OBVIOUS
    <3>4. n \in same /\ same \subseteq Nat /\ same # {}
      BY <2>8, <3>2, <3>3
    <3>5. Min(same) \in same /\ \A y \in same : Min(same) <= y
      BY <3>4, MinFacts
    <3>6. PICK x \in 1 .. t : x = Min(same) /\ x <= n /\ fs[x].name = fs[n].name
      BY <2>8, <3>3, <3>4, <3>5
    <3>7. x = n
      <4>1. x \notin 1 .. n - 1
        BY <2>10, <3>6
      <4> QED
        BY <3>2, <3>6, <4>1
    <3>8. InitrdFind(fs[n].name) = n
      BY <2>6, <3>3, <3>4, <3>6, <3>7 DEF InitrdFind
    <3>9. PICK z \in Nat : z = fs[n].size
      BY <3>2
    <3>10. Min({z - 0, z}) = z
      <4>1. {z - 0, z} = {z} /\ {z} \subseteq Nat /\ {z} # {}
        OBVIOUS
      <4>2. Min({z}) \in {z}
        BY <4>1, MinFacts
      <4> QED
        BY <4>1, <4>2
    <3>11. InitrdRead(n, 0, z) = z
      <4>1. n \in DOMAIN dateien /\ dateien[n].size = z
        BY <2>6, <3>2, <3>9
      <4>2. CASE 0 >= z
        BY <4>1, <4>2 DEF InitrdRead
      <4>3. CASE ~(0 >= z)
        BY <3>10, <4>1, <4>3 DEF InitrdRead
      <4> QED
        BY <4>2, <4>3
    <3> QED
      BY <3>8, <3>9, <3>11
  <2>11. InitrdTrue
    BY <1>1, <2>3, <2>10, Zenon DEF InitrdTrue, EndOf
  <2> QED
    BY <2>9, <2>11
<1> QED
  BY <1>2, <1>3

LEMMA ExePromises == ExeInv => ExeTypeOK /\ ImageTrue /\ InitrdTrue
<1> SUFFICES ASSUME ExeInv PROVE ExeTypeOK /\ ImageTrue /\ InitrdTrue
  OBVIOUS
<1>1. Len(dateien) <= INITRD_MAX /\ InitrdTrue
  BY InitrdHolds
<1>2. exeHeap \subseteq Addresses
  BY DEF ExeInv, HeldOnes, AppsOK, ExeStartOK
<1>3. \A i \in ExeIds : exeApps[i].running => Len(exeApps[i].image) = exeApps[i].file.imageSize
  BY DEF ExeInv, AppsOK, Imaged
<1>4. ExeTypeOK
  BY <1>1, <1>2, <1>3 DEF ExeTypeOK, ExeInv, ExeStartOK, FilesTaken
<1>5. exeHeap = {exeApps[i].base : i \in {j \in ExeIds : exeApps[j].running}}
                \cup (IF exeStart.phase = "idle" THEN {} ELSE {exeStart.raw})
  <2>1. ASSUME NEW a
        PROVE  a \in exeHeap <=> a \in {exeApps[i].base : i \in {j \in ExeIds : exeApps[j].running}}
                                   \cup (IF exeStart.phase = "idle" THEN {} ELSE {exeStart.raw})
    BY DEF ExeInv, HeldOnes
  <2> QED
    BY <2>1
<1>6. \A i \in ExeIds : exeApps[i].running => Imaged(exeApps[i].file, exeApps[i].base, exeApps[i].image)
  BY DEF ExeInv, AppsOK
<1>7. ImageTrue
  BY <1>5, <1>6, Zenon DEF ImageTrue, Imaged, Fills
<1> QED
  BY <1>1, <1>4, <1>7
=============================================================================
