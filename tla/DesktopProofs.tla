--------------------------- MODULE DesktopProofs ---------------------------
(***************************************************************************)
(* Theorems about what stands between the hardware and the user, for every *)
(* size of the rings, of the screen, of the fields and of the table of     *)
(* applications: keys, clicks and times are those there were, the desktop  *)
(* runs only for the stored user, and a click acts on one window.  Each    *)
(* part has an inductive invariant of its own.                             *)
(***************************************************************************)
EXTENDS Desktop, SequenceTheorems, FiniteSetTheorems, WellFoundedInduction, TLAPS

-----------------------------------------------------------------------------
(* Rings *)

(* Arithmetic: the remainder is determined by the quotient.                *)
LEMMA ModUnique ==
  ASSUME NEW q \in Nat \ {0}, NEW d \in Int, NEW r \in 0 .. q - 1
  PROVE  (q * d + r) % q = r
<1> DEFINE s == (q * d + r) % q
<1>1. s \in 0 .. q - 1
  OBVIOUS
<1>2. PICK e \in Int : e = (q * d + r) \div q
  OBVIOUS
<1>3. q * d + r = q * e + s
  BY <1>2
<1>4. q * (d - e) = s - r
  BY <1>3, <1>1
<1> HIDE DEF s
<1>5. s - r < q /\ r - s < q /\ s \in Int
  BY <1>1
<1>6. d - e < 1
  BY <1>4, <1>5, SMTT(30)
<1>7. d - e > -1
  BY <1>4, <1>5, SMTT(30)
<1>8. d - e = 0
  BY <1>6, <1>7
<1>9. s = r
  BY <1>8, <1>4, <1>5
<1> QED
  BY <1>9 DEF s

(* A number at most one turn outside a ring of q.                          *)
LEMMA Wrapped ==
  ASSUME NEW q \in Nat \ {0}, NEW x \in Int, -q <= x, x < 2 * q
  PROVE  x % q = IF x < 0 THEN x + q ELSE IF x < q THEN x ELSE x - q
<1>1. CASE x < 0
  <2>1. (q * (-1) + (x + q)) % q = x + q
    BY <1>1, ModUnique
  <2> QED
    BY <1>1, <2>1
<1>2. CASE x >= 0 /\ x < q
  <2>1. (q * 0 + x) % q = x
    BY <1>2, ModUnique
  <2> QED
    BY <1>2, <2>1
<1>3. CASE x >= q
  <2>1. (q * 1 + (x - q)) % q = x - q
    BY <1>3, ModUnique
  <2> QED
    BY <1>3, <2>1
<1>4. x < 0 \/ (x >= 0 /\ x < q) \/ x >= q
  OBVIOUS
<1> QED
  BY <1>1, <1>2, <1>3, <1>4, Zenon

(* The positions of a ring of q: n = (t - h) % q places are used, from h   *)
(* on, and t is the next one to be used.                                   *)
RingTrue(q, h, t, n) ==
  /\ n \in 0 .. q - 1
  /\ n = 0 <=> h = t
  /\ (t + 1) % q \in 0 .. q - 1 /\ (h + 1) % q \in 0 .. q - 1
  /\ (t + 1) % q # h <=> n < q - 1
  /\ n < q - 1 => (((t + 1) % q) - h) % q = n + 1
  /\ n > 0 => (t - ((h + 1) % q)) % q = n - 1
  /\ (h + n) % q = t
  /\ \A i \in 0 .. n - 1 : (h + i) % q \in 0 .. q - 1 /\ (h + i) % q # t
  /\ \A i \in 0 .. q - 2 : (((h + 1) % q) + i) % q = (h + (i + 1)) % q

LEMMA Ring ==
  ASSUME NEW q \in Nat \ {0, 1}, NEW h \in 0 .. q - 1, NEW t \in 0 .. q - 1
  PROVE  RingTrue(q, h, t, (t - h) % q)
<1>n. PICK n : n = ((t - h) % q)
  OBVIOUS
<1> DEFINE W(x) == IF x < 0 THEN x + q ELSE IF x < q THEN x ELSE x - q
<1>0. \A x \in Int : -q <= x /\ x < 2 * q => x % q = W(x)
  BY Wrapped
<1>1. n = W(t - h)
  <2>1. t - h \in Int /\ -q <= t - h /\ t - h < 2 * q
    OBVIOUS
  <2> QED
    BY <1>n, <1>0, <2>1, Zenon
<1>2. PICK u \in 0 .. q - 1 : u = ((t + 1) % q) /\ u = W(t + 1)
  <2>1. t + 1 \in Int /\ -q <= t + 1 /\ t + 1 < 2 * q
    OBVIOUS
  <2>2. (t + 1) % q = W(t + 1)
    BY <1>0, <2>1, Zenon
  <2> QED
    BY <2>2
<1>3. PICK g \in 0 .. q - 1 : g = ((h + 1) % q) /\ g = W(h + 1)
  <2>1. h + 1 \in Int /\ -q <= h + 1 /\ h + 1 < 2 * q
    OBVIOUS
  <2>2. (h + 1) % q = W(h + 1)
    BY <1>0, <2>1, Zenon
  <2> QED
    BY <2>2
<1>4. (u - h) % q = W(u - h)
  <2>1. u - h \in Int /\ -q <= u - h /\ u - h < 2 * q
    OBVIOUS
  <2> QED
    BY <1>0, <2>1, Zenon
<1>5. (t - g) % q = W(t - g)
  <2>1. t - g \in Int /\ -q <= t - g /\ t - g < 2 * q
    OBVIOUS
  <2> QED
    BY <1>0, <2>1, Zenon
<1>6. ASSUME NEW i \in 0 .. q - 1 PROVE (h + i) % q = W(h + i) /\ (g + i) % q = W(g + i)
  <2>1. /\ h + i \in Int /\ -q <= h + i /\ h + i < 2 * q
        /\ g + i \in Int /\ -q <= g + i /\ g + i < 2 * q
    OBVIOUS
  <2> QED
    BY <1>0, <2>1, Zenon
<1>7. n \in 0 .. q - 1 /\ (n = 0 <=> h = t) /\ (u # h <=> n < q - 1)
  BY <1>1, <1>2
<1>8. n < q - 1 => W(u - h) = n + 1
  BY <1>1, <1>2
<1>9. n > 0 => W(t - g) = n - 1
  BY <1>1, <1>3
<1>10. (h + n) % q = t
  BY <1>1, <1>6, <1>7
<1>11. ASSUME NEW i \in 0 .. n - 1 PROVE (h + i) % q \in 0 .. q - 1 /\ (h + i) % q # t
  BY <1>1, <1>6, <1>7
<1>12. ASSUME NEW i \in 0 .. q - 2 PROVE (g + i) % q = (h + (i + 1)) % q
  <2>1. i \in 0 .. q - 1 /\ i + 1 \in 0 .. q - 1
    OBVIOUS
  <2>2. (g + i) % q = W(g + i) /\ (h + (i + 1)) % q = W(h + (i + 1))
    BY <1>6, <2>1
  <2> QED
    BY <2>2, <1>3
<1> HIDE DEF W
<1> QED
  BY <1>n, <1>2, <1>3, <1>4, <1>5, <1>7, <1>8, <1>9, <1>10, <1>11, <1>12 DEF RingTrue

-----------------------------------------------------------------------------
(* The keyboard.  A copied event is the oldest one of a ring that is not   *)
(* empty: without that, KbdAdvance would move kbd_head past kbd_tail.      *)

KbdInv == KbdTypeOK /\ KeysArrive /\ (taken # NoKey => kbd_head # kbd_tail)

(* what lies in a ring buf between h and t: Waiting, as an operator        *)
Between(buf, h, t) ==
  [i \in 1 .. (t - h) % KBD_BUFFER_SIZE |-> buf[(h + i - 1) % KBD_BUFFER_SIZE]]

IsBetween(K, buf, h, w, n) ==
  /\ w \in Seq(K) /\ Len(w) = n /\ n \in Nat
  /\ \A i \in 1 .. n : w[i] = buf[(h + (i - 1)) % KBD_BUFFER_SIZE]

LEMMA BetweenTrue ==
  ASSUME NEW K, NEW buf \in [KbdSlots -> K], NEW h \in KbdSlots, NEW t \in KbdSlots
  PROVE  IsBetween(K, buf, h, Between(buf, h, t), (t - h) % KBD_BUFFER_SIZE)
<1>n. PICK n, w : n = ((t - h) % KBD_BUFFER_SIZE) /\ w = Between(buf, h, t)
  OBVIOUS
<1>0. PICK q : q = KBD_BUFFER_SIZE
  OBVIOUS
<1>1. q \in Nat \ {0, 1} /\ h \in 0 .. q - 1 /\ t \in 0 .. q - 1
  BY <1>0, KeyboardAssumption DEF KbdSlots
<1>r. RingTrue(q, h, t, n)
  BY <1>n, <1>0, <1>1, Ring, Zenon
<1>2. /\ n \in 0 .. q - 1
      /\ \A i \in 0 .. n - 1 : (h + i) % q \in 0 .. q - 1
  BY <1>r DEF RingTrue
<1>3. ASSUME NEW i \in 1 .. n
      PROVE  h + i - 1 = h + (i - 1) /\ (h + (i - 1)) % q \in 0 .. q - 1
  <2>1. i - 1 \in 0 .. n - 1
    BY <1>1, <1>2
  <2> QED
    BY <1>1, <1>2, <2>1
<1>4. w = [i \in 1 .. n |-> buf[(h + i - 1) % q]]
  BY <1>n, <1>0 DEF Between
<1>5. ASSUME NEW i \in 1 .. n PROVE w[i] = buf[(h + (i - 1)) % q] /\ w[i] \in K
  <2>1. h + i - 1 = h + (i - 1) /\ (h + (i - 1)) % q \in KbdSlots
    BY <1>0, <1>3 DEF KbdSlots
  <2>2. w[i] = buf[(h + i - 1) % q]
    BY <1>4
  <2> QED
    BY <2>1, <2>2
<1>6. w \in Seq(K) /\ Len(w) = n /\ n \in Nat
  <2>1. n \in Nat
    BY <1>1, <1>2
  <2>2. w \in [1 .. n -> K]
    BY <1>4, <1>5
  <2> QED
    BY <2>1, <2>2
<1> QED
  BY <1>n, <1>0, <1>5, <1>6, Zenon DEF IsBetween

(* A key that finds room comes last.                                       *)
LEMMA BetweenPush ==
  ASSUME NEW K, NEW buf \in [KbdSlots -> K], NEW h \in KbdSlots, NEW t \in KbdSlots,
         (t + 1) % KBD_BUFFER_SIZE # h, NEW e \in K
  PROVE  /\ Between([buf EXCEPT ![t] = e], h, (t + 1) % KBD_BUFFER_SIZE) = Append(Between(buf, h, t), e)
         /\ [buf EXCEPT ![t] = e] \in [KbdSlots -> K]
         /\ (t + 1) % KBD_BUFFER_SIZE \in KbdSlots
<1>0. PICK q : q = KBD_BUFFER_SIZE
  OBVIOUS
<1>1. q \in Nat \ {0, 1} /\ h \in 0 .. q - 1 /\ t \in 0 .. q - 1
  BY <1>0, KeyboardAssumption DEF KbdSlots
<1>2. PICK n : n = ((t - h) % q)
  OBVIOUS
<1>r. RingTrue(q, h, t, n)
  BY <1>1, <1>2, Ring, Zenon
<1>3. /\ n \in 0 .. q - 1 /\ (t + 1) % q \in 0 .. q - 1
      /\ (((t + 1) % q) - h) % q = n + 1
      /\ (h + n) % q = t
      /\ \A i \in 0 .. n - 1 : (h + i) % q \in 0 .. q - 1 /\ (h + i) % q # t
  <2>1. (t + 1) % q # h
    BY <1>0
  <2> QED
    BY <1>r, <2>1 DEF RingTrue
<1>4. PICK b : b = [buf EXCEPT ![t] = e]
  OBVIOUS
<1>5. PICK u : u = ((t + 1) % q)
  OBVIOUS
<1>6. b \in [KbdSlots -> K] /\ u \in KbdSlots
  BY <1>3, <1>0, <1>4, <1>5 DEF KbdSlots
<1>7. PICK w : w = Between(buf, h, t)
  OBVIOUS
<1>8. /\ w \in Seq(K) /\ Len(w) = n
      /\ \A i \in 1 .. n : w[i] = buf[(h + (i - 1)) % q]
  <2>1. IsBetween(K, buf, h, w, n)
    BY <1>0, <1>2, <1>7, BetweenTrue, Zenon
  <2> QED
    BY <1>0, <2>1 DEF IsBetween
<1>9. PICK v : v = Between(b, h, u)
  OBVIOUS
<1>10. n + 1 = ((u - h) % q)
  BY <1>3, <1>5
<1>11. /\ v \in Seq(K) /\ Len(v) = n + 1
       /\ \A i \in 1 .. n + 1 : v[i] = b[(h + (i - 1)) % q]
  <2>1. IsBetween(K, b, h, v, n + 1)
    BY <1>0, <1>6, <1>9, <1>10, BetweenTrue, Zenon
  <2> QED
    BY <1>0, <2>1 DEF IsBetween
<1>12. ASSUME NEW i \in 1 .. n PROVE v[i] = w[i]
  <2>1. i - 1 \in 0 .. n - 1 /\ i \in 1 .. n + 1
    BY <1>3
  <2>2. PICK j \in 0 .. q - 1 : j = ((h + (i - 1)) % q) /\ j # t
    BY <1>3, <2>1
  <2>3. b[j] = buf[j]
    BY <1>0, <1>4, <2>2 DEF KbdSlots
  <2> QED
    BY <1>8, <1>11, <2>1, <2>2, <2>3
<1>13. v[n + 1] = e
  <2>1. (h + ((n + 1) - 1)) % q = t
    BY <1>3
  <2>2. v[n + 1] = b[t]
    BY <1>3, <1>11, <2>1
  <2> QED
    BY <1>4, <2>2
<1>14. v = Append(w, e)
  <2>1. /\ Append(w, e) \in Seq(K) /\ Len(Append(w, e)) = n + 1
        /\ \A i \in 1 .. n : Append(w, e)[i] = w[i]
        /\ Append(w, e)[n + 1] = e
    BY <1>8, AppendProperties
  <2>2. \A i \in 1 .. n + 1 : v[i] = Append(w, e)[i]
    BY <1>3, <1>12, <1>13, <2>1
  <2> QED
    BY <1>11, <2>1, <2>2, SeqEqual
<1> QED
  BY <1>0, <1>4, <1>5, <1>6, <1>7, <1>9, <1>14

(* The oldest key is the one at the head, and the others stay.             *)
LEMMA BetweenPop ==
  ASSUME NEW K, NEW buf \in [KbdSlots -> K], NEW h \in KbdSlots, NEW t \in KbdSlots, h # t
  PROVE  /\ Between(buf, h, t) # <<>> /\ Head(Between(buf, h, t)) = buf[h]
         /\ Between(buf, (h + 1) % KBD_BUFFER_SIZE, t) = Tail(Between(buf, h, t))
         /\ (h + 1) % KBD_BUFFER_SIZE \in KbdSlots
<1>0. PICK q : q = KBD_BUFFER_SIZE
  OBVIOUS
<1>1. q \in Nat \ {0, 1} /\ h \in 0 .. q - 1 /\ t \in 0 .. q - 1
  BY <1>0, KeyboardAssumption DEF KbdSlots
<1>2. PICK n : n = ((t - h) % q)
  OBVIOUS
<1>r. RingTrue(q, h, t, n)
  BY <1>1, <1>2, Ring, Zenon
<1>3. /\ n \in 0 .. q - 1 /\ n > 0 /\ (h + 1) % q \in 0 .. q - 1
      /\ (t - ((h + 1) % q)) % q = n - 1
      /\ \A i \in 0 .. n - 1 : (h + i) % q \in 0 .. q - 1
      /\ \A i \in 0 .. q - 2 : (((h + 1) % q) + i) % q = (h + (i + 1)) % q
  BY <1>r DEF RingTrue
<1>4. PICK g \in KbdSlots : g = ((h + 1) % q)
  BY <1>0, <1>3 DEF KbdSlots
<1>5. PICK w : w = Between(buf, h, t)
  OBVIOUS
<1>6. /\ w \in Seq(K) /\ Len(w) = n
      /\ \A i \in 1 .. n : w[i] = buf[(h + (i - 1)) % q]
  <2>1. IsBetween(K, buf, h, w, n)
    BY <1>0, <1>2, <1>5, BetweenTrue, Zenon
  <2> QED
    BY <1>0, <2>1 DEF IsBetween
<1>7. PICK v : v = Between(buf, g, t)
  OBVIOUS
<1>8. n - 1 = ((t - g) % q)
  BY <1>3, <1>4
<1>9. /\ v \in Seq(K) /\ Len(v) = n - 1
      /\ \A i \in 1 .. n - 1 : v[i] = buf[(g + (i - 1)) % q]
  <2>1. IsBetween(K, buf, g, v, n - 1)
    BY <1>0, <1>7, <1>8, BetweenTrue, Zenon
  <2> QED
    BY <1>0, <2>1 DEF IsBetween
<1>10. w # <<>> /\ Head(w) = buf[h]
  <2>1. (h + (1 - 1)) % q = h
    <3>1. (q * 0 + h) % q = h
      BY <1>1, ModUnique
    <3> QED
      BY <1>1, <3>1
  <2>2. w[1] = buf[h]
    BY <1>3, <1>6, <2>1
  <2> QED
    BY <1>3, <1>6, <2>2
<1>11. v = Tail(w)
  <2>1. /\ Tail(w) \in Seq(K) /\ Len(Tail(w)) = n - 1
        /\ \A i \in 1 .. n - 1 : Tail(w)[i] = w[i + 1]
    BY <1>6, <1>10, HeadTailProperties
  <2>2. ASSUME NEW i \in 1 .. n - 1 PROVE v[i] = Tail(w)[i]
    <3>1. i - 1 \in 0 .. q - 2 /\ i + 1 \in 1 .. n /\ (i - 1) + 1 = i /\ (i + 1) - 1 = i
      BY <1>1, <1>3
    <3>2. (g + (i - 1)) % q = (h + ((i - 1) + 1)) % q
      BY <1>3, <1>4, <3>1
    <3>3. v[i] = buf[(h + i) % q] /\ w[i + 1] = buf[(h + i) % q]
      BY <1>6, <1>9, <3>1, <3>2
    <3> QED
      BY <2>1, <3>3
  <2> QED
    BY <1>9, <2>1, <2>2, SeqEqual
<1> QED
  BY <1>0, <1>4, <1>5, <1>7, <1>10, <1>11

(* Appending to both, and moving the first of the second to the first.     *)
LEMMA AppendBoth ==
  ASSUME NEW K, NEW r \in Seq(K), NEW w \in Seq(K), NEW e \in K
  PROVE  r \o Append(w, e) = Append(r \o w, e)
<1>1. r \o w \in Seq(K) /\ <<e>> \in Seq(K)
  BY ConcatProperties
<1>2. Append(w, e) = w \o <<e>> /\ Append(r \o w, e) = (r \o w) \o <<e>>
  BY <1>1, AppendIsConcat
<1>3. (r \o w) \o <<e>> = r \o (w \o <<e>>)
  BY <1>1, ConcatAssociative
<1> QED
  BY <1>2, <1>3

LEMMA MoveHead ==
  ASSUME NEW K, NEW r \in Seq(K), NEW w \in Seq(K), w # <<>>
  PROVE  /\ Append(r, Head(w)) \o Tail(w) = r \o w
         /\ Head(w) \in K /\ Tail(w) \in Seq(K)
<1>1. Head(w) \in K /\ Tail(w) \in Seq(K) /\ <<Head(w)>> \in Seq(K)
  BY HeadTailProperties
<1>2. Append(r, Head(w)) = r \o <<Head(w)>>
  BY <1>1, AppendIsConcat
<1>3. (r \o <<Head(w)>>) \o Tail(w) = r \o (<<Head(w)>> \o Tail(w))
  BY <1>1, ConcatAssociative
<1>4. <<Head(w)>> \o Tail(w) = w
  <2>1. PICK v \in Seq(K) : v = <<Head(w)>> \o Tail(w)
    BY <1>1, ConcatProperties
  <2>2. Len(v) = Len(w) /\ \A i \in 1 .. Len(v) : v[i] = w[i]
    BY <1>1, <2>1
  <2> QED
    BY <2>1, <2>2, SeqEqual
<1> QED
  BY <1>1, <1>2, <1>3, <1>4

KbdCells == KeyEvents \cup {NoKey}

(* What the ring of the state is: reads and the cells in use make downs.   *)
LEMMA KbdPick ==
  ASSUME KbdInv
  PROVE  \E w \in Seq(KbdCells) :
           /\ w = Between(kbd_buf, kbd_head, kbd_tail) /\ w = Waiting
           /\ Len(w) = (kbd_tail - kbd_head) % KBD_BUFFER_SIZE
           /\ Len(downs) = Len(reads) + Len(w)
           /\ reads \o w = downs /\ w \in Seq(KeyEvents)
           /\ (kbd_tail + 1) % KBD_BUFFER_SIZE # kbd_head <=> Len(w) < KBD_BUFFER_SIZE - 1
<1>1. /\ kbd_buf \in [KbdSlots -> KbdCells] /\ kbd_head \in KbdSlots /\ kbd_tail \in KbdSlots
      /\ downs \in Seq(KeyEvents) /\ reads \in Seq(KeyEvents)
      /\ reads \o Waiting = downs
  BY DEF KbdInv, KbdTypeOK, KeysArrive, KbdCells
<1>2. PICK w : w = Between(kbd_buf, kbd_head, kbd_tail) /\ w = Waiting
  BY DEF Between, Waiting
<1>3. PICK n : n = ((kbd_tail - kbd_head) % KBD_BUFFER_SIZE)
  OBVIOUS
<1>4. IsBetween(KbdCells, kbd_buf, kbd_head, w, n)
  BY <1>1, <1>2, <1>3, BetweenTrue, Zenon
<1>5. w \in Seq(KbdCells) /\ Len(w) = n /\ n \in Nat
  BY <1>4 DEF IsBetween
<1>6. reads \in Seq(KbdCells) /\ downs = reads \o w
  <2>1. KeyEvents \subseteq KbdCells
    BY DEF KbdCells
  <2> QED
    BY <1>1, <1>2, <2>1, SeqMonotonic
<1>7. Len(downs) = Len(reads) + n
  BY <1>5, <1>6, ConcatProperties
<1>8. \A i \in 1 .. n : w[i] = downs[Len(reads) + i]
  BY <1>5, <1>6, ConcatProperties
<1>9. w \in Seq(KeyEvents)
  <2>1. \A i \in 1 .. n : w[i] \in KeyEvents
    BY <1>1, <1>5, <1>7, <1>8
  <2> QED
    BY <1>5, <2>1
<1>10. PICK q : q = KBD_BUFFER_SIZE
  OBVIOUS
<1>11. q \in Nat \ {0, 1} /\ kbd_head \in 0 .. q - 1 /\ kbd_tail \in 0 .. q - 1
  BY <1>1, <1>10, KeyboardAssumption DEF KbdSlots
<1>12. RingTrue(q, kbd_head, kbd_tail, n)
  BY <1>3, <1>10, <1>11, Ring, Zenon
<1>13. (kbd_tail + 1) % q # kbd_head <=> n < q - 1
  BY <1>12 DEF RingTrue
<1> QED
  BY <1>2, <1>3, <1>5, <1>6, <1>7, <1>9, <1>10, <1>13

LEMMA KbdStarts == KbdInit => KbdInv
<1> SUFFICES ASSUME KbdInit PROVE KbdInv
  OBVIOUS
<1>1. KBD_BUFFER_SIZE \in Nat \ {0, 1} /\ 0 \in KbdSlots
  BY KeyboardAssumption DEF KbdSlots
<1>2. KbdTypeOK
  BY <1>1 DEF KbdInit, KbdTypeOK
<1>3. PICK n : n = ((0 - 0) % KBD_BUFFER_SIZE)
  OBVIOUS
<1>4. RingTrue(KBD_BUFFER_SIZE, 0, 0, n)
  <2>1. PICK q : q = KBD_BUFFER_SIZE
    OBVIOUS
  <2>2. q \in Nat \ {0, 1} /\ 0 \in 0 .. q - 1
    BY <1>1, <2>1
  <2> QED
    BY <1>3, <2>1, <2>2, Ring, Zenon
<1>5. n = 0
  BY <1>4 DEF RingTrue
<1>6. IsBetween(KbdCells, kbd_buf, 0, Between(kbd_buf, 0, 0), n)
  <2>1. kbd_buf \in [KbdSlots -> KbdCells]
    BY DEF KbdInit, KbdCells
  <2> QED
    BY <1>1, <1>3, <2>1, BetweenTrue, Zenon
<1>7. Between(kbd_buf, 0, 0) = <<>>
  BY <1>5, <1>6 DEF IsBetween
<1>8. Waiting = <<>>
  BY <1>7 DEF Waiting, Between, KbdInit
<1>9. KeysArrive
  BY <1>8 DEF KbdInit, KeysArrive
<1> QED
  BY <1>2, <1>9 DEF KbdInv, KbdInit

LEMMA KbdStep == KbdInv /\ KbdNext => KbdInv'
<1> SUFFICES ASSUME KbdInv, KbdNext PROVE KbdInv'
  OBVIOUS
<1>1. PICK w \in Seq(KbdCells) :
        /\ w = Between(kbd_buf, kbd_head, kbd_tail) /\ w = Waiting
        /\ Len(w) = (kbd_tail - kbd_head) % KBD_BUFFER_SIZE
        /\ Len(downs) = Len(reads) + Len(w)
        /\ reads \o w = downs /\ w \in Seq(KeyEvents)
        /\ (kbd_tail + 1) % KBD_BUFFER_SIZE # kbd_head <=> Len(w) < KBD_BUFFER_SIZE - 1
  BY KbdPick
<1>2. /\ kbd_buf \in [KbdSlots -> KbdCells] /\ kbd_head \in KbdSlots /\ kbd_tail \in KbdSlots
      /\ downs \in Seq(KeyEvents) /\ reads \in Seq(KeyEvents) /\ taken \in KbdCells
      /\ modifiers \subseteq Modifiers /\ held \subseteq HeldKeys
      /\ taken # NoKey => taken = Head(w) /\ kbd_head # kbd_tail
      /\ modifiers \subseteq {ModOf[m] : m \in held} \cup {"CAPS"}
  BY <1>1 DEF KbdInv, KbdTypeOK, KeysArrive, KbdCells
<1>3. Waiting' = Between(kbd_buf', kbd_head', kbd_tail')
  BY DEF Waiting, Between
<1>p. ASSUME kbd_head # kbd_tail
      PROVE  /\ w # <<>> /\ Head(w) = kbd_buf[kbd_head]
             /\ Between(kbd_buf, (kbd_head + 1) % KBD_BUFFER_SIZE, kbd_tail) = Tail(w)
             /\ (kbd_head + 1) % KBD_BUFFER_SIZE \in KbdSlots
  <2>1. /\ Between(kbd_buf, kbd_head, kbd_tail) # <<>>
        /\ Head(Between(kbd_buf, kbd_head, kbd_tail)) = kbd_buf[kbd_head]
        /\ Between(kbd_buf, (kbd_head + 1) % KBD_BUFFER_SIZE, kbd_tail) = Tail(Between(kbd_buf, kbd_head, kbd_tail))
        /\ (kbd_head + 1) % KBD_BUFFER_SIZE \in KbdSlots
    BY <1>2, <1>p, BetweenPop, Zenon
  <2> QED
    BY <1>1, <2>1, Zenon
<1>4. \A k \in CharKeys : KeyEvent(k) \in KeyEvents
  BY <1>2 DEF KeyEvent, KeyEvents
<1>5. ASSUME NEW k \in CharKeys, KeyDown(k) PROVE KbdInv'
  <2>1. PICK e \in KeyEvents : e = KeyEvent(k)
    BY <1>4
  <2>2. UNCHANGED <<modifiers, kbd_head, taken, held, reads>>
    BY <1>5 DEF KeyDown
  <2>3. CASE (kbd_tail + 1) % KBD_BUFFER_SIZE # kbd_head
    <3>1. /\ kbd_buf' = [kbd_buf EXCEPT ![kbd_tail] = e]
          /\ kbd_tail' = (kbd_tail + 1) % KBD_BUFFER_SIZE
          /\ downs' = Append(downs, e)
      <4>1. Len(w) \in Nat /\ Len(reads) \in Nat /\ Len(downs) - Len(reads) = Len(w)
        BY <1>1, <1>2
      <4> QED
        BY <1>1, <1>5, <2>1, <2>3, <4>1 DEF KeyDown, Push
    <3>2. e \in KbdCells
      BY DEF KbdCells
    <3>3. /\ Between(kbd_buf', kbd_head, kbd_tail') = Append(w, e)
          /\ kbd_buf' \in [KbdSlots -> KbdCells] /\ kbd_tail' \in KbdSlots
      <4>1. /\ Between([kbd_buf EXCEPT ![kbd_tail] = e], kbd_head, (kbd_tail + 1) % KBD_BUFFER_SIZE)
                 = Append(Between(kbd_buf, kbd_head, kbd_tail), e)
            /\ [kbd_buf EXCEPT ![kbd_tail] = e] \in [KbdSlots -> KbdCells]
            /\ (kbd_tail + 1) % KBD_BUFFER_SIZE \in KbdSlots
        BY <1>2, <2>3, <3>2, BetweenPush, Zenon
      <4> QED
        BY <1>1, <3>1, <4>1, Zenon
    <3>4. reads \o Append(w, e) = downs' /\ downs' \in Seq(KeyEvents)
      BY <1>1, <1>2, <3>1, AppendBoth, AppendProperties, SMTT(30)
    <3>5. taken # NoKey => taken = Head(Append(w, e)) /\ kbd_head' # kbd_tail'
      <4>1. ASSUME taken # NoKey PROVE w # <<>>
        BY <1>2, <1>p, <4>1
      <4> QED
        BY <1>1, <1>2, <2>2, <2>3, <3>1, <4>1, HeadTailAppend
    <3> QED
      BY <1>2, <1>3, <2>2, <3>3, <3>4, <3>5 DEF KbdInv, KbdTypeOK, KeysArrive, KbdCells
  <2>4. CASE (kbd_tail + 1) % KBD_BUFFER_SIZE = kbd_head
    <3>1. UNCHANGED <<kbd_buf, kbd_tail>> /\ downs' = downs
      <4>1. Len(w) \in Nat /\ Len(reads) \in Nat /\ Len(downs) - Len(reads) = Len(w)
        BY <1>1, <1>2
      <4> QED
        BY <1>1, <1>5, <2>4, <4>1 DEF KeyDown, Push
    <3> QED
      BY <1>1, <1>2, <1>3, <2>2, <3>1 DEF KbdInv, KbdTypeOK, KeysArrive, KbdCells
  <2> QED
    BY <2>3, <2>4
<1>6. ASSUME UNCHANGED <<kbd_buf, kbd_head, kbd_tail, taken, downs, reads>>,
             held' \subseteq HeldKeys, modifiers' \subseteq Modifiers,
             modifiers' \subseteq {ModOf[m] : m \in held'} \cup {"CAPS"}
      PROVE  KbdInv'
  BY <1>1, <1>2, <1>3, <1>6 DEF KbdInv, KbdTypeOK, KeysArrive, KbdCells
<1>7. ASSUME NEW m \in HeldKeys, ModifierDown(m) PROVE KbdInv'
  BY <1>2, <1>6, <1>7 DEF ModifierDown, Modifiers
<1>8. ASSUME NEW m \in HeldKeys, ModifierUp(m) PROVE KbdInv'
  <2>1. modifiers' \subseteq {ModOf[x] : x \in held'} \cup {"CAPS"}
    BY <1>2, <1>8 DEF ModifierUp
  <2> QED
    BY <1>2, <1>6, <1>8, <2>1 DEF ModifierUp, Modifiers
<1>9. CASE CapsDown
  BY <1>2, <1>6, <1>9 DEF CapsDown, Modifiers
<1>10. CASE KbdCopy
  <2>1. /\ kbd_head # kbd_tail /\ taken' = kbd_buf[kbd_head]
        /\ UNCHANGED <<modifiers, kbd_buf, kbd_head, kbd_tail, held, downs, reads>>
    BY <1>10 DEF KbdCopy
  <2>2. w # <<>> /\ Head(w) = kbd_buf[kbd_head]
    BY <1>p, <2>1
  <2>3. taken' \in KbdCells
    BY <1>2, <2>1
  <2> QED
    BY <1>1, <1>2, <1>3, <2>1, <2>2, <2>3 DEF KbdInv, KbdTypeOK, KeysArrive, KbdCells
<1>11. CASE KbdAdvance
  <2>1. /\ taken # NoKey /\ kbd_head' = (kbd_head + 1) % KBD_BUFFER_SIZE
        /\ reads' = Append(reads, taken) /\ taken' = NoKey
        /\ UNCHANGED <<modifiers, kbd_buf, kbd_tail, held, downs>>
    BY <1>11 DEF KbdAdvance
  <2>2. w # <<>> /\ taken = Head(w) /\ Waiting' = Tail(w) /\ kbd_head' \in KbdSlots
    BY <1>2, <1>p, <1>3, <2>1, Zenon
  <2>3. reads' \o Tail(w) = downs /\ taken \in KeyEvents
    BY <1>1, <1>2, <2>1, <2>2, MoveHead
  <2>4. reads' \in Seq(KeyEvents)
    BY <1>2, <2>1, <2>3, AppendProperties
  <2> QED
    BY <1>2, <2>1, <2>2, <2>3, <2>4 DEF KbdInv, KbdTypeOK, KeysArrive, KbdCells
<1> QED
  BY <1>5, <1>7, <1>8, <1>9, <1>10, <1>11 DEF KbdNext

-----------------------------------------------------------------------------
(* The mouse.  Edges are taken against prev_buttons, which are the buttons *)
(* the desktop reads; and as long as no byte was thrown away, what pkt and *)
(* the wire hold together is the last packet, or nothing.                  *)

Status(p) ==
  8 + (IF 1 \in p.buttons THEN 1 ELSE 0) + (IF 2 \in p.buttons THEN 2 ELSE 0)
    + (IF p.dx < 0 THEN 16 ELSE 0) + (IF p.over THEN 64 ELSE 0)
OfReport == <<Status(report), report.dx % 256, 0>>

InStep ==
  \/ wire = <<>> /\ pkt = <<>>
  \/ wire # <<>> /\ pkt \o wire = OfReport

MouseInv ==
  /\ MouseTypeOK /\ ClicksSeen
  /\ prev_buttons = mouse_buttons
  /\ ~eaten => InStep

(* the clicks in a queue between t and h: QueuedClicks, as an operator     *)
Queued(buf, t, h) ==
  UNION {buf[(t + i) % MOUSE_QUEUE_SIZE] : i \in 0 .. ((h - t) % MOUSE_QUEUE_SIZE) - 1}

LEMMA QueuedPush ==
  ASSUME NEW buf \in [MouseSlots -> SUBSET {1, 2}], NEW t \in MouseSlots, NEW h \in MouseSlots,
         (h + 1) % MOUSE_QUEUE_SIZE # t, NEW e \in SUBSET {1, 2}
  PROVE  /\ Queued([buf EXCEPT ![h] = e], t, (h + 1) % MOUSE_QUEUE_SIZE) = Queued(buf, t, h) \cup e
         /\ (h + 1) % MOUSE_QUEUE_SIZE \in MouseSlots
<1>0. PICK q : q = MOUSE_QUEUE_SIZE
  OBVIOUS
<1>1. q \in Nat \ {0, 1} /\ h \in 0 .. q - 1 /\ t \in 0 .. q - 1
  BY <1>0, MouseAssumption DEF MouseSlots
<1>2. PICK n : n = ((h - t) % q)
  OBVIOUS
<1>3. RingTrue(q, t, h, n)
  BY <1>1, <1>2, Ring, Zenon
<1>4. PICK g : g = ((h + 1) % q)
  OBVIOUS
<1>5. /\ n \in 0 .. q - 1 /\ g \in 0 .. q - 1 /\ (g - t) % q = n + 1
      /\ (t + n) % q = h
      /\ \A i \in 0 .. n - 1 : (t + i) % q \in 0 .. q - 1 /\ (t + i) % q # h
  <2>1. (h + 1) % q # t
    BY <1>0
  <2> QED
    BY <1>3, <1>4, <2>1 DEF RingTrue
<1>6. PICK b : b = [buf EXCEPT ![h] = e]
  OBVIOUS
<1>7. b[h] = e /\ \A j \in MouseSlots : j # h => b[j] = buf[j]
  BY <1>6
<1>8. \A i \in 0 .. n - 1 : b[(t + i) % q] = buf[(t + i) % q]
  BY <1>0, <1>5, <1>7 DEF MouseSlots
<1>9. /\ Queued(buf, t, h) = UNION {buf[(t + i) % q] : i \in 0 .. n - 1}
      /\ Queued(b, t, g) = UNION {b[(t + i) % q] : i \in 0 .. (n + 1) - 1}
  BY <1>0, <1>2, <1>5, Zenon DEF Queued
<1>10. \A i : i \in 0 .. (n + 1) - 1 <=> i \in 0 .. n - 1 \/ i = n
  BY <1>5
<1>11. Queued(b, t, g) = Queued(buf, t, h) \cup e
  <2>1. ASSUME NEW y \in Queued(b, t, g) PROVE y \in Queued(buf, t, h) \cup e
    <3>1. PICK i \in 0 .. (n + 1) - 1 : y \in b[(t + i) % q]
      BY <1>9
    <3>2. CASE i = n
      BY <1>5, <1>7, <3>1, <3>2
    <3>3. CASE i \in 0 .. n - 1
      BY <1>8, <1>9, <3>1, <3>3
    <3> QED
      BY <1>10, <3>2, <3>3
  <2>2. ASSUME NEW y \in Queued(buf, t, h) PROVE y \in Queued(b, t, g)
    <3>1. PICK i \in 0 .. n - 1 : y \in buf[(t + i) % q]
      BY <1>9
    <3>2. i \in 0 .. (n + 1) - 1 /\ y \in b[(t + i) % q]
      BY <1>8, <1>10, <3>1
    <3> QED
      BY <1>9, <3>2
  <2>3. ASSUME NEW y \in e PROVE y \in Queued(b, t, g)
    <3>1. n \in 0 .. (n + 1) - 1 /\ y \in b[(t + n) % q]
      BY <1>5, <1>7, <1>10
    <3> QED
      BY <1>9, <3>1
  <2> QED
    BY <2>1, <2>2, <2>3
<1> QED
  BY <1>0, <1>4, <1>5, <1>6, <1>11 DEF MouseSlots

LEMMA QueuedPop ==
  ASSUME NEW buf, NEW t \in MouseSlots, NEW h \in MouseSlots, h # t
  PROVE  /\ Queued(buf, t, h) = buf[t] \cup Queued(buf, (t + 1) % MOUSE_QUEUE_SIZE, h)
         /\ (t + 1) % MOUSE_QUEUE_SIZE \in MouseSlots
<1>0. PICK q : q = MOUSE_QUEUE_SIZE
  OBVIOUS
<1>1. q \in Nat \ {0, 1} /\ h \in 0 .. q - 1 /\ t \in 0 .. q - 1
  BY <1>0, MouseAssumption DEF MouseSlots
<1>2. PICK n : n = ((h - t) % q)
  OBVIOUS
<1>3. RingTrue(q, t, h, n)
  BY <1>1, <1>2, Ring, Zenon
<1>4. PICK g : g = ((t + 1) % q)
  OBVIOUS
<1>5. /\ n \in 0 .. q - 1 /\ n > 0 /\ g \in 0 .. q - 1 /\ (h - g) % q = n - 1
      /\ \A i \in 0 .. q - 2 : (g + i) % q = (t + (i + 1)) % q
  BY <1>3, <1>4 DEF RingTrue
<1>6. (t + 0) % q = t
  <2>1. (q * 0 + t) % q = t
    BY <1>1, ModUnique
  <2> QED
    BY <1>1, <2>1
<1>7. /\ Queued(buf, t, h) = UNION {buf[(t + i) % q] : i \in 0 .. n - 1}
      /\ Queued(buf, g, h) = UNION {buf[(g + i) % q] : i \in 0 .. (n - 1) - 1}
  BY <1>0, <1>2, <1>5, Zenon DEF Queued
<1>8. {buf[(t + i) % q] : i \in 0 .. n - 1} = {buf[t]} \cup {buf[(g + i) % q] : i \in 0 .. (n - 1) - 1}
  <2>1. ASSUME NEW i \in 0 .. (n - 1) - 1 PROVE i + 1 \in 0 .. n - 1 /\ (g + i) % q = (t + (i + 1)) % q
    BY <1>1, <1>5
  <2>2. ASSUME NEW i \in 0 .. n - 1, i # 0
        PROVE  i - 1 \in 0 .. (n - 1) - 1 /\ (g + (i - 1)) % q = (t + i) % q
    <3>1. i - 1 \in 0 .. (n - 1) - 1 /\ i - 1 \in 0 .. q - 2 /\ (i - 1) + 1 = i
      BY <1>1, <1>5, <2>2
    <3> QED
      BY <1>5, <3>1
  <2>3. 0 \in 0 .. n - 1
    BY <1>5
  <2>4. ASSUME NEW i \in 0 .. n - 1
        PROVE  buf[(t + i) % q] \in {buf[t]} \cup {buf[(g + j) % q] : j \in 0 .. (n - 1) - 1}
    <3>1. CASE i = 0
      BY <1>6, <3>1
    <3>2. CASE i # 0
      <4>1. PICK j \in 0 .. (n - 1) - 1 : (g + j) % q = (t + i) % q
        BY <2>2, <3>2
      <4> QED
        BY <4>1
    <3> QED
      BY <3>1, <3>2
  <2>5. ASSUME NEW j \in 0 .. (n - 1) - 1
        PROVE  buf[(g + j) % q] \in {buf[(t + i) % q] : i \in 0 .. n - 1}
    <3>1. PICK i \in 0 .. n - 1 : (g + j) % q = (t + i) % q
      BY <2>1
    <3> QED
      BY <3>1
  <2>6. buf[t] \in {buf[(t + i) % q] : i \in 0 .. n - 1}
    BY <1>6, <2>3, Zenon
  <2> QED
    BY <2>4, <2>5, <2>6, Zenon
<1>9. Queued(buf, t, h) = buf[t] \cup Queued(buf, g, h)
  BY <1>7, <1>8, Zenon
<1> QED
  BY <1>0, <1>4, <1>5, <1>9 DEF MouseSlots

LEMMA QueuedNone ==
  ASSUME NEW buf, NEW t \in MouseSlots
  PROVE  Queued(buf, t, t) = {}
<1>0. PICK q : q = MOUSE_QUEUE_SIZE
  OBVIOUS
<1>1. q \in Nat \ {0, 1} /\ t \in 0 .. q - 1
  BY <1>0, MouseAssumption DEF MouseSlots
<1>2. PICK n : n = ((t - t) % q)
  OBVIOUS
<1>3. RingTrue(q, t, t, n)
  BY <1>1, <1>2, Ring, Zenon
<1>4. n = 0
  BY <1>3 DEF RingTrue
<1>5. 0 .. n - 1 = {}
  BY <1>4
<1>6. Queued(buf, t, t) = UNION {buf[(t + i) % q] : i \in 0 .. n - 1}
  BY <1>0, <1>2, Zenon DEF Queued
<1> QED
  BY <1>5, <1>6, Zenon

(* The status byte tells the buttons and the overflow.                     *)
LEMMA StatusTrue ==
  ASSUME NEW p, p.buttons \in SUBSET {1, 2}, p.dx \in Int, p.over \in BOOLEAN
  PROVE  /\ Status(p) \in 0 .. 255 /\ Bit(Status(p), 8)
         /\ Status(p) < 64 <=> ~p.over
         /\ Pressed(Status(p)) = p.buttons
<1>1. PICK x \in {0, 1} : x = (IF 1 \in p.buttons THEN 1 ELSE 0)
  OBVIOUS
<1>2. PICK y \in {0, 1} : y = (IF 2 \in p.buttons THEN 1 ELSE 0)
  OBVIOUS
<1>3. PICK z \in {0, 1, 4, 5} : z = (IF p.dx < 0 THEN 1 ELSE 0) + (IF p.over THEN 4 ELSE 0)
  OBVIOUS
<1>4. Status(p) = 8 + x + 2 * y + 16 * z
  BY <1>1, <1>2, <1>3 DEF Status
<1>5. PICK s \in 0 .. 255 : s = 8 + x + 2 * y + 16 * z
  OBVIOUS
<1>6. s \div 1 = s /\ s \div 2 = 4 + y + 8 * z /\ s \div 8 = 1 + 2 * z
  BY <1>5
<1>7. s % 2 = x /\ (4 + y + 8 * z) % 2 = y /\ (1 + 2 * z) % 2 = 1
  BY <1>5
<1>8. Bit(s, 8) /\ (Bit(s, 1) <=> x = 1) /\ (Bit(s, 2) <=> y = 1)
  BY <1>6, <1>7 DEF Bit
<1>9. Pressed(s) = p.buttons
  BY <1>1, <1>2, <1>8 DEF Pressed
<1>10. s < 64 <=> ~p.over
  BY <1>3, <1>5
<1> QED
  BY <1>4, <1>5, <1>8, <1>9, <1>10

(* What the desktop reads of the buttons, and nothing of packets.          *)
ClicksTrue ==
  /\ evt_queue \in [MouseSlots -> SUBSET {1, 2}] /\ q_head \in MouseSlots /\ q_tail \in MouseSlots
  /\ mouse_buttons \in SUBSET {1, 2} /\ prev_buttons = mouse_buttons
  /\ clicks \in SUBSET {1, 2} /\ unseen \in SUBSET {1, 2} /\ full \in BOOLEAN
  /\ clicks \cup Queued(evt_queue, q_tail, q_head) \subseteq unseen
  /\ ~full => unseen \subseteq clicks \cup Queued(evt_queue, q_tail, q_head)

(* and the packets                                                         *)
BytesTrue ==
  /\ pkt \in Seq(0 .. 255) /\ Len(pkt) < 3 /\ wire \in Seq(0 .. 255)
  /\ mouse_x \in 0 .. (IF Hosted = {} THEN ScreenW - 1 ELSE ScreenW)
  /\ packets \in 0 .. MaxPackets /\ eaten \in BOOLEAN /\ report \in Packets \cup {NoPacket}
  /\ wire = <<>> /\ ~eaten /\ ~report.over => mouse_buttons = report.buttons
  /\ ~eaten => InStep

LEMMA MouseParts == MouseInv <=> ClicksTrue /\ BytesTrue
<1>1. QueuedClicks = Queued(evt_queue, q_tail, q_head)
  BY DEF Queued, QueuedClicks
<1>2. MouseInv => ClicksTrue /\ BytesTrue
  BY <1>1 DEF MouseInv, ClicksTrue, BytesTrue, MouseTypeOK, ClicksSeen
<1>3. ClicksTrue /\ BytesTrue => MouseInv
  BY <1>1 DEF MouseInv, ClicksTrue, BytesTrue, MouseTypeOK, ClicksSeen
<1> QED
  BY <1>2, <1>3

LEMMA MousePartsNext == (ClicksTrue /\ BytesTrue)' => MouseInv'
<1>1. QueuedClicks' = Queued(evt_queue', q_tail', q_head')
  BY DEF Queued, QueuedClicks
<1> QED
  BY <1>1 DEF MouseInv, ClicksTrue, BytesTrue, MouseTypeOK, ClicksSeen

LEMMA ButtonsTrue ==
  ASSUME ClicksTrue, NEW b \in SUBSET {1, 2}, Buttons(b), UNCHANGED <<q_tail, clicks>>
  PROVE  ClicksTrue' /\ mouse_buttons' = b
<1>1. /\ prev_buttons' = b /\ mouse_buttons' = b
      /\ unseen' = unseen \cup (b \ mouse_buttons) /\ unseen' \in SUBSET {1, 2}
  BY DEF Buttons, ClicksTrue
<1>2. CASE (q_head + 1) % MOUSE_QUEUE_SIZE # q_tail
  <2>1. PICK e \in SUBSET {1, 2} : e = b \ mouse_buttons
    OBVIOUS
  <2>2. /\ evt_queue' = [evt_queue EXCEPT ![q_head] = e]
        /\ q_head' = (q_head + 1) % MOUSE_QUEUE_SIZE /\ full' = full
    BY <1>2, <2>1 DEF Buttons, Enqueue, ClicksTrue
  <2>3. evt_queue \in [MouseSlots -> SUBSET {1, 2}] /\ q_head \in MouseSlots /\ q_tail \in MouseSlots
    BY DEF ClicksTrue
  <2>4. /\ Queued([evt_queue EXCEPT ![q_head] = e], q_tail, (q_head + 1) % MOUSE_QUEUE_SIZE)
             = Queued(evt_queue, q_tail, q_head) \cup e
        /\ (q_head + 1) % MOUSE_QUEUE_SIZE \in MouseSlots
    BY <1>2, <2>3, QueuedPush, Zenon
  <2>5. Queued(evt_queue', q_tail', q_head') = Queued(evt_queue, q_tail, q_head) \cup e
    BY <2>2, <2>4, Zenon
  <2>6. evt_queue' \in [MouseSlots -> SUBSET {1, 2}] /\ q_head' \in MouseSlots
    BY <2>2, <2>3, <2>4
  <2>7. PICK Q : Q = Queued(evt_queue, q_tail, q_head)
    OBVIOUS
  <2>8. /\ clicks \cup Q \subseteq unseen /\ (~full => unseen \subseteq clicks \cup Q)
        /\ clicks \in SUBSET {1, 2} /\ full \in BOOLEAN
    BY <2>7 DEF ClicksTrue
  <2>9. Queued(evt_queue', q_tail', q_head') = Q \cup e
    BY <2>5, <2>7
  <2> QED
    BY <1>1, <2>1, <2>2, <2>3, <2>6, <2>8, <2>9 DEF ClicksTrue
<1>3. CASE (q_head + 1) % MOUSE_QUEUE_SIZE = q_tail
  <2>1. UNCHANGED <<evt_queue, q_head>> /\ full' = TRUE
    BY <1>3 DEF Buttons, Enqueue
  <2>2. Queued(evt_queue', q_tail', q_head') = Queued(evt_queue, q_tail, q_head)
    BY <2>1
  <2> QED
    BY <1>1, <2>1, <2>2 DEF ClicksTrue
<1> QED
  BY <1>1, <1>2, <1>3

LEMMA ClicksStay ==
  ASSUME ClicksTrue,
         UNCHANGED <<evt_queue, q_head, q_tail, mouse_buttons, prev_buttons, clicks, unseen, full>>
  PROVE  ClicksTrue'
BY DEF ClicksTrue

LEMMA MouseStarts == MouseInit => MouseInv
<1> SUFFICES ASSUME MouseInit PROVE MouseInv
  OBVIOUS
<1>1. 0 \in MouseSlots /\ ScreenW \in Nat \ {0} /\ MaxPackets \in Nat
  BY MouseAssumption DEF MouseSlots
<1>2. Queued(evt_queue, 0, 0) = {}
  BY <1>1, QueuedNone
<1>3. evt_queue \in [MouseSlots -> SUBSET {1, 2}]
  BY DEF MouseInit
<1>4. ClicksTrue
  <2>1. /\ q_head = 0 /\ q_tail = 0 /\ mouse_buttons = {} /\ prev_buttons = {}
        /\ clicks = {} /\ unseen = {} /\ full = FALSE
    BY DEF MouseInit
  <2>2. Queued(evt_queue, q_tail, q_head) = {}
    BY <1>2, <2>1
  <2>3. PICK Q : Q = Queued(evt_queue, q_tail, q_head) /\ Q = {}
    BY <2>2
  <2>4. /\ clicks \cup Q \subseteq unseen /\ (~full => unseen \subseteq clicks \cup Q)
    BY <2>1, <2>3
  <2>5. /\ mouse_buttons \in SUBSET {1, 2} /\ clicks \in SUBSET {1, 2} /\ unseen \in SUBSET {1, 2}
        /\ full \in BOOLEAN /\ q_head \in MouseSlots /\ q_tail \in MouseSlots
        /\ prev_buttons = mouse_buttons
    BY <1>1, <2>1
  <2> QED
    BY <1>3, <2>3, <2>4, <2>5, Zenon DEF ClicksTrue
<1>5. BytesTrue
  BY <1>1 DEF MouseInit, BytesTrue, InStep, NoPacket
<1> QED
  BY <1>4, <1>5, MouseParts

LEMMA ReportTrue ==
  ASSUME NEW p \in Packets \cup {NoPacket}
  PROVE  /\ p.buttons \in SUBSET {1, 2} /\ p.dx \in Int /\ p.over \in BOOLEAN
         /\ <<Status(p), p.dx % 256, 0>> \in Seq(0 .. 255)
<1>2. p.buttons \in SUBSET {1, 2} /\ p.dx \in Int /\ p.over \in BOOLEAN
  <2>1. CASE p \in Packets
    <3>1. p \in PacketKinds
      BY <2>1, MouseAssumption
    <3> QED
      BY <3>1 DEF PacketKinds
  <2>2. CASE p = NoPacket
    BY <2>2 DEF NoPacket
  <2> QED
    BY <2>1, <2>2
<1>3. Status(p) \in 0 .. 255
  BY <1>2, StatusTrue
<1>4. PICK a, b : a = Status(p) /\ b = p.dx % 256
  OBVIOUS
<1>5. b \in 0 .. 255
  BY <1>2, <1>4
<1>6. <<a, b, 0>> \in Seq(0 .. 255)
  BY <1>3, <1>4, <1>5
<1> QED
  BY <1>2, <1>4, <1>6

LEMMA ClampedTrue ==
  ASSUME NEW x \in Int
  PROVE  Clamped(x) \in 0 .. (IF Hosted = {} THEN ScreenW - 1 ELSE ScreenW)
<1>1. ScreenW \in Nat \ {0}
  BY MouseAssumption
<1> QED
  BY <1>1 DEF Clamped

LEMMA PixelTrue ==
  ASSUME NEW x \in HostRange
  PROVE  PixelOf(x) \in 0 .. ScreenW
<1>1. PICK w \in Nat : w = ScreenW
  BY MouseAssumption
<1>2. x \in Nat /\ x <= 65535
  BY SMTT(30) DEF HostRange
<1>3. PICK y \in Nat : y = x * w
  BY <1>2
<1>4. (65535 - x) * w >= 0 /\ (65535 - x) * w = 65535 * w - x * w
  BY <1>1, <1>2
<1>5. y <= 65535 * w
  BY <1>1, <1>2, <1>3, <1>4
<1>6. PICK d \in Int : d = (y \div 65535)
  OBVIOUS
<1>7. 65535 * d <= y /\ y < 65535 * (d + 1)
  BY <1>6
<1>8. d \in 0 .. w
  BY <1>3, <1>5, <1>7
<1> QED
  BY <1>1, <1>3, <1>6, <1>8 DEF PixelOf

(* A byte of the wire goes to pkt, or is lost.                             *)
LEMMA WireTrue ==
  ASSUME BytesTrue, wire # <<>>
  PROVE  /\ Head(wire) \in 0 .. 255 /\ Tail(wire) \in Seq(0 .. 255)
         /\ Append(pkt, Head(wire)) \in Seq(0 .. 255)
         /\ Len(Append(pkt, Head(wire))) = Len(pkt) + 1 /\ Len(pkt) \in 0 .. 2
         /\ ~eaten => /\ Append(pkt, Head(wire)) \o Tail(wire) = OfReport
                      /\ Len(pkt) + 1 + Len(Tail(wire)) = 3
<1>1. PICK K : K = 0 .. 255
  OBVIOUS
<1>2. pkt \in Seq(K) /\ Len(pkt) < 3 /\ wire \in Seq(K)
  BY <1>1 DEF BytesTrue
<1>3. /\ Append(pkt, Head(wire)) \o Tail(wire) = pkt \o wire
      /\ Head(wire) \in K /\ Tail(wire) \in Seq(K)
  BY <1>2, MoveHead, Zenon
<1>4. Append(pkt, Head(wire)) \in Seq(K) /\ Len(Append(pkt, Head(wire))) = Len(pkt) + 1
  BY <1>2, <1>3, AppendProperties
<1>5. ASSUME ~eaten
      PROVE  /\ Append(pkt, Head(wire)) \o Tail(wire) = OfReport
             /\ Len(pkt) + 1 + Len(Tail(wire)) = 3
  <2>1. pkt \o wire = OfReport
    BY <1>5 DEF BytesTrue, InStep
  <2>2. Append(pkt, Head(wire)) \o Tail(wire) = OfReport
    BY <1>3, <2>1, Zenon
  <2>3. Len(OfReport) = 3
    BY DEF OfReport
  <2>4. Len(Append(pkt, Head(wire)) \o Tail(wire)) = Len(pkt) + 1 + Len(Tail(wire))
    BY <1>3, <1>4, ConcatProperties
  <2> QED
    BY <2>2, <2>3, <2>4
<1>6. Len(pkt) \in 0 .. 2
  <2>1. PICK n \in Nat : n = Len(pkt)
    BY <1>2, LenProperties
  <2>2. n < 3
    BY <1>2, <2>1
  <2>3. n \in 0 .. 2
    BY <2>2
  <2> QED
    BY <2>1, <2>3, Zenon
<1> QED
  BY <1>1, <1>3, <1>4, <1>5, <1>6, Zenon

LEMMA ByteStep == MouseInv /\ Byte => MouseInv'
<1> SUFFICES ASSUME MouseInv, Byte PROVE MouseInv'
  OBVIOUS
<1>1. ClicksTrue /\ BytesTrue
  BY MouseParts
<1>2. wire # <<>> /\ wire' = Tail(wire) /\ UNCHANGED <<q_tail, packets, report, eaten, clicks>>
  BY DEF Byte
<1>3. PICK p : p = Append(pkt, Head(wire))
  OBVIOUS
<1>4. /\ p \in Seq(0 .. 255) /\ Len(p) = Len(pkt) + 1 /\ Len(pkt) \in 0 .. 2
      /\ wire' \in Seq(0 .. 255)
      /\ ~eaten => p \o wire' = OfReport /\ Len(p) + Len(wire') = 3
  <2>1. /\ Tail(wire) \in Seq(0 .. 255)
        /\ Append(pkt, Head(wire)) \in Seq(0 .. 255)
        /\ Len(Append(pkt, Head(wire))) = Len(pkt) + 1 /\ Len(pkt) \in 0 .. 2
        /\ ~eaten => /\ Append(pkt, Head(wire)) \o Tail(wire) = OfReport
                     /\ Len(pkt) + 1 + Len(Tail(wire)) = 3
    BY <1>1, <1>2, WireTrue, Zenon
  <2> QED
    BY <1>2, <1>3, <2>1
<1>5. /\ mouse_x \in Int /\ mouse_x \in 0 .. (IF Hosted = {} THEN ScreenW - 1 ELSE ScreenW)
      /\ packets \in 0 .. MaxPackets /\ eaten \in BOOLEAN /\ report \in Packets \cup {NoPacket}
  <2>1. ScreenW \in Nat
    BY MouseAssumption
  <2> QED
    BY <1>1, <2>1 DEF BytesTrue
<1>6. CASE Len(p) < 3
  <2>1. /\ pkt' = p
        /\ UNCHANGED <<evt_queue, q_head, mouse_x, mouse_buttons, prev_buttons, unseen, full>>
    BY <1>3, <1>6 DEF Byte
  <2>2. ClicksTrue'
    BY <1>1, <1>2, <2>1, ClicksStay
  <2>3. ~eaten => wire' # <<>> /\ pkt' \o wire' = OfReport'
    <3>1. OfReport' = OfReport
      BY <1>2 DEF OfReport, Status
    <3>2. ASSUME ~eaten PROVE wire' # <<>>
      BY <1>4, <1>6, <3>2
    <3> QED
      BY <1>4, <2>1, <3>1, <3>2
  <2>4. BytesTrue'
    BY <1>2, <1>4, <1>5, <1>6, <2>1, <2>3 DEF BytesTrue, InStep
  <2> QED
    BY <2>2, <2>4, MousePartsNext
<1>7. CASE ~(Len(p) < 3)
  <2>1. pkt' = <<>> /\ Len(p) = 3
    <3>1. pkt' = <<>>
      BY <1>3, <1>7 DEF Byte
    <3>2. PICK n \in 0 .. 2 : Len(p) = n + 1 /\ ~(n + 1 < 3)
      BY <1>4, <1>7
    <3>3. n = 2
      BY <3>2
    <3> QED
      BY <3>1, <3>2, <3>3
  <2>2. p[1] \in 0 .. 255 /\ p[2] \in 0 .. 255
    <3>1. PICK K : K = 0 .. 255
      OBVIOUS
    <3>2. p \in Seq(K)
      BY <1>4, <3>1
    <3>3. p[1] \in K /\ p[2] \in K
      BY <2>1, <3>2, ElementOfSeq
    <3> QED
      BY <3>1, <3>3
  <2>3. ASSUME ~eaten PROVE wire' = <<>> /\ p[1] = Status(report)
    <3>1. wire' = <<>>
      BY <1>4, <2>1, <2>3
    <3>2. p \o <<>> = OfReport
      BY <1>4, <2>3, <3>1
    <3>3. p = OfReport
      BY <1>4, <3>2, ConcatEmptySeq
    <3> QED
      BY <3>1, <3>3 DEF OfReport
  <2>4. /\ report.buttons \in SUBSET {1, 2} /\ report.dx \in Int /\ report.over \in BOOLEAN
    BY <1>5, ReportTrue
  <2>5. /\ Bit(Status(report), 8) /\ (Status(report) < 64 <=> ~report.over)
        /\ Pressed(Status(report)) = report.buttons
    BY <2>4, StatusTrue
  <2>6. ASSUME ClicksTrue', mouse_x' \in 0 .. (IF Hosted = {} THEN ScreenW - 1 ELSE ScreenW),
               ~eaten /\ ~report.over => mouse_buttons' = report.buttons
        PROVE  MouseInv'
    <3>1. ~eaten => InStep'
      BY <2>1, <2>3 DEF InStep
    <3>2. BytesTrue'
      BY <1>2, <1>4, <1>5, <2>1, <2>6, <3>1 DEF BytesTrue
    <3> QED
      BY <2>6, <3>2, MousePartsNext
  <2>7. CASE Bit(p[1], 8) /\ p[1] < 64
    <3>1. /\ mouse_x' = Clamped(mouse_x + p[2] - (IF Bit(p[1], 16) THEN 256 ELSE 0))
          /\ Buttons(Pressed(p[1]))
      BY <1>3, <1>7, <2>7 DEF Byte
    <3>2. PICK b \in SUBSET {1, 2} : b = Pressed(p[1])
      BY DEF Pressed
    <3>3. ClicksTrue' /\ mouse_buttons' = b
      BY <1>1, <1>2, <3>1, <3>2, ButtonsTrue
    <3>4. mouse_x' \in 0 .. (IF Hosted = {} THEN ScreenW - 1 ELSE ScreenW)
      <4>1. PICK x \in Int : x = mouse_x + p[2] - (IF Bit(p[1], 16) THEN 256 ELSE 0)
        BY <1>5, <2>2
      <4> QED
        BY <3>1, <4>1, ClampedTrue
    <3>5. ~eaten /\ ~report.over => mouse_buttons' = report.buttons
      BY <2>3, <2>5, <3>2, <3>3
    <3> QED
      BY <2>6, <3>3, <3>4, <3>5
  <2>8. CASE ~(Bit(p[1], 8) /\ p[1] < 64)
    <3>1. UNCHANGED <<evt_queue, q_head, mouse_x, mouse_buttons, prev_buttons, unseen, full>>
      BY <1>3, <1>7, <2>8 DEF Byte
    <3>2. ClicksTrue'
      BY <1>1, <1>2, <3>1, ClicksStay
    <3>3. ~eaten => report.over
      BY <2>3, <2>5, <2>8
    <3> QED
      BY <1>5, <2>6, <3>1, <3>2, <3>3
  <2> QED
    BY <2>7, <2>8
<1> QED
  BY <1>6, <1>7

LEMMA MouseStep == MouseInv /\ MouseNext => MouseInv'
<1> SUFFICES ASSUME MouseInv, MouseNext PROVE MouseInv'
  OBVIOUS
<1>1. ClicksTrue /\ BytesTrue
  BY MouseParts
<1>2. ASSUME NEW p \in Packets, Send(p) PROVE MouseInv'
  <2>1. /\ wire = <<>> /\ packets < MaxPackets /\ packets' = packets + 1 /\ report' = p
        /\ wire' = <<Status(p), p.dx % 256, 0>>
        /\ UNCHANGED <<pkt, evt_queue, q_head, q_tail, mouse_x, mouse_buttons, prev_buttons,
                       eaten, clicks, unseen, full>>
    BY <1>2 DEF Send, Status
  <2>2. ClicksTrue'
    BY <1>1, <2>1, ClicksStay
  <2>3. wire' \in Seq(0 .. 255) /\ wire' # <<>>
    BY <2>1, ReportTrue
  <2>4. packets' \in 0 .. MaxPackets
    BY <1>1, <2>1, MouseAssumption DEF BytesTrue
  <2>5. ASSUME ~eaten PROVE pkt' \o wire' = OfReport'
    <3>1. pkt = <<>>
      BY <1>1, <2>1, <2>5 DEF BytesTrue, InStep
    <3>2. OfReport' = wire'
      BY <2>1 DEF OfReport, Status
    <3> QED
      BY <2>1, <2>3, <3>1, <3>2, ConcatEmptySeq
  <2>6. BytesTrue'
    BY <1>1, <2>1, <2>3, <2>4, <2>5 DEF BytesTrue, InStep
  <2> QED
    BY <2>2, <2>6, MousePartsNext
<1>3. ASSUME NEW x \in Hosted, NEW b \in SUBSET {1, 2}, Absolute(x, b) PROVE MouseInv'
  <2>1. /\ wire # <<>> /\ wire' = Tail(wire) /\ eaten' = TRUE /\ mouse_x' = PixelOf(x)
        /\ Buttons(b) /\ UNCHANGED <<pkt, q_tail, packets, report, clicks>>
    BY <1>3 DEF Absolute
  <2>2. ClicksTrue'
    BY <1>1, <2>1, ButtonsTrue
  <2>3. mouse_x' \in 0 .. ScreenW /\ Hosted # {}
    BY <2>1, MouseAssumption, PixelTrue
  <2>4. wire' \in Seq(0 .. 255)
    BY <1>1, <2>1, WireTrue
  <2>5. BytesTrue'
    BY <1>1, <2>1, <2>3, <2>4 DEF BytesTrue
  <2> QED
    BY <2>2, <2>5, MousePartsNext
<1>4. ASSUME UNCHANGED <<pkt, mouse_x, mouse_buttons, wire, packets, report, eaten>>
      PROVE  BytesTrue'
  BY <1>1, <1>4 DEF BytesTrue, InStep, OfReport, Status
<1>5. CASE MousePoll
  <2>1. /\ q_head # q_tail /\ clicks' = clicks \cup evt_queue[q_tail]
        /\ q_tail' = (q_tail + 1) % MOUSE_QUEUE_SIZE
        /\ UNCHANGED <<pkt, evt_queue, q_head, mouse_x, mouse_buttons, prev_buttons, wire, packets,
                       report, eaten, unseen, full>>
    BY <1>5 DEF MousePoll
  <2>2. /\ Queued(evt_queue, q_tail, q_head)
             = evt_queue[q_tail] \cup Queued(evt_queue, (q_tail + 1) % MOUSE_QUEUE_SIZE, q_head)
        /\ (q_tail + 1) % MOUSE_QUEUE_SIZE \in MouseSlots
    <3>1. q_tail \in MouseSlots /\ q_head \in MouseSlots
      BY <1>1 DEF ClicksTrue
    <3> QED
      BY <2>1, <3>1, QueuedPop, Zenon
  <2>3. PICK Q, R : Q = Queued(evt_queue, q_tail, q_head) /\ R = Queued(evt_queue', q_tail', q_head')
    OBVIOUS
  <2>4. Q = evt_queue[q_tail] \cup R /\ q_tail' \in MouseSlots
    BY <2>1, <2>2, <2>3, Zenon
  <2>5. clicks' \cup R = clicks \cup Q /\ evt_queue[q_tail] \in SUBSET {1, 2}
    BY <1>1, <2>1, <2>4 DEF ClicksTrue
  <2>6. clicks \cup Q \subseteq unseen /\ (~full => unseen \subseteq clicks \cup Q)
    BY <1>1, <2>3 DEF ClicksTrue
  <2>7. clicks' \cup R \subseteq unseen' /\ (~full' => unseen' \subseteq clicks' \cup R)
    BY <2>1, <2>5, <2>6
  <2>8. ClicksTrue'
    BY <1>1, <2>1, <2>3, <2>4, <2>5, <2>7 DEF ClicksTrue
  <2> QED
    BY <1>4, <2>1, <2>8, MousePartsNext
<1>6. CASE MouseFrame
  <2>1. /\ q_head = q_tail /\ clicks' = {} /\ unseen' = {} /\ full' = FALSE
        /\ UNCHANGED <<pkt, evt_queue, q_head, q_tail, mouse_x, mouse_buttons, prev_buttons, wire,
                       packets, report, eaten>>
    BY <1>6 DEF MouseFrame
  <2>2. Queued(evt_queue', q_tail', q_head') = {}
    BY <1>1, <2>1, QueuedNone DEF ClicksTrue
  <2>3. ClicksTrue'
    BY <1>1, <2>1, <2>2 DEF ClicksTrue
  <2> QED
    BY <1>4, <2>1, <2>3, MousePartsNext
<1> QED
  BY <1>2, <1>3, <1>5, <1>6, ByteStep DEF MouseNext

-----------------------------------------------------------------------------
(* The clock and the watchdog.  The time that is read need not be that of  *)
(* any of the reads: what holds at each place says which of the times      *)
(* since rtc_read began it will be.  After the seconds, the time with the  *)
(* minute of now has been or is still ahead in this minute; after the      *)
(* minutes, so has the time with that minute; and the seconds that are     *)
(* read again are the same only when it has been.                          *)

Minute == time \div SECS
Ahead  == time % SECS < sec

SelectTrue == selected => at \in DOMAIN RegOf /\ index \in {RegOf[at], "C"}

ReadTrue ==
  /\ SelectTrue
  /\ at # "idle" => time \in since
  /\ at = "min" /\ ~torn => Ahead \/ Minute * SECS + sec \in since
  /\ at \in {"hold", "again"} /\ ~torn => (Ahead /\ Minute = min) \/ min * SECS + sec \in since
  /\ at = "done" /\ ~torn => min * SECS + sec \in since

(* quiet and age are the distances the counters give across their wrap     *)
WatchTrue ==
  /\ quiet = Elapsed(wdt_ticks)
  /\ IF petting = -1 THEN age = 0 ELSE age = (wdt_ticks - petting) % TICKS /\ age <= quiet
  /\ fired <=> quiet = wdt_timeout_ticks

RtcInv == RtcTypeOK /\ ReadTrue /\ WatchTrue

LEMMA Quotient ==
  ASSUME NEW q \in Nat \ {0}, NEW d \in Int, NEW r \in 0 .. q - 1
  PROVE  (q * d + r) % q = r /\ (q * d + r) \div q = d
<1>1. (q * d + r) % q = r
  BY ModUnique
<1>2. PICK e \in Int : e = ((q * d + r) \div q)
  OBVIOUS
<1>3. q * d + r = q * e + ((q * d + r) % q)
  BY <1>2
<1>4. q * (d - e) = 0
  BY <1>1, <1>3
<1>5. d - e = 0
  BY <1>4
<1> QED
  BY <1>1, <1>2, <1>5

(* Times as minutes and seconds, and the next one.                         *)
LEMMA TimeParts ==
  ASSUME NEW t \in Times
  PROVE  /\ t % SECS \in 0 .. SECS - 1 /\ t \div SECS \in 0 .. MINS - 1
         /\ t = (t \div SECS) * SECS + (t % SECS)
<1>1. PICK q \in Nat \ {0, 1} : q = SECS
  BY RtcAssumption
<1>2. PICK m \in Nat \ {0, 1} : m = MINS
  BY RtcAssumption
<1>3. t \in Nat /\ t < q * m
  BY <1>1, <1>2 DEF Times
<1>4. PICK d \in Int, r \in 0 .. q - 1 : d = (t \div q) /\ r = (t % q) /\ t = q * d + r
  BY <1>3
<1>5. d >= 0
  <2>1. d < 0 => q * d <= q * (-1)
    OBVIOUS
  <2> QED
    BY <1>3, <1>4, <2>1
<1>6. d < m
  <2>1. d >= m => q * d >= q * m
    OBVIOUS
  <2> QED
    BY <1>3, <1>4, <2>1
<1> QED
  BY <1>1, <1>2, <1>4, <1>5, <1>6

LEMMA LaterTrue ==
  ASSUME NEW t \in Times
  PROVE  /\ Later(t) \in Times
         /\ \/ t % SECS = SECS - 1 /\ Later(t) % SECS = 0
            \/ Later(t) % SECS = (t % SECS) + 1 /\ Later(t) \div SECS = t \div SECS
<1>1. PICK q \in Nat \ {0, 1} : q = SECS
  BY RtcAssumption
<1>2. PICK m \in Nat \ {0, 1} : m = MINS
  BY RtcAssumption
<1>3. PICK n \in Nat \ {0} : n = q * m
  OBVIOUS
<1>4. t \in 0 .. n - 1
  BY <1>1, <1>2, <1>3 DEF Times
<1>5. PICK d \in 0 .. m - 1, r \in 0 .. q - 1 : d = (t \div q) /\ r = (t % q) /\ t = d * q + r
  BY <1>1, <1>2, TimeParts
<1>6. PICK s : s = Later(t)
  OBVIOUS
<1>7. s = ((t + 1) % n)
  BY <1>1, <1>2, <1>3, <1>6 DEF Later
<1>8. s = IF t = n - 1 THEN 0 ELSE t + 1
  <2>1. CASE t = n - 1
    <3>1. (n * 1 + 0) % n = 0
      BY ModUnique
    <3> QED
      BY <1>7, <2>1, <3>1
  <2>2. CASE t # n - 1
    <3>1. (n * 0 + (t + 1)) % n = t + 1
      BY <1>4, <2>2, ModUnique
    <3> QED
      BY <1>4, <1>7, <2>2, <3>1
  <2> QED
    BY <2>1, <2>2
<1>9. s \in 0 .. n - 1
  BY <1>4, <1>8
<1>10. CASE r < q - 1
  <2>1. d * q <= (m - 1) * q
    OBVIOUS
  <2>2. (m - 1) * q = n - q
    BY <1>3
  <2>3. t + 1 < n
    BY <1>3, <1>5, <1>10, <2>1, <2>2
  <2>4. s = q * d + (r + 1)
    BY <1>5, <1>8, <2>3
  <2>5. s % q = r + 1 /\ s \div q = d
    BY <1>10, <2>4, Quotient
  <2> QED
    BY <1>1, <1>2, <1>3, <1>5, <1>6, <1>9, <2>5 DEF Times
<1>11. CASE r = q - 1
  <2>1. t + 1 = q * (d + 1) + 0
    BY <1>5, <1>11
  <2>2. PICK e \in Int : s = q * e + 0
    <3>1. s = q * 0 + 0 \/ s = q * (d + 1) + 0
      BY <1>8, <2>1
    <3>2. 0 \in Int /\ d + 1 \in Int
      OBVIOUS
    <3> QED
      BY <3>1, <3>2, Zenon
  <2>3. s % q = 0
    BY <2>2, Quotient
  <2> QED
    BY <1>1, <1>2, <1>3, <1>5, <1>6, <1>9, <1>11, <2>3 DEF Times
<1> QED
  BY <1>10, <1>11

(* What can be read of each register, and where a value leads.             *)
LEMMA ReadsTrue ==
  ASSUME RtcTypeOK, NEW v \in Reads
  PROVE  /\ index = "sec" => v \in 0 .. SECS - 1 /\ (update # "now" => v = time % SECS)
         /\ index = "min" => v \in 0 .. MINS - 1 /\ (update # "now" => v = Minute)
         /\ index = "C" => v = 0
<1>1. time \in Times
  BY DEF RtcTypeOK
<1>2. Later(time) \in Times
  BY <1>1, LaterTrue
<1>3. ASSUME index = "sec" PROVE v \in 0 .. SECS - 1 /\ (update # "now" => v = time % SECS)
  <2>1. index # "min" /\ index # "A" /\ index # "C"
    BY <1>3
  <2>2. Reads = SecValues
    BY <1>3, <2>1, Zenon DEF Reads
  <2>3. PICK t \in {time} \cup (IF update = "now" THEN {Later(time)} ELSE {}) : v = t % SECS
    BY <2>2 DEF SecValues
  <2>4. t \in Times
    BY <1>1, <1>2, <2>3
  <2> QED
    BY <2>3, <2>4, TimeParts
<1>4. ASSUME index = "min" PROVE v \in 0 .. MINS - 1 /\ (update # "now" => v = Minute)
  <2>1. index # "sec" /\ index # "A" /\ index # "C"
    BY <1>4
  <2>2. Reads = MinValues
    BY <1>4, <2>1, Zenon DEF Reads
  <2>3. PICK t \in {time} \cup (IF update = "now" THEN {Later(time)} ELSE {}) : v = t \div SECS
    BY <2>2 DEF MinValues
  <2>4. t \in Times
    BY <1>1, <1>2, <2>3
  <2> QED
    BY <2>3, <2>4, TimeParts DEF Minute
<1>5. ASSUME index = "C" PROVE v = 0
  <2>1. index # "sec" /\ index # "A" /\ index # "min"
    BY <1>5
  <2>2. Reads = {0}
    BY <1>5, <2>1, Zenon DEF Reads
  <2> QED
    BY <2>2
<1> QED
  BY <1>3, <1>4, <1>5

LEMMA DecideTrue ==
  ASSUME NEW v, at \in DOMAIN RegOf
  PROVE  /\ at = "wait" => Decide(v) \in {"wait", "sec"}
         /\ at = "sec"  => Decide(v) = "min"
         /\ at = "min"  => Decide(v) = "hold"
         /\ at = "hold" => Decide(v) \in {"hold", "again"}
         /\ at = "again" => Decide(v) = IF v = sec THEN "done" ELSE "sec"
BY DEF Decide, After, RegOf

LEMMA RtcStarts == RtcInit => RtcInv
<1> SUFFICES ASSUME RtcInit PROVE RtcInv
  OBVIOUS
<1>1. /\ SECS \in Nat \ {0, 1} /\ MINS \in Nat \ {0, 1} /\ TICKS \in Nat \ {0}
      /\ wdt_timeout_ticks \in 1 .. TICKS - 1
  BY RtcAssumption
<1>2. RtcTypeOK
  <2>1. 0 \in 0 .. SECS - 1 /\ 0 \in 0 .. MINS - 1 /\ 0 \in 0 .. wdt_timeout_ticks
    BY <1>1
  <2>2. at \in DOMAIN After
    BY DEF RtcInit, After
  <2>3. /\ time \in Times /\ update = "none" /\ index = "A" /\ selected = FALSE /\ sec = 0 /\ min = 0
        /\ torn = FALSE /\ since = {} /\ wdt_ticks \in Ticks /\ wdt_pet_ticks = wdt_ticks
        /\ petting = -1 /\ fired = FALSE /\ age = 0 /\ quiet = 0
    BY DEF RtcInit
  <2> QED
    BY <2>1, <2>2, <2>3 DEF RtcTypeOK
<1>3. Elapsed(wdt_ticks) = 0
  <2>1. (TICKS * 0 + 0) % TICKS = 0
    BY <1>1, ModUnique
  <2>2. wdt_ticks - wdt_pet_ticks = 0
    BY <1>1 DEF RtcInit, Ticks
  <2> QED
    BY <1>1, <2>1, <2>2 DEF Elapsed
<1>4. WatchTrue
  <2>1. petting = -1 /\ age = 0 /\ quiet = 0 /\ fired = FALSE
    BY DEF RtcInit
  <2>2. 0 # wdt_timeout_ticks
    BY <1>1
  <2> QED
    BY <1>3, <2>1, <2>2, Zenon DEF WatchTrue
<1>5. ReadTrue
  BY DEF RtcInit, ReadTrue, SelectTrue
<1> QED
  BY <1>2, <1>4, <1>5 DEF RtcInv

LEMMA ClockStep == RtcInv /\ Clock => RtcInv'
<1> SUFFICES ASSUME RtcInv, Clock PROVE RtcInv'
  OBVIOUS
<1>1. RtcTypeOK /\ ReadTrue /\ WatchTrue
  BY DEF RtcInv
<1>2. UNCHANGED <<index, readVars, watchVars>>
  BY DEF Clock
<1>3. WatchTrue'
  BY <1>1, <1>2 DEF WatchTrue, watchVars, Elapsed
<1>4. \/ UNCHANGED <<time, since>> /\ update' \in {"soon", "now"}
      \/ update' = "none" /\ time' = Later(time) /\ since' = since \cup {Later(time)}
  <2>1. update \in {"none", "soon", "now"}
    BY <1>1 DEF RtcTypeOK
  <2> QED
    BY <2>1 DEF Clock
<1>5. CASE UNCHANGED <<time, since>> /\ update' \in {"soon", "now"}
  <2>1. RtcTypeOK'
    BY <1>1, <1>2, <1>5 DEF RtcTypeOK, readVars, watchVars
  <2>2. ReadTrue'
    BY <1>1, <1>2, <1>5 DEF ReadTrue, SelectTrue, Ahead, Minute, readVars
  <2> QED
    BY <1>3, <2>1, <2>2 DEF RtcInv
<1>6. CASE update' = "none" /\ time' = Later(time) /\ since' = since \cup {Later(time)}
  <2>1. time \in Times /\ sec \in 0 .. SECS - 1 /\ min \in 0 .. MINS - 1 /\ since \subseteq Times
    BY <1>1 DEF RtcTypeOK
  <2>2. time' \in Times
    BY <1>6, <2>1, LaterTrue
  <2>3. RtcTypeOK'
    BY <1>1, <1>2, <1>6, <2>2 DEF RtcTypeOK, readVars, watchVars
  <2>4. PICK s \in Nat, m \in Nat : s = SECS /\ m = MINS
    BY RtcAssumption
  <2>5. PICK d \in 0 .. m - 1, r \in 0 .. s - 1 :
          d = Minute /\ r = (time % SECS) /\ time = d * s + r
    BY <2>1, <2>4, TimeParts DEF Minute
  <2>6. PICK e \in 0 .. m - 1, u \in 0 .. s - 1 :
          e = Minute' /\ u = (time' % SECS) /\ time' = e * s + u
    BY <2>2, <2>4, TimeParts DEF Minute
  <2>7. (r = s - 1 /\ u = 0) \/ (u = r + 1 /\ e = d)
    <3>1. \/ time % SECS = SECS - 1 /\ Later(time) % SECS = 0
          \/ Later(time) % SECS = (time % SECS) + 1 /\ Later(time) \div SECS = time \div SECS
      BY <2>1, LaterTrue
    <3> QED
      BY <1>6, <2>4, <2>5, <2>6, <3>1 DEF Minute
  <2>8. PICK c \in 0 .. s - 1, n \in 0 .. m - 1 : c = sec /\ n = min
    BY <2>1, <2>4
  <2>9. UNCHANGED <<at, selected, sec, min, torn, index>>
    BY <1>2 DEF readVars
  <2>10. e * s + u \in since' /\ since \subseteq since'
    BY <1>6, <2>6
  <2>11. ASSUME at = "min", ~torn PROVE u < c \/ e * s + c \in since'
    <3>1. r < c \/ d * s + c \in since
      BY <1>1, <2>4, <2>5, <2>8, <2>11 DEF ReadTrue, Ahead
    <3> QED
      BY <2>7, <2>10, <3>1
  <2>12. ASSUME at \in {"hold", "again"}, ~torn PROVE (u < c /\ e = n) \/ n * s + c \in since'
    <3>1. (r < c /\ d = n) \/ n * s + c \in since
      BY <1>1, <2>4, <2>5, <2>8, <2>12 DEF ReadTrue, Ahead
    <3> QED
      BY <2>7, <2>10, <3>1
  <2>13. ASSUME at = "done", ~torn PROVE n * s + c \in since'
    BY <1>1, <2>4, <2>8, <2>10, <2>13 DEF ReadTrue
  <2>14. SelectTrue'
    BY <1>1, <2>9 DEF ReadTrue, SelectTrue
  <2>15. time' \in since'
    BY <2>6, <2>10
  <2>16. Minute' = e /\ (Ahead' <=> u < c)
    BY <2>6, <2>8, <2>9 DEF Ahead
  <2>17. ReadTrue'
    BY <2>4, <2>8, <2>9, <2>11, <2>12, <2>13, <2>14, <2>15, <2>16 DEF ReadTrue
  <2> QED
    BY <1>3, <2>3, <2>17 DEF RtcInv
<1> QED
  BY <1>4, <1>5, <1>6

LEMMA ValueStep == RtcInv /\ Value => RtcInv'
<1> SUFFICES ASSUME RtcInv, Value PROVE RtcInv'
  OBVIOUS
<1>1. RtcTypeOK /\ ReadTrue /\ WatchTrue
  BY DEF RtcInv
<1>2. PICK v \in Reads :
        /\ at'  = Decide(v)
        /\ sec' = IF at = "sec" THEN v ELSE sec
        /\ min' = IF at = "min" THEN v ELSE min
  BY DEF Value
<1>3. /\ selected /\ selected' = FALSE
      /\ torn' = (torn \/ index # RegOf[at] \/ (update = "now" /\ index # "A"))
      /\ UNCHANGED <<time, update, index, since, watchVars>>
  BY DEF Value
<1>4. at \in DOMAIN RegOf /\ index \in {RegOf[at], "C"}
  BY <1>1, <1>3 DEF ReadTrue, SelectTrue
<1>5. at \in {"wait", "sec", "min", "hold", "again"}
  BY <1>4 DEF RegOf
<1>6. WatchTrue'
  BY <1>1, <1>3 DEF WatchTrue, watchVars, Elapsed
<1>7. /\ index = "sec" => v \in 0 .. SECS - 1 /\ (update # "now" => v = time % SECS)
      /\ index = "min" => v \in 0 .. MINS - 1 /\ (update # "now" => v = Minute)
      /\ index = "C" => v = 0
  BY <1>1, ReadsTrue
<1>8. /\ at = "wait" => at' \in {"wait", "sec"}
      /\ at = "sec"  => at' = "min"
      /\ at = "min"  => at' = "hold"
      /\ at = "hold" => at' \in {"hold", "again"}
      /\ at = "again" => at' = IF v = sec THEN "done" ELSE "sec"
  BY <1>2, <1>4, DecideTrue
<1>9. SECS \in Nat \ {0} /\ MINS \in Nat \ {0}
  BY RtcAssumption
<1>10. sec' \in 0 .. SECS - 1
  <2>1. CASE at = "sec"
    <3>1. index \in {"sec", "C"} /\ sec' = v
      BY <1>2, <1>4, <2>1 DEF RegOf
    <3> QED
      BY <1>7, <1>9, <3>1
  <2> QED
    BY <1>1, <1>2, <2>1 DEF RtcTypeOK
<1>11. min' \in 0 .. MINS - 1
  <2>1. CASE at = "min"
    <3>1. index \in {"min", "C"} /\ min' = v
      BY <1>2, <1>4, <2>1 DEF RegOf
    <3> QED
      BY <1>7, <1>9, <3>1
  <2> QED
    BY <1>1, <1>2, <2>1 DEF RtcTypeOK
<1>12. at' \in DOMAIN After \cup {"again", "done"} /\ torn' \in BOOLEAN
  <2>1. at' \in {"wait", "sec", "min", "hold", "again", "done"}
    BY <1>5, <1>8
  <2>2. torn' \in BOOLEAN
    BY <1>1, <1>3 DEF RtcTypeOK
  <2> QED
    BY <2>1, <2>2 DEF After
<1>13. RtcTypeOK'
  BY <1>1, <1>3, <1>10, <1>11, <1>12 DEF RtcTypeOK, watchVars
<1>14. time \in Times /\ time \in since
  BY <1>1, <1>5 DEF RtcTypeOK, ReadTrue
<1>15. PICK s \in Nat, m \in Nat : s = SECS /\ m = MINS
  BY RtcAssumption
<1>16. PICK d \in 0 .. m - 1, r \in 0 .. s - 1 :
         d = Minute /\ r = (time % SECS) /\ time = d * s + r
  BY <1>14, <1>15, TimeParts DEF Minute
<1>17. PICK c \in 0 .. s - 1, n \in 0 .. m - 1 : c = sec' /\ n = min'
  BY <1>10, <1>11, <1>15
<1>18. Minute' = d /\ (Ahead' <=> r < c)
  BY <1>3, <1>16, <1>17 DEF Minute, Ahead
<1>19. ASSUME ~torn' PROVE ~torn /\ index = RegOf[at] /\ (update # "now" \/ index = "A")
  BY <1>3, <1>19
<1>20. ASSUME at = "sec", ~torn' PROVE d * s + c \in since
  <2>1. index = "sec" /\ update # "now"
    BY <1>19, <1>20 DEF RegOf
  <2>2. c = r
    BY <1>2, <1>7, <1>16, <1>17, <1>20, <2>1
  <2> QED
    BY <1>14, <1>16, <2>2
<1>21. ASSUME at = "min", ~torn' PROVE (r < c /\ d = n) \/ n * s + c \in since
  <2>1. index = "min" /\ update # "now"
    BY <1>19, <1>21 DEF RegOf
  <2>2. n = d /\ sec' = sec
    BY <1>2, <1>7, <1>16, <1>17, <1>21, <2>1
  <2>3. r < c \/ d * s + c \in since
    BY <1>1, <1>15, <1>16, <1>17, <1>19, <1>21, <2>2 DEF ReadTrue, Ahead
  <2> QED
    BY <2>2, <2>3
<1>22. ASSUME at \in {"hold", "again"}, ~torn' PROVE (r < c /\ d = n) \/ n * s + c \in since
  <2>1. sec' = sec /\ min' = min
    BY <1>2, <1>22
  <2> QED
    BY <1>1, <1>15, <1>16, <1>17, <1>19, <1>22, <2>1 DEF ReadTrue, Ahead
<1>23. ASSUME at = "again", at' = "done", ~torn' PROVE n * s + c \in since
  <2>1. index = "sec" /\ update # "now"
    BY <1>19, <1>23 DEF RegOf
  <2>2. v = sec /\ sec' = sec
    BY <1>2, <1>8, <1>23
  <2>3. c = r
    BY <1>7, <1>16, <1>17, <2>1, <2>2
  <2> QED
    BY <1>22, <1>23, <2>3
<1>24. ReadTrue'
  <2>1. SelectTrue'
    BY <1>3 DEF SelectTrue
  <2>2. time' \in since' /\ since' = since
    BY <1>3, <1>14
  <2>3. ASSUME at' = "min", ~torn' PROVE d * s + c \in since
    BY <1>5, <1>8, <1>20, <2>3
  <2>4. ASSUME at' \in {"hold", "again"}, ~torn' PROVE (r < c /\ d = n) \/ n * s + c \in since
    BY <1>5, <1>8, <1>21, <1>22, <2>4
  <2>5. ASSUME at' = "done", ~torn' PROVE n * s + c \in since
    BY <1>5, <1>8, <1>23, <2>5
  <2> QED
    BY <1>15, <1>17, <1>18, <2>1, <2>2, <2>3, <2>4, <2>5 DEF ReadTrue
<1> QED
  BY <1>6, <1>13, <1>24 DEF RtcInv

(* Distances between counters that wrap.                                   *)
LEMMA Distances ==
  ASSUME NEW a \in Ticks, NEW b \in Ticks
  PROVE  /\ (a - b) % TICKS \in Ticks /\ (a - a) % TICKS = 0
         /\ (a + 1) % TICKS \in Ticks
         /\ (a - b) % TICKS < TICKS - 1 => (((a + 1) % TICKS) - b) % TICKS = ((a - b) % TICKS) + 1
<1>1. PICK q \in Nat \ {0} : q = TICKS
  BY RtcAssumption
<1>2. a \in 0 .. q - 1 /\ b \in 0 .. q - 1
  BY <1>1 DEF Ticks
<1> DEFINE W(x) == IF x < 0 THEN x + q ELSE IF x < q THEN x ELSE x - q
<1>3. \A x \in Int : -q <= x /\ x < 2 * q => x % q = W(x)
  BY Wrapped
<1>4. (a - b) % q = W(a - b)
  <2>1. a - b \in Int /\ -q <= a - b /\ a - b < 2 * q
    BY <1>2
  <2> QED
    BY <1>3, <2>1, Zenon
<1>5. (a - a) % q = W(a - a)
  <2>1. a - a \in Int /\ -q <= a - a /\ a - a < 2 * q
    BY <1>2
  <2> QED
    BY <1>3, <2>1, Zenon
<1>6. PICK c \in 0 .. q - 1 : c = ((a + 1) % q) /\ c = W(a + 1)
  <2>1. a + 1 \in Int /\ -q <= a + 1 /\ a + 1 < 2 * q
    BY <1>2
  <2>2. (a + 1) % q = W(a + 1)
    BY <1>3, <2>1, Zenon
  <2> QED
    BY <1>2, <2>2
<1>7. (c - b) % q = W(c - b)
  <2>1. c - b \in Int /\ -q <= c - b /\ c - b < 2 * q
    BY <1>2
  <2> QED
    BY <1>3, <2>1, Zenon
<1>8. W(a - b) \in 0 .. q - 1 /\ W(a - a) = 0
  BY <1>2
<1>9. W(a - b) < q - 1 => W(c - b) = W(a - b) + 1
  BY <1>2, <1>6
<1> HIDE DEF W
<1> QED
  BY <1>1, <1>4, <1>5, <1>6, <1>7, <1>8, <1>9 DEF Ticks

(* What the steps of the watchdog leave of the reads.                      *)
LEMMA ReadStays ==
  ASSUME ReadTrue, UNCHANGED <<time, readVars, since>>, index' \in {index, "C"}
  PROVE  ReadTrue'
BY DEF ReadTrue, SelectTrue, Ahead, Minute, readVars

LEMMA RtcIrqStep == RtcInv /\ RtcIrq => RtcInv'
<1> SUFFICES ASSUME RtcInv, RtcIrq PROVE RtcInv'
  OBVIOUS
<1>1. RtcTypeOK /\ ReadTrue /\ WatchTrue
  BY DEF RtcInv
<1>2. /\ ~fired /\ index' = "C" /\ wdt_ticks' = (wdt_ticks + 1) % TICKS
      /\ fired' = (Elapsed(wdt_ticks') >= wdt_timeout_ticks)
      /\ quiet' = quiet + 1 /\ age' = IF petting = -1 THEN 0 ELSE age + 1
      /\ UNCHANGED <<time, update, readVars, since, wdt_pet_ticks, petting>>
  BY DEF RtcIrq
<1>3. ReadTrue'
  BY <1>1, <1>2, ReadStays
<1>q. PICK q \in Nat \ {0} : q = TICKS
  BY RtcAssumption
<1>t. PICK t \in 1 .. q - 1 : t = wdt_timeout_ticks
  BY <1>q, RtcAssumption
<1>4. q = TICKS /\ t = wdt_timeout_ticks
  BY <1>q, <1>t
<1>5. /\ wdt_ticks \in Ticks /\ wdt_pet_ticks \in Ticks /\ petting \in Ticks \cup {-1}
      /\ quiet \in 0 .. t /\ age \in 0 .. t /\ fired \in BOOLEAN
  BY <1>1, <1>4 DEF RtcTypeOK
<1>6. quiet = ((wdt_ticks - wdt_pet_ticks) % q) /\ quiet # t /\ quiet < q - 1
  BY <1>1, <1>2, <1>4, <1>5 DEF WatchTrue, Elapsed
<1>7. /\ wdt_ticks' \in Ticks
      /\ (wdt_ticks' - wdt_pet_ticks) % q = quiet + 1
  <2>1. /\ (wdt_ticks + 1) % TICKS \in Ticks
        /\ (wdt_ticks - wdt_pet_ticks) % TICKS < TICKS - 1
             => (((wdt_ticks + 1) % TICKS) - wdt_pet_ticks) % TICKS = ((wdt_ticks - wdt_pet_ticks) % TICKS) + 1
    BY <1>5, Distances, Zenon
  <2> QED
    BY <1>2, <1>4, <1>6, <2>1
<1>8. Elapsed(wdt_ticks)' = quiet + 1 /\ Elapsed(wdt_ticks') = quiet + 1
  BY <1>2, <1>4, <1>7 DEF Elapsed
<1>9. fired' <=> quiet' = t
  <2>1. quiet + 1 >= t <=> quiet + 1 = t
    BY <1>5, <1>6
  <2>2. Elapsed(wdt_ticks') >= t <=> quiet + 1 = t
    BY <1>8, <2>1
  <2> QED
    BY <1>2, <1>4, <2>2, Zenon
<1>10. ASSUME petting # -1
       PROVE  age' = ((wdt_ticks' - petting) % q) /\ age' <= quiet' /\ age' \in 0 .. t
  <2>1. petting \in Ticks /\ age = ((wdt_ticks - petting) % q) /\ age <= quiet
    BY <1>1, <1>4, <1>5, <1>10 DEF WatchTrue
  <2>2. (wdt_ticks - petting) % TICKS < TICKS - 1
           => (((wdt_ticks + 1) % TICKS) - petting) % TICKS = ((wdt_ticks - petting) % TICKS) + 1
    BY <1>5, <2>1, Distances, Zenon
  <2>3. age < q - 1 /\ age + 1 \in 0 .. t
    BY <1>5, <1>6, <2>1
  <2> QED
    BY <1>2, <1>4, <1>5, <1>10, <2>1, <2>2, <2>3
<1>11. age' \in 0 .. t /\ quiet' \in 0 .. t
  <2>1. petting = -1 => age' = 0
    BY <1>2
  <2> QED
    BY <1>2, <1>5, <1>6, <1>10, <2>1
<1>12. WatchTrue'
  <2>1. petting = -1 => age' = 0
    BY <1>2
  <2> QED
    BY <1>2, <1>4, <1>8, <1>9, <1>10, <2>1 DEF WatchTrue
<1>13. RtcTypeOK'
  <2>1. fired' \in BOOLEAN
    BY <1>2
  <2> QED
    BY <1>1, <1>2, <1>4, <1>7, <1>11, <2>1 DEF RtcTypeOK, readVars
<1> QED
  BY <1>3, <1>12, <1>13 DEF RtcInv

LEMMA RtcStep == RtcInv /\ RtcNext => RtcInv'
<1> SUFFICES ASSUME RtcInv, RtcNext PROVE RtcInv'
  OBVIOUS
<1>1. RtcTypeOK /\ ReadTrue /\ WatchTrue
  BY DEF RtcInv
<1>2. CASE Begin
  <2>1. WatchTrue'
    BY <1>1, <1>2 DEF Begin, WatchTrue, watchVars, Elapsed
  <2>2. RtcTypeOK'
    BY <1>1, <1>2 DEF Begin, RtcTypeOK, watchVars, After
  <2>3. ReadTrue'
    BY <1>1, <1>2 DEF Begin, ReadTrue, SelectTrue, RegOf
  <2> QED
    BY <2>1, <2>2, <2>3 DEF RtcInv
<1>3. CASE Select
  <2>1. WatchTrue'
    BY <1>1, <1>3 DEF Select, WatchTrue, watchVars, Elapsed
  <2>2. RegOf[at] \in {"A", "sec", "min"}
    BY <1>3 DEF Select, RegOf
  <2>3. RtcTypeOK'
    BY <1>1, <1>3, <2>2 DEF Select, RtcTypeOK, watchVars
  <2>4. ReadTrue'
    BY <1>1, <1>3 DEF Select, ReadTrue, SelectTrue, Ahead, Minute
  <2> QED
    BY <2>1, <2>3, <2>4 DEF RtcInv
<1>4. CASE PetLoad
  <2>1. /\ petting = -1 /\ petting' = wdt_ticks /\ age' = 0
        /\ UNCHANGED <<time, update, index, readVars, since, wdt_ticks, wdt_pet_ticks, fired, quiet>>
    BY <1>4 DEF PetLoad
  <2>2. wdt_ticks \in Ticks /\ quiet >= 0 /\ 0 \in 0 .. wdt_timeout_ticks
    BY <1>1, RtcAssumption DEF RtcTypeOK
  <2>3. (wdt_ticks - wdt_ticks) % TICKS = 0
    BY <2>2, Distances
  <2>4. wdt_ticks # -1
    BY <2>2, RtcAssumption DEF Ticks
  <2>5. WatchTrue'
    BY <1>1, <2>1, <2>2, <2>3, <2>4 DEF WatchTrue, Elapsed
  <2>6. RtcTypeOK'
    BY <1>1, <2>1, <2>2 DEF RtcTypeOK, readVars
  <2>7. ReadTrue'
    BY <1>1, <2>1, ReadStays
  <2> QED
    BY <2>5, <2>6, <2>7 DEF RtcInv
<1>5. CASE PetStore
  <2>1. /\ ~fired /\ petting # -1 /\ wdt_pet_ticks' = petting /\ petting' = -1
        /\ quiet' = age /\ age' = 0
        /\ UNCHANGED <<time, update, index, readVars, since, wdt_ticks, fired>>
    BY <1>5 DEF PetStore
  <2>2. /\ age = ((wdt_ticks - petting) % TICKS) /\ age <= quiet /\ quiet # wdt_timeout_ticks
        /\ age \in 0 .. wdt_timeout_ticks /\ quiet \in 0 .. wdt_timeout_ticks /\ petting \in Ticks
    BY <1>1, <2>1 DEF WatchTrue, RtcTypeOK
  <2>3. age # wdt_timeout_ticks
    BY <2>2, RtcAssumption
  <2>4. WatchTrue'
    BY <2>1, <2>2, <2>3 DEF WatchTrue, Elapsed
  <2>5. 0 \in 0 .. wdt_timeout_ticks
    BY RtcAssumption
  <2>6. RtcTypeOK'
    BY <1>1, <2>1, <2>2, <2>5 DEF RtcTypeOK, readVars
  <2>7. ReadTrue'
    BY <1>1, <2>1, ReadStays
  <2> QED
    BY <2>4, <2>6, <2>7 DEF RtcInv
<1> QED
  BY <1>2, <1>3, <1>4, <1>5, ClockStep, ValueStep, RtcIrqStep DEF RtcNext

-----------------------------------------------------------------------------
(* The calendar: between 1970 and 2099 a leap year is one that 4 divides,  *)
(* and the days that have passed are counted from one month to the next.   *)

DateInv ==
  /\ date \in [year : 1970 .. LastYear, month : 1 .. 12, hour : 0 .. 23, days : Nat]
  /\ UnixDays(date.year, date.month, 1) = date.days + (IF LeapYear(date.year) THEN 1 ELSE 0)

LEMMA Leaps ==
  ASSUME NEW y \in 1970 .. 2099
  PROVE  LeapYear(y) <=> y % 4 = 0
<1>1. PICK c \in Int, d \in Int : y = 100 * c + (y % 100) /\ y = 400 * d + (y % 400)
  <2>1. y = 100 * (y \div 100) + (y % 100) /\ y = 400 * (y \div 400) + (y % 400)
    OBVIOUS
  <2>2. y \div 100 \in Int /\ y \div 400 \in Int
    OBVIOUS
  <2> QED
    BY <2>1, <2>2
<1>2. y % 100 = 0 => y = 2000
  BY <1>1
<1>3. 2000 % 4 = 0 /\ 2000 % 400 = 0
  OBVIOUS
<1>4. y % 400 = 0 => y = 2000
  BY <1>1
<1> QED
  BY <1>2, <1>3, <1>4 DEF LeapYear

(* The hour of the registers is read as it was written.                    *)
LEMMA Hours ==
  ASSUME NEW h \in 0 .. 23, NEW binary \in BOOLEAN
  PROVE  /\ HourOf(HourRegister(h, binary, TRUE), binary, TRUE) = h
         /\ h \notin {0, 12} /\ (binary \/ h < 12) => HourOf(HourRegister(h, binary, FALSE), binary, FALSE) = h
<1>1. ASSUME NEW n \in 0 .. 23 PROVE BcdToBin(ToBcd(n)) = n
  BY <1>1 DEF BcdToBin, ToBcd
<1>2. HourOf(HourRegister(h, binary, TRUE), binary, TRUE) = h
  <2>1. ToBcd(h) \in Int
    BY DEF ToBcd
  <2>2. HourRegister(h, binary, TRUE) = IF binary THEN h ELSE ToBcd(h)
    BY <2>1 DEF HourRegister
  <2> QED
    BY <1>1, <2>2 DEF HourOf
<1>3. ASSUME h \notin {0, 12}, binary \/ h < 12
      PROVE HourOf(HourRegister(h, binary, FALSE), binary, FALSE) = h
  BY <1>1, <1>3 DEF HourOf, HourRegister, ToBcd
<1> QED
  BY <1>2, <1>3

LEMMA LengthTrue ==
  ASSUME NEW y, NEW m \in 1 .. 12
  PROVE  Length(y, m) = IF m \in {4, 6, 9, 11} THEN 30
                        ELSE IF m = 2 THEN (IF LeapYear(y) THEN 29 ELSE 28) ELSE 31
<1>1. CASE m \in {4, 6, 9, 11}
  <2>1. m # 2
    BY <1>1
  <2> QED
    BY <1>1, <2>1, Zenon DEF Length
<1>2. CASE m = 2
  <2>1. m \notin {4, 6, 9, 11}
    BY <1>2
  <2> QED
    BY <1>2, <2>1, Zenon DEF Length
<1>3. CASE m \notin {4, 6, 9, 11} /\ m # 2
  BY <1>3, Zenon DEF Length
<1> QED
  BY <1>1, <1>2, <1>3

LEMMA MonthsTrue ==
  ASSUME NEW y \in 1970 .. LastYear, NEW m \in 1 .. 11
  PROVE  UnixDays(y, m + 1, 1) = UnixDays(y, m, 1) + Length(y, m)
<1>1. PICK b \in {0, 1} : b = (IF LeapYear(y) THEN 1 ELSE 0)
  OBVIOUS
<1>2. Length(y, m) = IF m \in {4, 6, 9, 11} THEN 30 ELSE IF m = 2 THEN 28 + b ELSE 31
  BY <1>1, LengthTrue
<1>3. /\ DaysInMonth[m + 1] \in Int /\ DaysInMonth[m] \in Int
      /\ DaysInMonth[m + 1] + (IF m + 1 > 2 THEN b ELSE 0)
           = DaysInMonth[m] + (IF m > 2 THEN b ELSE 0) + Length(y, m)
  <2>1. m \in {1, 2, 3, 4, 5, 6, 7, 8, 9, 10, 11}
    OBVIOUS
  <2> QED
    BY <1>2, <2>1 DEF DaysInMonth
<1>4. PICK k \in Int : k = (y - 1970) * 365 + ((y - 1970 + 2) \div 4)
  BY DEF LastYear
<1>5. PICK c \in Int, e \in Int : c = DaysInMonth[m] /\ e = DaysInMonth[m + 1]
  BY <1>3
<1>6. /\ UnixDays(y, m, 1) = k + c + (IF m > 2 THEN b ELSE 0) + 1 - 1
      /\ UnixDays(y, m + 1, 1) = k + e + (IF m + 1 > 2 THEN b ELSE 0) + 1 - 1
  BY <1>1, <1>4, <1>5 DEF UnixDays
<1>7. PICK n \in Int : n = Length(y, m)
  BY <1>2
<1> QED
  BY <1>3, <1>5, <1>6, <1>7

LEMMA YearsTrue ==
  ASSUME NEW y \in 1970 .. LastYear - 1
  PROVE  UnixDays(y + 1, 1, 1) + (IF LeapYear(y) THEN 1 ELSE 0)
           = UnixDays(y, 12, 1) + 31 + (IF LeapYear(y + 1) THEN 1 ELSE 0)
<1>1. y \in 1970 .. 2099 /\ y + 1 \in 1970 .. 2099
  BY DEF LastYear
<1>2. (LeapYear(y) <=> y % 4 = 0) /\ (LeapYear(y + 1) <=> (y + 1) % 4 = 0)
  BY <1>1, Leaps
<1>3. DaysInMonth[1] = 0 /\ DaysInMonth[12] = 334
  BY DEF DaysInMonth
<1>4. PICK a \in Int, b \in Int : a = ((y - 1970 + 2) \div 4) /\ b = ((y + 1 - 1970 + 2) \div 4)
  OBVIOUS
<1>5. b = IF (y + 1) % 4 = 0 THEN a + 1 ELSE a
  BY <1>1, <1>4
<1>6. /\ UnixDays(y + 1, 1, 1) = (y + 1 - 1970) * 365 + b + 0 + 0 + 1 - 1
      /\ UnixDays(y, 12, 1) = (y - 1970) * 365 + a + 334 + (IF LeapYear(y) THEN 1 ELSE 0) + 1 - 1
  BY <1>3, <1>4 DEF UnixDays
<1> QED
  BY <1>1, <1>2, <1>5, <1>6

LEMMA DateStarts == DateInit => DateInv
<1> SUFFICES ASSUME DateInit PROVE DateInv
  OBVIOUS
<1>1. date = [year |-> 1970, month |-> 1, hour |-> 0, days |-> 0]
  BY DEF DateInit
<1>2. ~LeapYear(1970)
  BY Leaps
<1>3. DaysInMonth[1] = 0 /\ (1970 - 1970 + 2) \div 4 = 0
  BY DEF DaysInMonth
<1>4. UnixDays(1970, 1, 1) = 0
  BY <1>3 DEF UnixDays
<1> QED
  BY <1>1, <1>2, <1>4 DEF DateInv, LastYear

LEMMA DateStep == DateInv /\ NextMonth => DateInv'
<1> SUFFICES ASSUME DateInv, NextMonth PROVE DateInv'
  OBVIOUS
<1>1. PICK y \in 1970 .. LastYear, m \in 1 .. 12, h \in 0 .. 23, n \in Nat :
        y = date.year /\ m = date.month /\ h = date.hour /\ n = date.days
  BY DEF DateInv
<1>2. UnixDays(y, m, 1) = n + (IF LeapYear(y) THEN 1 ELSE 0)
  BY <1>1 DEF DateInv
<1>3. /\ y < LastYear \/ m < 12
      /\ date' = [year |-> y + (m \div 12), month |-> (m % 12) + 1,
                  hour |-> (h + 1) % 24, days |-> n + Length(y, m)]
  BY <1>1 DEF NextMonth
<1>4. Length(y, m) \in Nat /\ (m = 12 => Length(y, m) = 31)
  BY LengthTrue
<1>5. (h + 1) % 24 \in 0 .. 23
  OBVIOUS
<1>6. CASE m < 12
  <2>1. m \div 12 = 0 /\ m % 12 = m
    BY <1>6
  <2>2. UnixDays(y, m + 1, 1) = UnixDays(y, m, 1) + Length(y, m)
    BY <1>6, MonthsTrue
  <2>3. date' = [year |-> y, month |-> m + 1, hour |-> (h + 1) % 24, days |-> n + Length(y, m)]
    BY <1>3, <2>1
  <2>4. UnixDays(y, m + 1, 1) = n + Length(y, m) + (IF LeapYear(y) THEN 1 ELSE 0)
    BY <1>2, <1>4, <2>2
  <2> QED
    BY <1>4, <1>5, <1>6, <2>3, <2>4 DEF DateInv
<1>7. CASE m = 12
  <2>1. m \div 12 = 1 /\ m % 12 = 0 /\ y \in 1970 .. LastYear - 1
    BY <1>3, <1>7 DEF LastYear
  <2>2. UnixDays(y + 1, 1, 1) + (IF LeapYear(y) THEN 1 ELSE 0)
           = UnixDays(y, 12, 1) + 31 + (IF LeapYear(y + 1) THEN 1 ELSE 0)
    BY <2>1, YearsTrue
  <2>3. date' = [year |-> y + 1, month |-> 1, hour |-> (h + 1) % 24, days |-> n + 31]
    BY <1>3, <1>4, <1>7, <2>1
  <2>4. UnixDays(y + 1, 1, 1) \in Int
    <3>1. DaysInMonth[1] = 0
      BY DEF DaysInMonth
    <3> QED
      BY <2>1, <3>1 DEF UnixDays
  <2>5. UnixDays(y + 1, 1, 1) = n + 31 + (IF LeapYear(y + 1) THEN 1 ELSE 0)
    BY <1>2, <1>7, <2>2, <2>4
  <2>6. y + 1 \in 1970 .. LastYear /\ 1 \in 1 .. 12 /\ n + 31 \in Nat
    BY <2>1 DEF LastYear
  <2> QED
    BY <1>5, <2>3, <2>5, <2>6 DEF DateInv
<1> QED
  BY <1>6, <1>7

-----------------------------------------------------------------------------
(* The log-in                                                              *)

LoginInv == LoginTypeOK /\ OnlyUsers

(* A field with a key typed into it is a field.                            *)
LEMMA TypedText ==
  ASSUME NEW max \in Nat \ {0}, NEW text \in Texts(max)
  PROVE  /\ <<>> \in Texts(max) /\ SubSeq(text, 1, Len(text) - 1) \in Texts(max)
         /\ \A key \in Chars : Len(text) < max - 1 => Append(text, key) \in Texts(max)
<1>1. PICK n \in 0 .. max - 1 : text \in [1 .. n -> Chars]
  BY DEF Texts
<1>2. text \in Seq(Chars) /\ Len(text) = n
  BY <1>1
<1>3. ASSUME NEW t \in Seq(Chars), Len(t) <= max - 1 PROVE t \in Texts(max)
  <2>1. Len(t) \in 0 .. max - 1 /\ t \in [1 .. Len(t) -> Chars]
    BY <1>3, LenProperties
  <2> QED
    BY <2>1 DEF Texts
<1>4. <<>> \in Texts(max)
  <2>1. <<>> \in Seq(Chars) /\ Len(<<>>) = 0
    OBVIOUS
  <2>2. Len(<<>>) <= max - 1
    BY <2>1
  <2> QED
    BY <1>3, <2>1, <2>2, Zenon
<1>5. SubSeq(text, 1, Len(text) - 1) \in Texts(max)
  <2>1. /\ 1 \in Int /\ n - 1 \in Int
        /\ \A i \in 1 .. n - 1 : text[i] \in Chars
    BY <1>1
  <2>2. /\ SubSeq(text, 1, n - 1) \in Seq(Chars)
        /\ Len(SubSeq(text, 1, n - 1)) = IF 1 <= n - 1 THEN n - 1 - 1 + 1 ELSE 0
    BY <2>1, SubSeqProperties
  <2>3. Len(SubSeq(text, 1, n - 1)) <= max - 1
    BY <2>2
  <2> QED
    BY <1>2, <1>3, <2>2, <2>3
<1>6. ASSUME NEW key \in Chars, Len(text) < max - 1 PROVE Append(text, key) \in Texts(max)
  <2>1. Append(text, key) \in Seq(Chars) /\ Len(Append(text, key)) = n + 1
    BY <1>2, AppendProperties
  <2>2. Len(Append(text, key)) <= max - 1
    BY <1>2, <1>6, <2>1
  <2> QED
    BY <1>3, <2>1, <2>2, Zenon
<1> QED
  BY <1>4, <1>5, <1>6

LEMMA TypedForm ==
  ASSUME NEW f \in Forms, NEW i \in 0 .. 2, NEW key
  PROVE  Typed(f, i, key) \in Forms
<1>1. PICK n \in Nat \ {0}, p \in Nat \ {0} : n = LOGIN_USERNAME_MAX /\ p = LOGIN_PASSWORD_MAX
  BY LoginAssumption
<1>2. PICK N, P : N = Texts(n) /\ P = Texts(p)
  OBVIOUS
<1>3. Forms = [name : N, pass : P, pass2 : P]
  BY <1>1, <1>2 DEF Forms
<1>4. f.name \in N /\ f.pass \in P /\ f.pass2 \in P
  BY <1>3
<1>5. ASSUME NEW text, NEW max, NEW T, text \in T,
             SubSeq(text, 1, Len(text) - 1) \in T,
             \A c \in Chars : Len(text) < max - 1 => Append(text, c) \in T
      PROVE  (IF key = "BACKSPACE" THEN SubSeq(text, 1, Len(text) - 1)
              ELSE IF key \in Chars /\ Len(text) < max - 1 THEN Append(text, key) ELSE text) \in T
  BY <1>5
<1>6. CASE i = 0
  <2>1. PICK t : t = (IF key = "BACKSPACE" THEN SubSeq(f.name, 1, Len(f.name) - 1)
              ELSE IF key \in Chars /\ Len(f.name) < n - 1 THEN Append(f.name, key) ELSE f.name)
    OBVIOUS
  <2>2. t \in N
    BY <1>2, <1>4, <1>5, <2>1, TypedText
  <2>3. Typed(f, i, key) = [f EXCEPT !.name = t]
    BY <1>1, <1>6, <2>1 DEF Typed, Fields
  <2> QED
    BY <1>3, <2>2, <2>3
<1>7. CASE i = 1
  <2>1. PICK t : t = (IF key = "BACKSPACE" THEN SubSeq(f.pass, 1, Len(f.pass) - 1)
              ELSE IF key \in Chars /\ Len(f.pass) < p - 1 THEN Append(f.pass, key) ELSE f.pass)
    OBVIOUS
  <2>2. t \in P
    BY <1>2, <1>4, <1>5, <2>1, TypedText
  <2>3. Typed(f, i, key) = [f EXCEPT !.pass = t]
    BY <1>1, <1>7, <2>1 DEF Typed, Fields
  <2> QED
    BY <1>3, <2>2, <2>3
<1>8. CASE i = 2
  <2>1. PICK t : t = (IF key = "BACKSPACE" THEN SubSeq(f.pass2, 1, Len(f.pass2) - 1)
              ELSE IF key \in Chars /\ Len(f.pass2) < p - 1 THEN Append(f.pass2, key) ELSE f.pass2)
    OBVIOUS
  <2>2. t \in P
    BY <1>2, <1>4, <1>5, <2>1, TypedText
  <2>3. Typed(f, i, key) = [f EXCEPT !.pass2 = t]
    BY <1>1, <1>8, <2>1, SMTT(30) DEF Typed, Fields
  <2> QED
    BY <1>3, <2>2, <2>3
<1> QED
  BY <1>6, <1>7, <1>8

LEMMA Cleared ==
  /\ Empty \in Forms
  /\ \A f \in Forms : /\ [f EXCEPT !.pass = <<>>] \in Forms
                      /\ [f EXCEPT !.pass = <<>>, !.pass2 = <<>>] \in Forms
<1>1. ASSUME NEW max \in Nat \ {0} PROVE <<>> \in Texts(max)
  <2>1. <<>> \in Seq(Chars) /\ Len(<<>>) = 0
    OBVIOUS
  <2>2. <<>> \in [1 .. 0 -> Chars] /\ 0 \in 0 .. max - 1
    BY <2>1, LenProperties
  <2> QED
    BY <2>2 DEF Texts
<1>2. PICK N, P : N = Texts(LOGIN_USERNAME_MAX) /\ P = Texts(LOGIN_PASSWORD_MAX)
  OBVIOUS
<1>3. Forms = [name : N, pass : P, pass2 : P]
  BY <1>2 DEF Forms
<1>4. <<>> \in N /\ <<>> \in P
  BY <1>1, <1>2, LoginAssumption
<1> QED
  BY <1>3, <1>4 DEF Empty

LEMMA LoginStarts == LoginInit => LoginInv
<1> SUFFICES ASSUME LoginInit PROVE LoginInv
  OBVIOUS
<1>1. Len(<<>>) = 0 /\ <<>> \in Seq(Forms) /\ DOMAIN <<>> = {}
  OBVIOUS
<1>2. LoginTypeOK
  <2>1. /\ screen = "setup" /\ user_db = <<>>
        /\ form = Empty /\ focus = 0 /\ prev_btn = FALSE /\ user = Empty
    BY DEF LoginInit
  <2>2. screen \in Screens /\ prev_btn \in BOOLEAN
    BY <2>1, Zenon DEF Screens
  <2>5. focus \in 0 .. 2
    BY <2>1
  <2>3. user_db \in Seq(Forms)
    BY <1>1, <2>1
  <2>4. form \in Forms /\ user \in Forms
    BY <2>1, Cleared, Zenon
  <2> QED
    BY <2>2, <2>3, <2>4, <2>5 DEF LoginTypeOK
<1>3. OnlyUsers
  <2>1. screen = "setup" /\ user_db = <<>>
    BY DEF LoginInit
  <2> QED
    BY <1>1, <2>1 DEF OnlyUsers
<1> QED
  BY <1>2, <1>3 DEF LoginInv

(* A focus stays on a field of the form.                                   *)
LEMMA MovedTrue ==
  ASSUME NEW i \in 0 .. 2, NEW key
  PROVE  Moved(i, key) \in 0 .. 2
<1>1. FieldCount \in {2, 3}
  BY DEF FieldCount
<1>2. (i + 1) % FieldCount \in 0 .. 2 /\ (i - 1) % FieldCount \in 0 .. 2
  <2>1. PICK n \in {2, 3} : n = FieldCount
    BY <1>1
  <2>2. (i + 1) % n \in 0 .. 2
    BY <2>1
  <2>3. (i - 1) % n \in 0 .. 2
    BY <2>1
  <2> QED
    BY <2>1, <2>2, <2>3, Zenon
<1>3. 0 \in 0 .. 2 /\ 1 \in 0 .. 2
  OBVIOUS
<1>4. CASE key = "TAB" \/ (key = "DOWN" /\ screen = "setup")
  <2>1. ~(key = "UP" /\ screen = "setup") /\ ~(key = "UP" /\ screen = "login")
        /\ ~(key = "DOWN" /\ screen = "login")
    BY <1>4
  <2> QED
    BY <1>2, <1>4, <2>1, Zenon DEF Moved
<1>5. CASE key = "UP" /\ screen = "setup"
  <2>1. ~(key = "TAB" \/ (key = "DOWN" /\ screen = "setup"))
        /\ ~(key = "UP" /\ screen = "login") /\ ~(key = "DOWN" /\ screen = "login")
    BY <1>5
  <2> QED
    BY <1>2, <1>5, <2>1, Zenon DEF Moved
<1>6. CASE key = "UP" /\ screen = "login"
  <2>1. ~(key = "TAB" \/ (key = "DOWN" /\ screen = "setup"))
        /\ ~(key = "UP" /\ screen = "setup") /\ ~(key = "DOWN" /\ screen = "login")
    BY <1>6
  <2> QED
    BY <1>3, <1>6, <2>1, Zenon DEF Moved
<1>7. CASE key = "DOWN" /\ screen = "login"
  <2>1. ~(key = "TAB" \/ (key = "DOWN" /\ screen = "setup"))
        /\ ~(key = "UP" /\ screen = "setup") /\ ~(key = "UP" /\ screen = "login")
    BY <1>7
  <2> QED
    BY <1>3, <1>7, <2>1, Zenon DEF Moved
<1>8. CASE /\ ~(key = "TAB" \/ (key = "DOWN" /\ screen = "setup"))
           /\ ~(key = "UP" /\ screen = "setup") /\ ~(key = "UP" /\ screen = "login")
           /\ ~(key = "DOWN" /\ screen = "login")
  <2>1. Moved(i, key) = i
    BY <1>8, Zenon DEF Moved
  <2> QED
    BY <2>1
<1> QED
  BY <1>4, <1>5, <1>6, <1>7, <1>8, Zenon
(* What a frame of the forms does: the screen, the users and the session   *)
(* stay, or the one user is stored, or a stored user enters the desktop.   *)
LEMMA LoginCases ==
  ASSUME LoginInv,
         \/ LoginNext
         \/ \E to \in {"login", "off"} : Leave(to)
  PROVE  /\ form' \in Forms /\ focus' \in 0 .. 2 /\ prev_btn' \in BOOLEAN
         /\ \/ UNCHANGED <<screen, user_db, user>>
            \/ /\ screen = "setup" /\ screen' = "login" /\ UNCHANGED user
               /\ user_db' = Append(user_db, form)
               /\ form.name # <<>> /\ form.pass # <<>> /\ form.pass = form.pass2
            \/ /\ screen = "login" /\ screen' = "desktop" /\ UNCHANGED user_db
               /\ user' = form
               /\ \E i \in DOMAIN user_db : CheckLogin(user_db[i])
            \/ /\ screen = "desktop" /\ screen' \in {"login", "off"} /\ UNCHANGED user_db
               /\ user' = Empty
<1>1. form \in Forms /\ focus \in 0 .. 2 /\ prev_btn \in BOOLEAN
  BY DEF LoginInv, LoginTypeOK
<1>2. ASSUME NEW s, Fresh(s) PROVE form' \in Forms /\ focus' \in 0 .. 2 /\ prev_btn' \in BOOLEAN
  <2>1. form' = Empty /\ focus' = 0 /\ prev_btn' = FALSE
    BY <1>2 DEF Fresh
  <2>2. form' \in Forms /\ prev_btn' \in BOOLEAN
    BY <2>1, Cleared, Zenon
  <2>3. focus' \in 0 .. 2
    BY <2>1
  <2> QED
    BY <2>2, <2>3
<1>3. ASSUME NEW btn \in BOOLEAN, NEW key, Refused(btn, key)
      PROVE  /\ form' \in Forms /\ focus' \in 0 .. 2 /\ prev_btn' \in BOOLEAN
             /\ UNCHANGED <<screen, user_db, user>>
  <2>1. PICK f \in Forms : f = [form EXCEPT !.pass = <<>>, !.pass2 = <<>>]
    BY <1>1, Cleared, Zenon
  <2>2. form' = Typed(f, 1, key) /\ focus' = Moved(1, key) /\ prev_btn' = btn
    BY <1>3, <2>1, Zenon DEF Refused
  <2>3. 1 \in 0 .. 2
    OBVIOUS
  <2>4. form' \in Forms /\ focus' \in 0 .. 2
    BY <2>2, <2>3, TypedForm, MovedTrue, Zenon
  <2> QED
    BY <1>3, <2>2, <2>4, Zenon DEF Refused
<1>4. ASSUME UsersAdd, Confirmed(form.pass2), screen = "setup"
      PROVE  /\ form' \in Forms /\ focus' \in 0 .. 2 /\ prev_btn' \in BOOLEAN
             /\ screen = "setup" /\ screen' = "login" /\ UNCHANGED user
             /\ user_db' = Append(user_db, form)
             /\ form.name # <<>> /\ form.pass # <<>> /\ form.pass = form.pass2
  <2>1. Fresh("login") /\ UNCHANGED user /\ user_db' = Append(user_db, form)
    BY <1>4 DEF UsersAdd
  <2>2. screen' = "login"
    BY <2>1 DEF Fresh
  <2> QED
    BY <1>2, <1>4, <2>1, <2>2, Zenon DEF Confirmed
<1>5. ASSUME NEW btn \in BOOLEAN, NEW spot \in 0 .. 3, NEW key \in Keys, Edit(btn, spot, key)
      PROVE  /\ form' \in Forms /\ focus' \in 0 .. 2 /\ prev_btn' \in BOOLEAN
             /\ UNCHANGED <<screen, user_db, user>>
  <2>1. PICK i : i = IF Clicked(btn) /\ spot < FieldCount THEN spot ELSE focus
    OBVIOUS
  <2>2. i \in 0 .. 2
    <3>1. FieldCount \in {2, 3}
      BY DEF FieldCount
    <3>2. CASE Clicked(btn) /\ spot < FieldCount
      BY <2>1, <3>1, <3>2
    <3>3. CASE ~(Clicked(btn) /\ spot < FieldCount)
      BY <1>1, <2>1, <3>3
    <3> QED
      BY <3>2, <3>3, Zenon
  <2>3. focus' = Moved(i, key) /\ form' = Typed(form, i, key) /\ prev_btn' = btn
    BY <1>5, <2>1, Zenon DEF Edit
  <2>4. form' \in Forms /\ focus' \in 0 .. 2
    BY <1>1, <2>2, <2>3, TypedForm, MovedTrue, Zenon
  <2> QED
    BY <1>5, <2>3, <2>4, Zenon DEF Edit
<1>6. ASSUME NEW btn \in BOOLEAN, NEW key \in Keys, CreateByButton(btn, key)
      PROVE  \/ UsersAdd /\ Confirmed(form.pass2) /\ screen = "setup"
             \/ Refused(btn, key)
  BY <1>6, Zenon DEF CreateByButton
<1>7. ASSUME NEW btn \in BOOLEAN, CreateByEnter(btn)
      PROVE  \/ UsersAdd /\ Confirmed(form.pass2) /\ screen = "setup"
             \/ Refused(btn, "")
  BY <1>7, Zenon DEF CreateByEnter
<1>8. ASSUME NEW btn \in BOOLEAN, DoLogin(btn)
      PROVE  /\ form' \in Forms /\ focus' \in 0 .. 2 /\ prev_btn' \in BOOLEAN
             /\ \/ UNCHANGED <<screen, user_db, user>>
                \/ /\ screen = "login" /\ screen' = "desktop" /\ UNCHANGED user_db
                   /\ user' = form
                   /\ \E i \in DOMAIN user_db : CheckLogin(user_db[i])
  <2>1. CASE \E i \in DOMAIN user_db : CheckLogin(user_db[i])
    <3>1. screen = "login" /\ user' = form /\ Fresh("desktop") /\ UNCHANGED user_db
      BY <1>8, <2>1, Zenon DEF DoLogin
    <3>2. screen' = "desktop"
      BY <3>1 DEF Fresh
    <3> QED
      BY <1>2, <2>1, <3>1, <3>2, Zenon
  <2>2. CASE ~(\E i \in DOMAIN user_db : CheckLogin(user_db[i]))
    <3>1. /\ form' = [form EXCEPT !.pass = <<>>] /\ focus' = 0 /\ prev_btn' = btn
          /\ UNCHANGED <<screen, user_db, user>>
      BY <1>8, <2>2, Zenon DEF DoLogin
    <3>2. form' \in Forms
      BY <1>1, <3>1, Cleared, Zenon
    <3> QED
      BY <3>1, <3>2
  <2> QED
    BY <2>1, <2>2, Zenon
<1>9. ASSUME NEW to \in {"login", "off"}, Leave(to)
      PROVE  /\ form' \in Forms /\ focus' \in 0 .. 2 /\ prev_btn' \in BOOLEAN
             /\ screen = "desktop" /\ screen' \in {"login", "off"} /\ UNCHANGED user_db
             /\ user' = Empty
  <2>1. screen = "desktop" /\ Fresh(to) /\ user' = Empty /\ UNCHANGED user_db
    BY <1>9 DEF Leave
  <2>2. screen' = to
    BY <2>1 DEF Fresh
  <2> QED
    BY <1>2, <2>1, <2>2, Zenon
<1>10. CASE LoginNext
  <2>1. PICK btn \in BOOLEAN :
          \/ \E spot \in 0 .. 3, key \in Keys : Edit(btn, spot, key)
          \/ \E key \in Keys : CreateByButton(btn, key)
          \/ CreateByEnter(btn) \/ DoLogin(btn)
    BY <1>10, Zenon DEF LoginNext
  <2> QED
    BY <1>3, <1>4, <1>5, <1>6, <1>7, <1>8, <2>1, ZenonT(30)
<1> QED
  BY <1>9, <1>10, Zenon

LEMMA LoginStep ==
  ASSUME LoginInv,
         \/ LoginNext
         \/ \E to \in {"login", "off"} : Leave(to)
  PROVE  LoginInv'
<1>1. /\ screen \in Screens /\ user_db \in Seq(Forms) /\ form \in Forms /\ user \in Forms
      /\ OnlyUsers
  BY DEF LoginInv, LoginTypeOK
<1>2. form' \in Forms /\ focus' \in 0 .. 2 /\ prev_btn' \in BOOLEAN
  BY LoginCases, Zenon
<1>3. CASE UNCHANGED <<screen, user_db, user>>
  BY <1>1, <1>2, <1>3 DEF LoginInv, LoginTypeOK, OnlyUsers
<1>4. CASE /\ screen = "setup" /\ screen' = "login" /\ UNCHANGED user
           /\ user_db' = Append(user_db, form)
           /\ form.name # <<>> /\ form.pass # <<>> /\ form.pass = form.pass2
  <2>1. Len(user_db) = 0
    BY <1>1, <1>4 DEF OnlyUsers
  <2>2. /\ user_db' \in Seq(Forms) /\ Len(user_db') = 1 /\ user_db'[1] = form
    BY <1>1, <1>4, <2>1, AppendProperties
  <2>3. DOMAIN user_db' = {1}
    BY <2>2
  <2>4. OnlyUsers'
    BY <1>4, <2>2, <2>3 DEF OnlyUsers
  <2>5. LoginTypeOK'
    BY <1>1, <1>2, <1>4, <2>2 DEF LoginTypeOK, Screens
  <2> QED
    BY <2>4, <2>5 DEF LoginInv
<1>5. CASE /\ screen = "login" /\ screen' = "desktop" /\ UNCHANGED user_db
           /\ user' = form
           /\ \E i \in DOMAIN user_db : CheckLogin(user_db[i])
  <2>1. LoginTypeOK'
    BY <1>1, <1>2, <1>5 DEF LoginTypeOK, Screens
  <2>2. OnlyUsers'
    BY <1>1, <1>5 DEF OnlyUsers, CheckLogin
  <2> QED
    BY <2>1, <2>2 DEF LoginInv
<1>6. CASE /\ screen = "desktop" /\ screen' \in {"login", "off"} /\ UNCHANGED user_db
           /\ user' = Empty
  <2>1. user' \in Forms
    BY <1>6, Cleared, Zenon
  <2>2. LoginTypeOK'
    BY <1>1, <1>2, <1>6, <2>1 DEF LoginTypeOK, Screens
  <2>3. OnlyUsers'
    BY <1>1, <1>6 DEF OnlyUsers
  <2> QED
    BY <2>2, <2>3 DEF LoginInv
<1> QED
  BY <1>3, <1>4, <1>5, <1>6, LoginCases, Zenon
-----------------------------------------------------------------------------
(* The windows                                                             *)

(* Each application has one window; one has the focus while any is open,   *)
(* and no other has it until a window behind it is closed; one is dragged. *)
AppsTrue ==
  /\ running \in [AppSlots -> Apps \cup {None}]
  /\ focused \subseteq AppSlots /\ dragging \subseteq AppSlots /\ pushedBack \in BOOLEAN
  /\ \A i, j \in Open : running[i] = running[j] => i = j
  /\ Open # {} => focused \cap Open # {}
  /\ pushedBack \/ \A i, j \in focused \cap Open : i = j
  /\ \A i, j \in dragging \cap Open : i = j

ClickTypeOK ==
  /\ phase \in {"poll", "context", "windows", "desktop"} /\ ended \in Endings
  /\ cur_btn \in BOOLEAN /\ last_clicked \in BOOLEAN /\ right_click \in BOOLEAN
  /\ clicked \in BOOLEAN /\ start_open \in BOOLEAN /\ ctx_open \in BOOLEAN

(* What a click has acted on, as far as the frame has come.                *)
OnWindows == {{}, {"context"}, {"window"}, {"context", "window"}}
OnDesktop == {{"start"}, {"icon"}, {"outside"}, {"menu"}}
ClickTrue ==
  /\ acted \in OnWindows \cup OnDesktop
  /\ phase = "context" => acted = {}
  /\ phase = "windows" => acted = {} \/ (acted = {"context"} /\ ~clicked)
  /\ phase = "desktop" => acted \in OnWindows /\ (clicked => acted = {})
  /\ ended # "running" => phase = "poll" /\ acted = {"menu"}

WinInv == AppsTrue /\ ClickTypeOK /\ ClickTrue

(* The windows are numbered from 0, so that a set of them has a first and  *)
(* a last one.                                                             *)
Less == {ss \in Nat \X Nat : ss[1] < ss[2]}

LEMMA LeastNumber ==
  ASSUME NEW T, T \subseteq Nat, T # {}
  PROVE  \E x \in T : \A y \in T : x <= y
<1>1. IsWellFoundedOn({ss \in Nat \X Nat : ss[1] < ss[2]}, Nat)
  BY NatLessThanWellFounded DEF OpToRel
<1>2. IsWellFoundedOn(Less, Nat)
  BY <1>1 DEF Less
<1>3. PICK x \in T : \A y \in T : ~(<<y, x>> \in Less)
  BY <1>2, WFMin
<1>4. ASSUME NEW y \in T PROVE x <= y
  <2>1. x \in Nat /\ y \in Nat
    OBVIOUS
  <2>2. <<y, x>> \in Less <=> y < x
    BY <2>1 DEF Less
  <2> QED
    BY <1>3, <2>1, <2>2
<1> QED
  BY <1>4

LEMMA FirstAndLast ==
  ASSUME NEW S, S \subseteq AppSlots, S # {}
  PROVE  Min(S) \in S /\ Max(S) \in S
<1>1. PICK n \in Nat : n = APP_MAX_RUNNING
  BY WindowsAssumption
<1>2. S \subseteq 0 .. n - 1
  BY <1>1 DEF AppSlots
<1>3. \E x \in S : \A y \in S : x <= y
  <2>1. S \subseteq Nat
    BY <1>2
  <2> QED
    BY <2>1, LeastNumber, Zenon
<1>4. \E x \in S : \A y \in S : x >= y
  <2>1. PICK T : T = {(n - 1) - x : x \in S}
    OBVIOUS
  <2>2. T \subseteq Nat /\ T # {}
    <3>1. \A x \in S : x \in Int /\ (n - 1) - x \in Nat
      BY <1>2
    <3>2. \E x : x \in S
      OBVIOUS
    <3> QED
      BY <2>1, <3>1, <3>2, Zenon
  <2>3. PICK t \in T : \A u \in T : t <= u
    BY <2>2, LeastNumber, Zenon
  <2>4. PICK x \in S : t = (n - 1) - x
    BY <2>1
  <2>5. ASSUME NEW y \in S PROVE x >= y
    <3>1. (n - 1) - x <= (n - 1) - y
      BY <2>1, <2>3, <2>4
    <3>2. x \in Int /\ y \in Int
      BY <1>2
    <3> QED
      BY <3>1, <3>2
  <2> QED
    BY <2>5
<1>5. Min(S) \in S
  BY <1>3, Zenon DEF Min
<1>6. Max(S) \in S
  BY <1>4, Zenon DEF Max
<1> QED
  BY <1>5, <1>6

LEMMA AtMostOne ==
  ASSUME NEW S, \A x, y \in S : x = y
  PROVE  Cardinality(S) <= 1
<1>1. CASE S = {}
  BY <1>1, FS_EmptySet
<1>2. CASE S # {}
  <2>1. PICK x : x \in S
    BY <1>2
  <2>2. S = {x}
    BY <2>1
  <2>3. Cardinality({x}) = 1
    BY FS_Singleton
  <2> QED
    BY <2>2, <2>3
<1> QED
  BY <1>1, <1>2

LEMMA AppsStart ==
  ASSUME running = [i \in AppSlots |-> None], focused = {}, dragging = {}, pushedBack = FALSE
  PROVE  AppsTrue
<1>1. Open = {}
  BY DEF Open
<1> QED
  BY <1>1 DEF AppsTrue

LEMMA LaunchTrue ==
  ASSUME AppsTrue, NEW name \in Apps, Launch(name)
  PROVE  AppsTrue'
<1>1. /\ running \in [AppSlots -> Apps \cup {None}] /\ focused \subseteq AppSlots
      /\ dragging \subseteq AppSlots
      /\ \A i, j \in Open : running[i] = running[j] => i = j
      /\ \A i, j \in dragging \cap Open : i = j
      /\ Open \subseteq AppSlots /\ name # None
  BY WindowsAssumption DEF AppsTrue, Open
<1>2. CASE \E i \in Open : running[i] = name
  <2>1. PICK i \in Open : i = CHOOSE j \in Open : running[j] = name
    BY <1>2, Zenon
  <2>2. /\ focused' = {i} /\ pushedBack' = FALSE /\ UNCHANGED <<running, dragging>>
    BY <1>2, <2>1, Zenon DEF Launch, FocusOn
  <2>3. Open' = Open
    BY <2>2 DEF Open
  <2> QED
    BY <1>1, <2>2, <2>3 DEF AppsTrue
<1>3. CASE ~(\E i \in Open : running[i] = name) /\ AppSlots \ Open = {}
  <2>1. UNCHANGED appVars
    BY <1>3, Zenon DEF Launch
  <2> QED
    BY <2>1 DEF AppsTrue, appVars, Open
<1>4. CASE ~(\E i \in Open : running[i] = name) /\ AppSlots \ Open # {}
  <2>1. PICK m : m = Min(AppSlots \ Open)
    OBVIOUS
  <2>2. m \in AppSlots \ Open
    <3>1. AppSlots \ Open \subseteq AppSlots
      OBVIOUS
    <3> QED
      BY <1>4, <2>1, <3>1, FirstAndLast, Zenon
  <2>3. /\ running' = [running EXCEPT ![m] = name] /\ dragging' = dragging \ {m}
        /\ focused' = {m} /\ pushedBack' = FALSE
    BY <1>4, <2>1, Zenon DEF Launch, FocusOn
  <2>4. Open' = Open \cup {m}
    BY <1>1, <2>2, <2>3 DEF Open
  <2>5. running' \in [AppSlots -> Apps \cup {None}]
    BY <1>1, <2>2, <2>3
  <2>6. \A i, j \in Open' : running'[i] = running'[j] => i = j
    BY <1>1, <1>4, <2>2, <2>3, <2>4
  <2> QED
    BY <1>1, <2>2, <2>3, <2>4, <2>5, <2>6 DEF AppsTrue
<1> QED
  BY <1>2, <1>3, <1>4, Zenon

LEMMA CloseTrue ==
  ASSUME AppsTrue, NEW i \in Open, AppClose(i), dragging' = dragging \ Open
  PROVE  AppsTrue'
<1>1. /\ running \in [AppSlots -> Apps \cup {None}] /\ focused \subseteq AppSlots
      /\ dragging \subseteq AppSlots
      /\ \A j, k \in Open : running[j] = running[k] => j = k
      /\ pushedBack \/ \A j, k \in focused \cap Open : j = k
      /\ Open \subseteq AppSlots /\ pushedBack \in BOOLEAN
  BY DEF AppsTrue, Open
<1>2. PICK left : left = Open \ {i}
  OBVIOUS
<1>3. /\ running' = [running EXCEPT ![i] = None]
      /\ focused' = focused \cup (IF left = {} THEN {} ELSE {Max(left)})
      /\ pushedBack' = (pushedBack \/ i \notin focused)
  BY <1>2, Zenon DEF AppClose
<1>4. Open' = left
  BY <1>1, <1>2, <1>3 DEF Open
<1>5. running' \in [AppSlots -> Apps \cup {None}]
  BY <1>1, <1>3
<1>6. \A j, k \in Open' : running'[j] = running'[k] => j = k
  BY <1>1, <1>2, <1>3, <1>4
<1>7. \A j, k \in dragging' \cap Open' : j = k
  BY <1>2, <1>4
<1>8. pushedBack' \in BOOLEAN
  BY <1>1, <1>3, Zenon
<1>9. CASE left = {}
  <2>1. focused' = focused
    BY <1>3, <1>9
  <2> QED
    BY <1>1, <1>4, <1>5, <1>6, <1>7, <1>8, <1>9, <2>1 DEF AppsTrue
<1>10. CASE left # {}
  <2>1. PICK m : m = Max(left)
    OBVIOUS
  <2>2. left \subseteq AppSlots
    BY <1>1, <1>2
  <2>3. m \in left
    BY <1>10, <2>1, <2>2, FirstAndLast, Zenon
  <2>4. focused' = focused \cup {m}
    BY <1>3, <1>10, <2>1
  <2>5. ASSUME ~pushedBack' PROVE \A j, k \in focused' \cap Open' : j = k
    <3>1. i \in focused /\ \A j, k \in focused \cap Open : j = k
      BY <1>1, <1>3, <2>5, Zenon
    <3>2. focused \cap left = {}
      BY <1>2, <3>1
    <3> QED
      BY <1>4, <2>4, <3>2
  <2>6. focused' \cap Open' # {} /\ focused' \subseteq AppSlots
    BY <1>1, <1>4, <2>2, <2>3, <2>4
  <2>7. dragging' \subseteq AppSlots
    BY <1>1
  <2> QED
    BY <1>5, <1>6, <1>7, <1>8, <2>5, <2>6, <2>7, Zenon DEF AppsTrue
<1> QED
  BY <1>9, <1>10, Zenon

(* A window gets the focus, and the others are let go.                     *)
LEMMA FocusTrue ==
  ASSUME AppsTrue, NEW i \in Open, FocusOn(i), UNCHANGED running,
         \A j, k \in dragging' \cap Open : j = k, dragging' \subseteq AppSlots
  PROVE  AppsTrue'
<1>1. focused' = {i} /\ pushedBack' = FALSE
  BY DEF FocusOn
<1>2. Open' = Open /\ Open \subseteq AppSlots
  BY DEF Open
<1> QED
  BY <1>1, <1>2 DEF AppsTrue

LEMMA AppsStay ==
  ASSUME AppsTrue, UNCHANGED <<running, focused, pushedBack>>, dragging' \subseteq dragging
  PROVE  AppsTrue'
<1>1. Open' = Open
  BY DEF Open
<1> QED
  BY <1>1 DEF AppsTrue

(* The front window under the pointer is one of those under the pointer.   *)
LEMMA TopmostTrue ==
  ASSUME NEW under, under \subseteq AppSlots, under # {}
  PROVE  Topmost(under) \in under
<1>1. CASE under \cap focused # {}
  <2>1. under \cap focused \subseteq AppSlots
    OBVIOUS
  <2>2. Max(under \cap focused) \in under \cap focused
    BY <1>1, <2>1, FirstAndLast, Zenon
  <2> QED
    BY <1>1, <2>2, Zenon DEF Topmost
<1>2. CASE under \cap focused = {}
  <2>1. Max(under) \in under
    BY FirstAndLast, Zenon
  <2> QED
    BY <1>2, <2>1, Zenon DEF Topmost
<1> QED
  BY <1>1, <1>2

LEMMA WinStarts == WinInit => WinInv
<1> SUFFICES ASSUME WinInit PROVE WinInv
  OBVIOUS
<1>1. AppsTrue
  BY AppsStart, Zenon DEF WinInit
<1>2. ClickTypeOK
  BY DEF WinInit, ClickTypeOK, Endings
<1>3. ClickTrue
  BY DEF WinInit, ClickTrue, OnWindows
<1> QED
  BY <1>1, <1>2, <1>3 DEF WinInv

LEMMA WinRestarts == WinInv /\ AppInit => WinInv'
<1> SUFFICES ASSUME WinInv, AppInit PROVE WinInv'
  OBVIOUS
<1>1. AppsTrue'
  <2>1. /\ running' = [i \in AppSlots |-> None] /\ focused' = {} /\ dragging' = {}
        /\ pushedBack' = FALSE
    BY DEF AppInit
  <2>2. Open' = {}
    BY <2>1 DEF Open
  <2> QED
    BY <2>1, <2>2 DEF AppsTrue
<1>2. ClickTypeOK'
  BY DEF WinInv, AppInit, ClickTypeOK, Endings
<1>3. ClickTrue'
  BY DEF AppInit, ClickTrue, OnWindows
<1> QED
  BY <1>1, <1>2, <1>3 DEF WinInv

LEMMA AppsSame == AppsTrue /\ UNCHANGED appVars => AppsTrue'
<1> SUFFICES ASSUME AppsTrue, UNCHANGED appVars PROVE AppsTrue'
  OBVIOUS
<1>1. UNCHANGED <<running, focused, dragging, pushedBack>>
  BY DEF appVars
<1>2. dragging' \subseteq dragging
  BY <1>1
<1> QED
  BY <1>1, <1>2, AppsStay, Zenon

LEMMA ContextStep == WinInv /\ Context => WinInv'
<1> SUFFICES ASSUME WinInv, Context PROVE WinInv'
  OBVIOUS
<1>1. /\ ClickTypeOK /\ ClickTrue /\ AppsTrue
      /\ clicked \in BOOLEAN /\ ctx_open \in BOOLEAN
  BY DEF WinInv, ClickTypeOK
<1>2. phase = "context" /\ phase' = "windows" /\ UNCHANGED <<inputVars, start_open, ended>>
  BY DEF Context
<1>3. PICK free \in BOOLEAN, item \in {"text", "terminal", "beside"} :
        LET open == ctx_open \/ (right_click /\ ~start_open /\ free)
            used == open /\ clicked /\ item # "beside"
        IN /\ ctx_open' = (open /\ ~clicked)
           /\ clicked'  = (clicked /\ ~used)
           /\ acted'    = IF used THEN {"context"} ELSE {}
           /\ IF used /\ item = "terminal" THEN Launch(Terminal) ELSE UNCHANGED appVars
  BY Zenon DEF Context
<1>4. PICK open, used :
        /\ open = (ctx_open \/ (right_click /\ ~start_open /\ free))
        /\ used = (open /\ clicked /\ item # "beside")
        /\ ctx_open' = (open /\ ~clicked)
        /\ clicked'  = (clicked /\ ~used)
        /\ acted'    = IF used THEN {"context"} ELSE {}
        /\ IF used /\ item = "terminal" THEN Launch(Terminal) ELSE UNCHANGED appVars
  BY <1>3, Zenon
<1>5. AppsTrue'
  <2>1. Launch(Terminal) \/ UNCHANGED appVars
    BY <1>4, Zenon
  <2>2. Terminal \in Apps
    BY WindowsAssumption
  <2> QED
    BY <1>1, <2>1, <2>2, LaunchTrue, AppsSame, Zenon
<1>6. clicked' \in BOOLEAN /\ ctx_open' \in BOOLEAN
  BY <1>4, Zenon
<1>7. ClickTypeOK'
  <2>1. UNCHANGED <<cur_btn, last_clicked, right_click, start_open, ended>>
    BY <1>2 DEF inputVars
  <2> QED
    BY <1>1, <1>2, <1>6, <2>1 DEF ClickTypeOK
<1>8. acted' = {} \/ (acted' = {"context"} /\ ~clicked')
  BY <1>4, Zenon
<1>9. ended = "running" /\ ended' = ended
  BY <1>1, <1>2 DEF ClickTrue
<1>10. ClickTrue'
  BY <1>2, <1>8, <1>9 DEF ClickTrue, OnWindows
<1> QED
  BY <1>5, <1>7, <1>10 DEF WinInv

LEMMA PollStep == WinInv /\ Poll => WinInv'
<1> SUFFICES ASSUME WinInv, Poll PROVE WinInv'
  OBVIOUS
<1>1. ClickTypeOK /\ AppsTrue /\ start_open \in BOOLEAN /\ ctx_open \in BOOLEAN
  BY DEF WinInv, ClickTypeOK
<1>2. /\ phase' = "context" /\ ended = "running" /\ UNCHANGED ended /\ UNCHANGED appVars
      /\ cur_btn' \in BOOLEAN /\ right_click' \in BOOLEAN
      /\ last_clicked' \in BOOLEAN /\ clicked' = last_clicked' /\ acted' = {}
  BY DEF Poll
<1>3. start_open' \in BOOLEAN /\ ctx_open' \in BOOLEAN
  BY Zenon DEF Poll
<1>4. AppsTrue'
  BY <1>1, <1>2, AppsSame, Zenon
<1>5. ClickTypeOK'
  BY <1>2, <1>3 DEF ClickTypeOK, Endings
<1>6. ClickTrue'
  BY <1>2 DEF ClickTrue, OnWindows
<1> QED
  BY <1>4, <1>5, <1>6 DEF WinInv

(* What acts on the windows is one step, and the only one of its frame     *)
(* unless the context menu lay over the window.                            *)
LEMMA WindowsStep ==
  ASSUME WinInv, NEW under \in SUBSET AppSlots, NEW part \in {"close", "title", "body"},
         Drag \/ NoWindow \/ ClickWindow(under, part)
  PROVE  WinInv'
<1>1. ClickTypeOK /\ AppsTrue /\ ClickTrue
  BY DEF WinInv
<1>2. phase = "windows" /\ phase' = "desktop"
  BY DEF Drag, NoWindow, ClickWindow
<1>3. /\ ended' = ended /\ UNCHANGED <<start_open, ctx_open>>
      /\ UNCHANGED <<cur_btn, last_clicked, right_click>>
  <2>1. UNCHANGED <<inputVars, start_open, ctx_open, ended>>
    BY DEF Drag, NoWindow, ClickWindow
  <2> QED
    BY <2>1 DEF inputVars
<1>4. ended = "running" /\ (acted = {} \/ (acted = {"context"} /\ ~clicked))
  BY <1>1, <1>2 DEF ClickTrue
<1>5. \/ clicked' = FALSE /\ acted' \in {acted, acted \cup {"window"}}
      \/ UNCHANGED <<clicked, acted>>
  BY Zenon DEF Drag, NoWindow, ClickWindow
<1>6. ClickTypeOK'
  <2>1. clicked' \in BOOLEAN
    BY <1>1, <1>5, Zenon DEF ClickTypeOK
  <2> QED
    BY <1>1, <1>2, <1>3, <2>1 DEF ClickTypeOK
<1>7. ClickTrue'
  <2>1. acted' \in OnWindows /\ (clicked' => acted' = {})
    <3>1. CASE clicked' = FALSE /\ acted' \in {acted, acted \cup {"window"}}
      <4>1. acted \in {{}, {"context"}}
        BY <1>4
      <4>2. acted \in OnWindows /\ acted \cup {"window"} \in OnWindows
        BY <4>1 DEF OnWindows
      <4> QED
        BY <3>1, <4>2, Zenon
    <3>2. CASE UNCHANGED <<clicked, acted>>
      <4>1. acted \in OnWindows /\ (clicked => acted = {})
        BY <1>4 DEF OnWindows
      <4> QED
        BY <3>2, <4>1
    <3> QED
      BY <1>5, <3>1, <3>2, Zenon
  <2> QED
    BY <1>2, <1>3, <1>4, <2>1 DEF ClickTrue
<1>8. AppsTrue'
  <2>1. CASE Drag
    BY <1>1, <2>1, AppsSame, Zenon DEF Drag
  <2>2. CASE NoWindow
    <3>1. UNCHANGED <<running, focused, pushedBack>> /\ dragging' \subseteq dragging
      BY <2>2 DEF NoWindow
    <3> QED
      BY <1>1, <3>1, AppsStay, Zenon
  <2>3. CASE ClickWindow(under, part)
    <3>1. under # {} /\ under \subseteq Open /\ under \subseteq AppSlots
      BY <2>3 DEF ClickWindow
    <3>2. PICK i \in Open : i = Topmost(under)
      BY <3>1, TopmostTrue
    <3>3. dragging \subseteq AppSlots /\ i \in AppSlots
      BY <1>1 DEF AppsTrue, Open
    <3>4. CASE part = "close"
      <4>1. AppClose(i) /\ dragging' = dragging \ Open
        BY <2>3, <3>2, <3>4, Zenon DEF ClickWindow
      <4> QED
        BY <1>1, <4>1, CloseTrue, Zenon
    <3>5. CASE part # "close"
      <4>1. /\ FocusOn(i) /\ UNCHANGED running
            /\ dragging' = (dragging \ Open) \cup (IF part = "title" THEN {i} ELSE {})
        BY <2>3, <3>2, <3>5, Zenon DEF ClickWindow
      <4>2. (\A j, k \in dragging' \cap Open : j = k) /\ dragging' \subseteq AppSlots
        BY <3>3, <4>1
      <4> QED
        BY <1>1, <4>1, <4>2, FocusTrue, Zenon
    <3> QED
      BY <3>4, <3>5
  <2> QED
    BY <2>1, <2>2, <2>3
<1> QED
  BY <1>6, <1>7, <1>8 DEF WinInv

LEMMA EndStep ==
  ASSUME WinInv, NEW name \in Apps, NEW item \in {"about", "settings", "logout", "shutdown"},
         StartButton \/ Beside \/ NoClick \/ Icon(name) \/ MenuItem(item)
  PROVE  WinInv'
<1>1. ClickTypeOK /\ AppsTrue /\ ClickTrue
  BY DEF WinInv
<1>2. phase = "desktop" /\ phase' = "poll" /\ UNCHANGED <<inputVars, ctx_open>>
  BY DEF StartButton, Beside, NoClick, Icon, MenuItem, EndFrame
<1>3. UNCHANGED <<cur_btn, last_clicked, right_click, ctx_open>>
  BY <1>2 DEF inputVars
<1>4. ended = "running" /\ acted \in OnWindows /\ (clicked => acted = {})
  BY <1>1, <1>2 DEF ClickTrue
<1>5. clicked' \in BOOLEAN /\ start_open' \in BOOLEAN
  <2>1. clicked \in BOOLEAN /\ start_open \in BOOLEAN
    BY <1>1 DEF ClickTypeOK
  <2> QED
    BY <2>1, Zenon DEF StartButton, Beside, NoClick, Icon, MenuItem
<1>6. \/ UNCHANGED <<ended, acted>>
      \/ UNCHANGED ended /\ acted' \in OnDesktop
      \/ ended' \in Endings /\ acted' = {"menu"}
  <2>1. CASE NoClick
    BY <2>1 DEF NoClick
  <2>2. CASE StartButton
    <3>1. acted' = {} \cup {"start"} /\ UNCHANGED ended
      BY <1>4, <2>2, Zenon DEF StartButton
    <3> QED
      BY <3>1 DEF OnDesktop
  <2>3. CASE Beside
    <3>1. acted' = {} \cup {"outside"} /\ UNCHANGED ended
      BY <1>4, <2>3, Zenon DEF Beside
    <3> QED
      BY <3>1 DEF OnDesktop
  <2>4. CASE Icon(name)
    <3>1. acted' = {} \cup {"icon"} /\ UNCHANGED ended
      BY <1>4, <2>4, Zenon DEF Icon
    <3> QED
      BY <3>1 DEF OnDesktop
  <2>5. CASE MenuItem(item)
    <3>1. /\ acted' = {} \cup {"menu"}
          /\ ended' = IF item \in Endings THEN item ELSE ended
      BY <1>4, <2>5, Zenon DEF MenuItem
    <3>2. ended' \in Endings
      BY <1>4, <3>1 DEF Endings
    <3> QED
      BY <3>1, <3>2
  <2> QED
    BY <2>1, <2>2, <2>3, <2>4, <2>5, Zenon
<1>7. AppsTrue'
  <2>1. \/ UNCHANGED appVars
        \/ Launch(name)
        \/ Launch(Settings)
    BY Zenon DEF StartButton, Beside, NoClick, Icon, MenuItem
  <2>2. Settings \in Apps
    BY WindowsAssumption
  <2> QED
    BY <1>1, <2>1, <2>2, LaunchTrue, AppsSame, Zenon
<1>8. ended' \in Endings
  BY <1>1, <1>6 DEF ClickTypeOK
<1>9. ClickTypeOK'
  BY <1>1, <1>2, <1>3, <1>5, <1>8 DEF ClickTypeOK
<1>10. acted' \in OnWindows \cup OnDesktop /\ (ended' # "running" => acted' = {"menu"})
  BY <1>4, <1>6, Zenon DEF OnDesktop
<1>11. ClickTrue'
  BY <1>2, <1>10 DEF ClickTrue
<1> QED
  BY <1>7, <1>9, <1>11 DEF WinInv

LEMMA WinStep == WinInv /\ WinNext => WinInv'
<1> SUFFICES ASSUME WinInv, WinNext PROVE WinInv'
  OBVIOUS
<1>1. {} \in SUBSET AppSlots /\ "close" \in {"close", "title", "body"}
  OBVIOUS
<1>2. Settings \in Apps /\ "about" \in {"about", "settings", "logout", "shutdown"}
  BY WindowsAssumption
<1>3. CASE Poll \/ Context
  BY <1>3, PollStep, ContextStep, Zenon
<1>4. CASE Drag \/ NoWindow
  BY <1>1, <1>4, WindowsStep, Zenon
<1>5. CASE \E under \in SUBSET AppSlots, part \in {"close", "title", "body"} : ClickWindow(under, part)
  BY <1>5, WindowsStep, Zenon
<1>6. CASE StartButton \/ Beside \/ NoClick
  BY <1>2, <1>6, EndStep, Zenon
<1>7. CASE \E name \in Apps : Icon(name)
  BY <1>2, <1>7, EndStep, Zenon
<1>8. CASE \E item \in {"about", "settings", "logout", "shutdown"} : MenuItem(item)
  BY <1>2, <1>8, EndStep, Zenon
<1> QED
  BY <1>3, <1>4, <1>5, <1>6, <1>7, <1>8, Zenon DEF WinNext

LEMMA WinFacts == WinInv => WinTypeOK /\ WindowsTrue
<1> SUFFICES ASSUME WinInv PROVE WinTypeOK /\ WindowsTrue
  OBVIOUS
<1>1. AppsTrue /\ ClickTypeOK /\ ClickTrue
  BY DEF WinInv
<1>2. acted \in OnWindows \cup OnDesktop
  BY <1>1 DEF ClickTrue
<1>3. WinTypeOK
  <2>1. acted \subseteq {"context", "window", "start", "outside", "icon", "menu"}
    BY <1>2 DEF OnWindows, OnDesktop
  <2>2. {cur_btn, last_clicked, right_click, clicked, start_open, ctx_open, pushedBack} \subseteq BOOLEAN
    BY <1>1, Zenon DEF ClickTypeOK, AppsTrue
  <2> QED
    BY <1>1, <2>1, <2>2, Zenon DEF WinTypeOK, ClickTypeOK, AppsTrue
<1>4. Cardinality(acted) <= 1 \/ acted = {"context", "window"}
  <2>1. CASE acted # {"context", "window"}
    <3>1. \A x, y \in acted : x = y
      BY <1>2, <2>1 DEF OnWindows, OnDesktop
    <3> QED
      BY <3>1, AtMostOne, Zenon
  <2> QED
    BY <2>1
<1>5. ended # "running" => acted = {"menu"}
  BY <1>1 DEF ClickTrue
<1>6. Cardinality(dragging \cap Open) <= 1
  BY <1>1, AtMostOne, Zenon DEF AppsTrue
<1>7. Cardinality(focused \cap Open) > 1 => pushedBack
  <2>1. CASE \A i, j \in focused \cap Open : i = j
    <3>1. Cardinality(focused \cap Open) <= 1
      BY <2>1, AtMostOne, Zenon
    <3>2. focused \cap Open \subseteq AppSlots /\ IsFiniteSet(AppSlots)
      BY WindowsAssumption, FS_Interval DEF Open, AppSlots
    <3>3. Cardinality(focused \cap Open) \in Nat
      BY <3>2, FS_Subset, FS_CardinalityType
    <3> QED
      BY <3>1, <3>3
  <2> QED
    BY <1>1, <2>1, Zenon DEF AppsTrue
<1>8. /\ \A i, j \in Open : running[i] = running[j] => i = j
      /\ Open # {} => focused \cap Open # {}
  BY <1>1 DEF AppsTrue
<1> QED
  BY <1>3, <1>4, <1>5, <1>6, <1>7, <1>8, Zenon DEF WindowsTrue

-----------------------------------------------------------------------------
(* All of them                                                             *)

DesktopInv ==
  side \in Sides /\ KbdInv /\ MouseInv /\ RtcInv /\ DateInv /\ LoginInv /\ WinInv

LEMMA KbdSame == KbdInv /\ UNCHANGED kbdVars => KbdInv'
BY DEF KbdInv, KbdTypeOK, KeysArrive, Waiting, kbdVars

LEMMA MouseSame == MouseInv /\ UNCHANGED mouseVars => MouseInv'
BY DEF MouseInv, MouseTypeOK, ClicksSeen, QueuedClicks, InStep, OfReport, mouseVars

LEMMA RtcSame == RtcInv /\ UNCHANGED rtcVars => RtcInv'
BY DEF RtcInv, RtcTypeOK, ReadTrue, SelectTrue, Ahead, Minute, WatchTrue, Elapsed, rtcVars

LEMMA DateSame == DateInv /\ UNCHANGED date => DateInv'
BY DEF DateInv

LEMMA LoginSame == LoginInv /\ UNCHANGED loginVars => LoginInv'
BY DEF LoginInv, LoginTypeOK, OnlyUsers, loginVars

LEMMA WinSame == WinInv /\ UNCHANGED winVars => WinInv'
<1> SUFFICES ASSUME WinInv, UNCHANGED winVars PROVE WinInv'
  OBVIOUS
<1>1. AppsTrue'
  BY AppsSame DEF WinInv, winVars, appVars
<1>2. ClickTypeOK' /\ ClickTrue'
  BY DEF WinInv, winVars, ClickTypeOK, ClickTrue
<1> QED
  BY <1>1, <1>2 DEF WinInv

LEMMA DesktopStarts == Init => DesktopInv
BY KbdStarts, MouseStarts, RtcStarts, DateStarts, LoginStarts, WinStarts, Zenon
   DEF Init, DesktopInv

LEMMA LoginTurn == LoginInv /\ WinInv /\ Session => LoginInv' /\ WinInv'
<1> SUFFICES ASSUME LoginInv, WinInv, Session PROVE LoginInv' /\ WinInv'
  OBVIOUS
<1>1. CASE LoginNext /\ UNCHANGED winVars
  BY <1>1, LoginStep, WinSame, Zenon
<1>2. CASE screen = "desktop" /\ WinNext /\ UNCHANGED loginVars
  BY <1>2, LoginSame, WinStep, Zenon
<1>3. CASE EndDesktop
  <2>1. PICK to : to = IF ended = "logout" THEN "login" ELSE "off"
    OBVIOUS
  <2>2. to \in {"login", "off"} /\ Leave(to) /\ AppInit
    BY <1>3, <2>1, Zenon DEF EndDesktop
  <2> QED
    BY <2>2, LoginStep, WinRestarts, Zenon
<1> QED
  BY <1>1, <1>2, <1>3, Zenon DEF Session

LEMMA DesktopStep == DesktopInv /\ [Next]_vars => DesktopInv'
<1> SUFFICES ASSUME DesktopInv, [Next]_vars PROVE DesktopInv'
  OBVIOUS
<1>1. /\ side \in Sides /\ KbdInv /\ MouseInv /\ RtcInv /\ DateInv /\ LoginInv /\ WinInv
  BY DEF DesktopInv
<1>2. side' \in Sides
  <2>1. UNCHANGED side
    BY DEF Next, vars
  <2> QED
    BY <1>1, <2>1
<1>3. CASE UNCHANGED vars
  <2>1. /\ UNCHANGED kbdVars /\ UNCHANGED mouseVars /\ UNCHANGED rtcVars /\ UNCHANGED date
        /\ UNCHANGED loginVars /\ UNCHANGED winVars
    BY <1>3 DEF vars
  <2> QED
    BY <1>1, <1>2, <2>1, KbdSame, MouseSame, RtcSame, DateSame, LoginSame, WinSame, Zenon
       DEF DesktopInv
<1>4. CASE KbdNext /\ UNCHANGED <<mouseVars, rtcVars, date, loginVars, winVars>>
  <2>1. /\ UNCHANGED mouseVars /\ UNCHANGED rtcVars /\ UNCHANGED date
        /\ UNCHANGED loginVars /\ UNCHANGED winVars
    BY <1>4
  <2> QED
    BY <1>1, <1>2, <1>4, <2>1, KbdStep, MouseSame, RtcSame, DateSame, LoginSame, WinSame, Zenon
       DEF DesktopInv
<1>5. CASE MouseNext /\ UNCHANGED <<kbdVars, rtcVars, date, loginVars, winVars>>
  <2>1. /\ UNCHANGED kbdVars /\ UNCHANGED rtcVars /\ UNCHANGED date
        /\ UNCHANGED loginVars /\ UNCHANGED winVars
    BY <1>5
  <2> QED
    BY <1>1, <1>2, <1>5, <2>1, KbdSame, MouseStep, RtcSame, DateSame, LoginSame, WinSame, Zenon
       DEF DesktopInv
<1>6. CASE RtcNext /\ UNCHANGED <<kbdVars, mouseVars, date, loginVars, winVars>>
  <2>1. /\ UNCHANGED kbdVars /\ UNCHANGED mouseVars /\ UNCHANGED date
        /\ UNCHANGED loginVars /\ UNCHANGED winVars
    BY <1>6
  <2> QED
    BY <1>1, <1>2, <1>6, <2>1, KbdSame, MouseSame, RtcStep, DateSame, LoginSame, WinSame, Zenon
       DEF DesktopInv
<1>7. CASE NextMonth /\ UNCHANGED <<kbdVars, mouseVars, rtcVars, loginVars, winVars>>
  <2>1. /\ UNCHANGED kbdVars /\ UNCHANGED mouseVars /\ UNCHANGED rtcVars
        /\ UNCHANGED loginVars /\ UNCHANGED winVars
    BY <1>7
  <2> QED
    BY <1>1, <1>2, <1>7, <2>1, KbdSame, MouseSame, RtcSame, DateStep, LoginSame, WinSame, Zenon
       DEF DesktopInv
<1>8. CASE Session /\ UNCHANGED <<kbdVars, mouseVars, rtcVars, date>>
  <2>1. UNCHANGED kbdVars /\ UNCHANGED mouseVars /\ UNCHANGED rtcVars /\ UNCHANGED date
    BY <1>8
  <2> QED
    BY <1>1, <1>2, <1>8, <2>1, KbdSame, MouseSame, RtcSame, DateSame, LoginTurn, Zenon
       DEF DesktopInv
<1> QED
  BY <1>3, <1>4, <1>5, <1>6, <1>7, <1>8, Zenon DEF Next

LEMMA DesktopInvariant == Spec => []DesktopInv
BY DesktopStarts, DesktopStep, PTL DEF Spec

-----------------------------------------------------------------------------
(* The positions of the rings stay within them, the pointer within the     *)
(* screen or one past it, the fields of a form within their size, and the  *)
(* counters of the watchdog within theirs.                                 *)
THEOREM DesktopTyped == Spec => []TypeOK
<1>1. DesktopInv => TypeOK
  <2> SUFFICES ASSUME DesktopInv PROVE TypeOK
    OBVIOUS
  <2>1. date.days \in Nat
    BY DEF DesktopInv, DateInv
  <2>2. side \in Sides /\ KbdTypeOK /\ MouseTypeOK /\ RtcTypeOK /\ LoginTypeOK
    BY Zenon DEF DesktopInv, KbdInv, MouseInv, RtcInv, LoginInv
  <2>3. WinTypeOK
    BY WinFacts, Zenon DEF DesktopInv
  <2> QED
    BY <2>1, <2>2, <2>3, Zenon DEF TypeOK
<1> QED
  BY <1>1, DesktopInvariant, PTL

(* The ring of the keyboard loses and reorders no key and none its shift   *)
(* state, the queue of the mouse loses no click while it has room, the     *)
(* time that rtc_read returns is one the clock had, the watchdog fires     *)
(* exactly a timeout after the last pet, and every date until 2099 and     *)
(* every hour is converted as ConversionsTrue says.                        *)
THEOREM DriversReport == Spec => []DriversTrue
<1>1. DesktopInv => DriversTrue
  <2> SUFFICES ASSUME DesktopInv PROVE DriversTrue
    OBVIOUS
  <2>1. KeysArrive /\ ClicksSeen
    BY Zenon DEF DesktopInv, KbdInv, MouseInv
  <2>2. ClockTrue
    BY DEF DesktopInv, RtcInv, ReadTrue, WatchTrue, ClockTrue
  <2>3. ConversionsTrue
    <3>1. PICK h \in 0 .. 23 : h = date.hour
      BY DEF DesktopInv, DateInv
    <3>2. UnixDays(date.year, date.month, 1) = date.days + (IF LeapYear(date.year) THEN 1 ELSE 0)
      BY DEF DesktopInv, DateInv
    <3> QED
      BY <3>1, <3>2, Hours, Zenon DEF ConversionsTrue
  <2> QED
    BY <2>1, <2>2, <2>3 DEF DriversTrue
<1> QED
  BY <1>1, DesktopInvariant, PTL

(* The desktop runs only for a stored user whose name and password were    *)
(* entered; there is no user before the first form is confirmed, and one   *)
(* after it, with the password that was entered twice.                     *)
THEOREM OnlyUsersEnter == Spec => []OnlyUsers
<1>1. DesktopInv => OnlyUsers
  BY Zenon DEF DesktopInv, LoginInv
<1> QED
  BY <1>1, DesktopInvariant, PTL

(* An application has one window, the focus is on a window while one is    *)
(* open, one is dragged at most, a click acts once unless the context menu *)
(* lay over a window, and only the menu ends the session.                  *)
THEOREM WindowsKept == Spec => []WindowsTrue
<1>1. DesktopInv => WindowsTrue
  BY WinFacts, Zenon DEF DesktopInv
<1> QED
  BY <1>1, DesktopInvariant, PTL
=============================================================================
