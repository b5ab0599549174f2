--------------------------- MODULE NetworkProofs ---------------------------
(***************************************************************************)
(* Theorems about the network, for every size of the rings and of the      *)
(* tables: the card's frames go up and out once and in order, the rings    *)
(* of the UDP sockets give back the bytes that went in, the clients        *)
(* believe only answers to their own questions, and the numbers of the     *)
(* TCP segments count what they stand for.  Each part has an inductive     *)
(* invariant of its own: CardInv, StackInv with the clients, TcpInv.       *)
(***************************************************************************)
EXTENDS Network, SequenceTheorems, FiniteSetTheorems, TLAPS

-----------------------------------------------------------------------------
(* Remainders                                                              *)

(* Arithmetic: the remainder is determined by the quotient.                *)
LEMMA ModUnique ==
  ASSUME NEW q \in Nat \ {0}, NEW d \in Int, NEW r \in 0 .. q - 1
  PROVE  (q * d + r) % q = r
<1> DEFINE s == (q * d + r) % q
<1>1. s \in 0 .. q - 1
  OBVIOUS
<1>2. PICK e \in Int : e = (q * d + r) \div q
  OBVIOUS
<1>3. q * d + r = q * e + s
  BY <1>2
<1>4. q * (d - e) = s - r
  BY <1>3, <1>1
<1> HIDE DEF s
<1>5. s - r < q /\ r - s < q /\ s \in Int
  BY <1>1
<1>6. d - e < 1
  BY <1>4, <1>5, SMTT(30)
<1>7. d - e > -1
  BY <1>4, <1>5, SMTT(30)
<1>8. d - e = 0
  BY <1>6, <1>7
<1>9. s = r
  BY <1>8, <1>4, <1>5
<1> QED
  BY <1>9 DEF s

-----------------------------------------------------------------------------
(* The next position of a ring, and how far b lies behind a, without       *)
(* remainders.                                                             *)
Next1(d, q)    == IF d = q - 1 THEN 0 ELSE d + 1
Dist(a, b, q)  == IF a <= b THEN b - a ELSE b - a + q

LEMMA NextMod ==
  ASSUME NEW q \in Nat \ {0}, NEW d \in 0 .. q - 1
  PROVE  (d + 1) % q = Next1(d, q)
<1>1. CASE d = q - 1
  <2>1. (q * 1 + 0) % q = 0
    BY ModUnique
  <2> QED
    BY <1>1, <2>1 DEF Next1
<1>2. CASE d # q - 1
  <2>1. (q * 0 + (d + 1)) % q = d + 1
    BY <1>2, ModUnique
  <2> QED
    BY <1>2, <2>1 DEF Next1
<1> QED
  BY <1>1, <1>2

LEMMA DistMod ==
  ASSUME NEW q \in Nat \ {0}, NEW a \in 0 .. q - 1, NEW b \in 0 .. q - 1
  PROVE  /\ (b - a) % q = Dist(a, b, q)
         /\ (b + q - a) % q = Dist(a, b, q)
<1>1. CASE a <= b
  <2>1. (q * 0 + (b - a)) % q = b - a /\ (q * 1 + (b - a)) % q = b - a
    BY <1>1, ModUnique
  <2> QED
    BY <1>1, <2>1 DEF Dist
<1>2. CASE a > b
  <2>1. (q * (-1) + (b - a + q)) % q = b - a + q /\ (q * 0 + (b - a + q)) % q = b - a + q
    BY <1>2, ModUnique
  <2> QED
    BY <1>2, <2>1 DEF Dist
<1> QED
  BY <1>1, <1>2

LEMMA DistFacts ==
  ASSUME NEW q \in Nat, q >= 2, NEW a \in 0 .. q - 1, NEW b \in 0 .. q - 1
  PROVE  /\ Next1(a, q) \in 0 .. q - 1 /\ Next1(a, q) # a
         /\ Dist(a, b, q) \in 0 .. q - 1
         /\ Dist(a, a, q) = 0
         /\ a # b => Dist(a, b, q) > 0
         /\ a # b => Dist(Next1(a, q), b, q) = Dist(a, b, q) - 1
         /\ Dist(Next1(a, q), a, q) = q - 1
         /\ Next1(b, q) # a => Dist(a, Next1(b, q), q) = Dist(a, b, q) + 1
<1> QED
  BY DEF Dist, Next1

LEMMA DistOnto ==
  ASSUME NEW q \in Nat, q >= 2, NEW a \in 0 .. q - 1, NEW b \in 0 .. q - 1, NEW c \in 0 .. q - 1,
         Dist(a, b, q) = Dist(a, c, q)
  PROVE  b = c
<1> QED
  BY DEF Dist

(* What lies between a and b, and what between b and another place j.      *)
LEMMA DistSplit ==
  ASSUME NEW q \in Nat, q >= 2, NEW a \in 0 .. q - 1, NEW b \in 0 .. q - 1, NEW j \in 0 .. q - 1
  PROVE  Dist(b, j, q) = IF Dist(a, j, q) < Dist(a, b, q)
                         THEN Dist(a, j, q) - Dist(a, b, q) + q
                         ELSE Dist(a, j, q) - Dist(a, b, q)
<1> QED
  BY DEF Dist

(* k places on from b; and the room between b and the place before a.      *)
LEMMA DistAdd ==
  ASSUME NEW q \in Nat, q >= 2, NEW a \in 0 .. q - 1, NEW b \in 0 .. q - 1, NEW k \in Nat,
         Dist(a, b, q) + k < q
  PROVE  (b + k) % q \in 0 .. q - 1 /\ Dist(a, (b + k) % q, q) = Dist(a, b, q) + k
<1>1. CASE b + k < q
  <2>1. (q * 0 + (b + k)) % q = b + k
    BY <1>1, ModUnique
  <2> QED
    BY <1>1, <2>1 DEF Dist
<1>2. CASE b + k >= q
  <2>1. b + k - q \in 0 .. q - 1 /\ b + k - q < a
    BY <1>2 DEF Dist
  <2>2. (q * 1 + (b + k - q)) % q = b + k - q
    BY <2>1, ModUnique
  <2> QED
    BY <1>2, <2>1, <2>2 DEF Dist
<1> QED
  BY <1>1, <1>2

LEMMA DistRoom ==
  ASSUME NEW q \in Nat, q >= 2, NEW a \in 0 .. q - 1, NEW b \in 0 .. q - 1
  PROVE  (a - 1 - b) % q = q - 1 - Dist(a, b, q)
<1> DEFINE r == q - 1 - Dist(a, b, q)
<1>1. r \in 0 .. q - 1
  BY DistFacts
<1>2. (q * (-1) + r) % q = r /\ (q * 0 + r) % q = r
  BY <1>1, ModUnique
<1>3. CASE a <= b
  BY <1>2, <1>3 DEF Dist
<1>4. CASE a > b
  BY <1>2, <1>4 DEF Dist
<1> QED
  BY <1>3, <1>4

-----------------------------------------------------------------------------
(* The card *)

(* The descriptors that are done lie between the driver's position and the *)
(* device's, and hold what was kept and not handed up, in order; RDT is    *)
(* the one before the driver's.                                            *)
Filled == Dist(rx_tail, rdh, NRX)
Off(d) == Dist(rx_tail, d, NRX)

ReceiveType ==
  /\ ring \in [Descs -> [done : BOOLEAN, frame : Nat]]
  /\ rdh \in Descs /\ rdt \in Descs /\ rx_tail \in Descs /\ cause \in BOOLEAN
  /\ handler \in {"out", "loop", "handed", "returned"}
  /\ fromWire \in Nat /\ kept \in Seq(Nat) /\ handed \in Seq(Nat)

Before   == Next1(rdt, NRX) = rx_tail
DoneTrue == \A d \in Descs : ring[d].done <=> Off(d) < Filled
Holds    == \A d \in Descs : Off(d) < Filled => ring[d].frame = kept[Len(kept) - Filled + Off(d) + 1]
Counted  ==
  /\ Len(kept) >= Filled
  /\ Len(handed) = IF handler = "handed" THEN Len(kept) - Filled + 1 ELSE Len(kept) - Filled
  /\ handler = "handed" => Filled > 0
  /\ ~cause /\ handler \in {"out", "returned"} => Filled = 0
InOrder  == \A i \in 1 .. Len(handed) : handed[i] = kept[i]

ReceiveInv == ReceiveType /\ Before /\ DoneTrue /\ Holds /\ Counted /\ InOrder

(* The same for the ring of frames to be sent: those the device was given, *)
(* and one more that a call has written and not yet told it of.            *)
Given   == Dist(tdh, tdt, NTX)
TxOff(d) == Dist(tdh, d, NTX)
Under   == IF sending = "out" THEN 0 ELSE 1

SendType ==
  /\ tx_buffers \in [TxDescs -> Nat] /\ tx_tail \in TxDescs /\ tdh \in TxDescs /\ tdt \in TxDescs
  /\ sending \in {"out", "copied", "moved"}
  /\ framesSent \in Nat /\ onWire \in Seq(Nat) /\ torn \in BOOLEAN

TailTrue ==
  /\ tx_tail = IF sending = "moved" THEN Next1(tdt, NTX) ELSE tdt
  /\ sending = "moved" => tx_tail # tdh
SentAll  == framesSent = Len(onWire) + Given + Under
TxHolds  == \A d \in TxDescs : TxOff(d) < Given + Under => tx_buffers[d] = Len(onWire) + TxOff(d) + 1
LeftInOrder == \A i \in 1 .. Len(onWire) : onWire[i] = i

SendInv == SendType /\ (~torn => TailTrue /\ SentAll /\ TxHolds /\ LeftInOrder)

CardInv == ReceiveInv /\ SendInv

LEMMA CardAssume == NRX \in Nat /\ NRX >= 2 /\ NTX \in Nat /\ NTX >= 2
  BY E1000Assumption

LEMMA AfterNext ==
  ASSUME NEW d \in Descs
  PROVE  After(d) = Next1(d, NRX) /\ Next1(d, NRX) \in Descs
<1>1. NRX \in Nat \ {0} /\ d \in 0 .. NRX - 1
  BY CardAssume DEF Descs
<1> QED
  BY <1>1, CardAssume, NextMod, DistFacts DEF After, Descs

LEMMA OffRange ==
  ASSUME ReceiveType
  PROVE  /\ Filled \in 0 .. NRX - 1
         /\ \A d \in Descs : Off(d) \in 0 .. NRX - 1
         /\ \A d \in Descs : d # rdh => Off(d) # Filled
         /\ Off(rdh) = Filled /\ Off(rx_tail) = 0
<1>1. rx_tail \in 0 .. NRX - 1 /\ rdh \in 0 .. NRX - 1
  BY DEF ReceiveType, Descs
<1>2. \A d \in Descs : Off(d) \in 0 .. NRX - 1
  BY <1>1, CardAssume, DistFacts DEF Off, Descs
<1>3. ASSUME NEW d \in Descs, d # rdh PROVE Off(d) # Filled
  BY <1>1, <1>3, CardAssume, DistOnto DEF Off, Filled, Descs
<1> QED
  BY <1>1, <1>2, <1>3, CardAssume, DistFacts DEF Off, Filled, Descs

LEMMA CardInit == E1000Init => CardInv
<1> SUFFICES ASSUME E1000Init PROVE CardInv
  OBVIOUS
<1> USE CardAssume
<1>1. ReceiveInv
  <2>1. ReceiveType
    <3>1. ring \in [Descs -> [done : BOOLEAN, frame : Nat]]
      BY DEF E1000Init
    <3>2. 0 \in Descs /\ NRX - 1 \in Descs
      BY DEF Descs
    <3>3. rdh = 0 /\ rdt = NRX - 1 /\ rx_tail = 0 /\ cause = FALSE /\ handler = "out"
          /\ fromWire = 0 /\ kept = <<>> /\ handed = <<>>
      BY DEF E1000Init
    <3>4. kept \in Seq(Nat) /\ handed \in Seq(Nat)
      BY <3>3
    <3>5. cause \in BOOLEAN /\ handler \in {"out", "loop", "handed", "returned"} /\ fromWire \in Nat
      BY <3>3
    <3>6. rdh \in Descs /\ rdt \in Descs /\ rx_tail \in Descs
      BY <3>2, <3>3
    <3> QED
      BY <3>1, <3>4, <3>5, <3>6 DEF ReceiveType
  <2>2. Filled = 0
    BY <2>1, OffRange DEF E1000Init, Filled, Off
  <2>3. \A d \in Descs : ~ring[d].done /\ ~(Off(d) < Filled)
    BY <2>1, <2>2, OffRange DEF E1000Init
  <2>4. DoneTrue /\ Holds
    BY <2>3 DEF DoneTrue, Holds
  <2>5. Before
    BY DEF E1000Init, Before, Next1
  <2>6. Counted /\ InOrder
    BY <2>2 DEF Counted, InOrder, E1000Init
  <2> QED
    BY <2>1, <2>4, <2>5, <2>6 DEF ReceiveInv
<1>2. SendInv
  <2>1. SendType
    <3>1. 0 \in TxDescs
      BY DEF TxDescs
    <3> QED
      BY <3>1 DEF SendType, E1000Init
  <2>2. Given = 0
    BY DistFacts DEF E1000Init, Given
  <2>3. \A d \in TxDescs : TxOff(d) \in Nat
    BY DistFacts DEF E1000Init, TxOff, TxDescs
  <2>4. TxHolds
    BY <2>2, <2>3 DEF TxHolds, Under, E1000Init
  <2>5. TailTrue /\ SentAll /\ LeftInOrder
    BY <2>2 DEF TailTrue, SentAll, LeftInOrder, Under, E1000Init
  <2> QED
    BY <2>1, <2>4, <2>5 DEF SendInv
<1> QED
  BY <1>1, <1>2 DEF CardInv

(* A step of the device or of the handler keeps what was received.         *)
LEMMA ArrivesKeeps ==
  ASSUME ReceiveInv, FrameArrives
  PROVE  ReceiveInv'
<1> USE CardAssume
<1>0. ReceiveType /\ Before /\ DoneTrue /\ Holds /\ Counted /\ InOrder
  BY DEF ReceiveInv
<1>1. CASE rdh = rdt
  <2>1. /\ ring' = ring /\ rdh' = rdh /\ cause' = cause /\ kept' = kept
        /\ rdt' = rdt /\ rx_tail' = rx_tail /\ handler' = handler /\ handed' = handed
        /\ fromWire' = fromWire + 1
    BY <1>1 DEF FrameArrives
  <2>2. ReceiveType'
    BY <1>0, <2>1 DEF ReceiveType, Descs
  <2> QED
    BY <1>0, <2>1, <2>2 DEF ReceiveInv, Before, DoneTrue, Holds, Counted, InOrder, Filled, Off
<1>2. CASE rdh # rdt
  <2>1. /\ kept' = Append(kept, fromWire') /\ cause' = TRUE
        /\ rdt' = rdt /\ rx_tail' = rx_tail /\ handler' = handler /\ handed' = handed
        /\ fromWire' = fromWire + 1
        /\ ring' = [ring EXCEPT ![rdh] = [done |-> TRUE, frame |-> fromWire']]
        /\ rdh' = After(rdh)
    BY <1>2 DEF FrameArrives
  <2>2. rdh \in Descs /\ rdt \in Descs /\ rx_tail \in Descs /\ Len(kept) \in Nat /\ fromWire' \in Nat
    BY <1>0, <2>1 DEF ReceiveType
  <2>3. rdh' = Next1(rdh, NRX) /\ rdh' \in Descs
    BY <2>1, <2>2, NextMod, DistFacts DEF After, Descs
  <2>4. Next1(rdh, NRX) # rx_tail
    BY <1>0, <1>2, <2>2 DEF Before, Next1, Descs
  <2>5. Filled' = Filled + 1 /\ Filled \in Nat
    BY <2>1, <2>2, <2>3, <2>4, <1>0, DistFacts, OffRange DEF Filled, Descs
  <2>6. ReceiveType'
    <3>1. ring' \in [Descs -> [done : BOOLEAN, frame : Nat]]
      BY <1>0, <2>1, <2>2 DEF ReceiveType
    <3>2. kept' \in Seq(Nat)
      BY <1>0, <2>1, <2>2 DEF ReceiveType
    <3> QED
      BY <1>0, <2>1, <2>2, <2>3, <3>1, <3>2 DEF ReceiveType
  <2>7. /\ Len(kept') = Len(kept) + 1 /\ kept'[Len(kept) + 1] = fromWire'
        /\ \A i \in 1 .. Len(kept) : kept'[i] = kept[i]
    BY <1>0, <2>1, <2>2 DEF ReceiveType
  <2>8. \A d \in Descs : /\ d # rdh => ring'[d] = ring[d]
                         /\ d = rdh => ring'[d].done /\ ring'[d].frame = fromWire'
    BY <1>0, <2>1, <2>2 DEF ReceiveType
  <2>9. \A d \in Descs : /\ Off(d)' = Off(d) /\ Off(d) \in Nat
                         /\ Off(d) < Filled' <=> Off(d) < Filled \/ d = rdh
    BY <1>0, <2>1, <2>5, OffRange DEF Off
  <2>10. DoneTrue'
    BY <1>0, <2>1, <2>8, <2>9 DEF DoneTrue
  <2>11. ASSUME NEW d \in Descs, Off(d)' < Filled'
         PROVE  ring'[d].frame = kept'[Len(kept') - Filled' + Off(d)' + 1]
    <3>1. CASE d = rdh
      <4>1. Off(d)' = Filled
        BY <1>0, <3>1, <2>9, OffRange
      <4>2. Len(kept') - Filled' + Off(d)' + 1 = Len(kept) + 1
        BY <4>1, <2>2, <2>5, <2>7
      <4> QED
        BY <3>1, <4>2, <2>7, <2>8
    <3>2. CASE d # rdh
      <4>1. Off(d) < Filled /\ Off(d)' = Off(d) /\ Off(d) \in Nat
        BY <3>2, <2>9, <2>11
      <4>2. Len(kept') - Filled' + Off(d)' + 1 = Len(kept) - Filled + Off(d) + 1
        BY <4>1, <2>2, <2>5, <2>7
      <4>3. Len(kept) - Filled + Off(d) + 1 \in 1 .. Len(kept)
        BY <1>0, <4>1, <2>2, <2>5 DEF Counted
      <4> QED
        BY <1>0, <3>2, <4>1, <4>2, <4>3, <2>7, <2>8 DEF Holds
    <3> QED
      BY <3>1, <3>2
  <2>12. Holds'
    BY <2>11, <2>1 DEF Holds
  <2>13. Before' /\ Counted'
    BY <1>0, <2>1, <2>2, <2>5, <2>7 DEF Before, Counted
  <2>14. InOrder'
    <3>1. Len(handed) <= Len(kept) /\ Len(handed) \in Nat
      BY <1>0, <2>5, <2>2 DEF Counted, ReceiveType
    <3> QED
      BY <1>0, <2>1, <2>2, <2>7, <3>1 DEF InOrder
  <2> QED
    BY <2>6, <2>10, <2>12, <2>13, <2>14 DEF ReceiveInv
<1> QED
  BY <1>1, <1>2

LEMMA HandUpKeeps ==
  ASSUME ReceiveInv, HandUp
  PROVE  ReceiveInv'
<1>0. ReceiveType /\ Before /\ DoneTrue /\ Holds /\ Counted /\ InOrder
  BY DEF ReceiveInv
<1>1. /\ handler = "loop" /\ ring[rx_tail].done
      /\ handed' = Append(handed, ring[rx_tail].frame) /\ handler' = "handed"
      /\ ring' = ring /\ rdh' = rdh /\ rdt' = rdt /\ cause' = cause /\ rx_tail' = rx_tail
      /\ fromWire' = fromWire /\ kept' = kept
  BY DEF HandUp
<1>2. rx_tail \in Descs /\ Filled \in Nat /\ Off(rx_tail) = 0 /\ Filled > 0 /\ Len(kept) \in Nat
  BY <1>0, <1>1, OffRange DEF DoneTrue, ReceiveType
<1>3. ring[rx_tail].frame = kept[Len(kept) - Filled + 1] /\ ring[rx_tail].frame \in Nat
  <2>1. ring[rx_tail].frame = kept[Len(kept) - Filled + 0 + 1]
    BY <1>0, <1>2 DEF Holds
  <2>2. Len(kept) - Filled + 0 + 1 = Len(kept) - Filled + 1
    BY <1>2
  <2>3. ring[rx_tail].frame \in Nat
    BY <1>0, <1>2 DEF ReceiveType
  <2> QED
    BY <2>1, <2>2, <2>3
<1>4. /\ Len(handed') = Len(handed) + 1 /\ handed'[Len(handed) + 1] = ring[rx_tail].frame
      /\ \A i \in 1 .. Len(handed) : handed'[i] = handed[i]
      /\ handed' \in Seq(Nat) /\ Len(handed) \in Nat
  BY <1>0, <1>1, <1>3 DEF ReceiveType
<1>5. Len(handed) = Len(kept) - Filled
  BY <1>0, <1>1 DEF Counted
<1>6. ReceiveType'
  BY <1>0, <1>1, <1>4 DEF ReceiveType, Descs
<1>7. Filled' = Filled /\ \A d \in Descs : Off(d)' = Off(d)
  BY <1>1 DEF Filled, Off
<1>8. Before' /\ DoneTrue' /\ Holds'
  BY <1>0, <1>1, <1>7 DEF Before, DoneTrue, Holds
<1>9. Counted'
  BY <1>0, <1>1, <1>2, <1>4, <1>5, <1>7 DEF Counted
<1>10. InOrder'
  BY <1>0, <1>1, <1>3, <1>4, <1>5 DEF InOrder
<1> QED
  BY <1>6, <1>8, <1>9, <1>10 DEF ReceiveInv

LEMMA GiveBackKeeps ==
  ASSUME ReceiveInv, GiveBackDescriptor
  PROVE  ReceiveInv'
<1> USE CardAssume
<1>0. ReceiveType /\ Before /\ DoneTrue /\ Holds /\ Counted /\ InOrder
  BY DEF ReceiveInv
<1>1. /\ handler = "handed" /\ handler' = "loop"
      /\ ring' = [ring EXCEPT ![rx_tail].done = FALSE]
      /\ rdt' = rx_tail /\ rx_tail' = After(rx_tail)
      /\ rdh' = rdh /\ cause' = cause /\ fromWire' = fromWire /\ kept' = kept /\ handed' = handed
  BY DEF GiveBackDescriptor
<1>2. rx_tail \in 0 .. NRX - 1 /\ rdh \in 0 .. NRX - 1 /\ Filled > 0 /\ Filled \in 0 .. NRX - 1
      /\ Len(kept) \in Nat
  BY <1>0, <1>1, OffRange DEF Counted, ReceiveType, Descs
<1>3. rx_tail' = Next1(rx_tail, NRX) /\ rx_tail' \in Descs
  <2>1. rx_tail \in Descs
    BY <1>2 DEF Descs
  <2> QED
    BY <1>1, <2>1, AfterNext
<1>4. rx_tail # rdh
  BY <1>0, <1>2, OffRange
<1>5. Filled' = Filled - 1
  BY <1>1, <1>2, <1>3, <1>4, DistFacts DEF Filled
<1>6. \A d \in Descs : /\ Off(d) \in Nat
                       /\ d # rx_tail => Off(d)' = Off(d) - 1
                       /\ d = rx_tail => Off(d)' = NRX - 1 /\ Off(d) = 0
  <2> SUFFICES ASSUME NEW d \in Descs
               PROVE  /\ Off(d) \in Nat
                      /\ d # rx_tail => Off(d)' = Off(d) - 1
                      /\ d = rx_tail => Off(d)' = NRX - 1 /\ Off(d) = 0
    OBVIOUS
  <2>1. d \in 0 .. NRX - 1 /\ Off(d)' = Dist(Next1(rx_tail, NRX), d, NRX)
    BY <1>3 DEF Descs, Off
  <2>2. Off(d) \in Nat /\ (d = rx_tail => Off(d) = 0)
    BY <1>0, OffRange
  <2>3. CASE d = rx_tail
    BY <1>2, <2>1, <2>2, <2>3, DistFacts
  <2>4. CASE d # rx_tail
    BY <1>2, <2>1, <2>2, <2>4, DistFacts DEF Off
  <2> QED
    BY <2>2, <2>3, <2>4
<1>7. \A d \in Descs : /\ ring'[d].frame = ring[d].frame
                       /\ d # rx_tail => ring'[d].done = ring[d].done
                       /\ d = rx_tail => ~ring'[d].done
  BY <1>0, <1>1 DEF ReceiveType
<1>8. ReceiveType'
  <2>1. ring' \in [Descs -> [done : BOOLEAN, frame : Nat]]
    BY <1>0, <1>1 DEF ReceiveType
  <2>2. rdt' \in Descs
    BY <1>1, <1>2 DEF Descs
  <2> QED
    BY <1>0, <1>1, <1>3, <2>1, <2>2 DEF ReceiveType
<1>9. DoneTrue'
  <2> SUFFICES ASSUME NEW d \in Descs PROVE ring'[d].done <=> Off(d)' < Filled'
    BY <1>1 DEF DoneTrue
  <2>1. CASE d = rx_tail
    BY <2>1, <1>2, <1>5, <1>6, <1>7
  <2>2. CASE d # rx_tail
    BY <2>2, <1>0, <1>2, <1>5, <1>6, <1>7 DEF DoneTrue
  <2> QED
    BY <2>1, <2>2
<1>10. Holds'
  <2> SUFFICES ASSUME NEW d \in Descs, Off(d)' < Filled'
               PROVE  ring'[d].frame = kept[Len(kept) - Filled' + Off(d)' + 1]
    BY <1>1 DEF Holds
  <2>1. d # rx_tail
    BY <1>2, <1>5, <1>6
  <2>2. Off(d) < Filled /\ Len(kept) - Filled' + Off(d)' + 1 = Len(kept) - Filled + Off(d) + 1
    BY <2>1, <1>2, <1>5, <1>6
  <2> QED
    BY <2>2, <1>0, <1>7 DEF Holds
<1>11. Before' /\ InOrder'
  BY <1>0, <1>1, <1>3 DEF Before, InOrder
<1>12. Counted'
  BY <1>0, <1>1, <1>2, <1>5 DEF Counted
<1> QED
  BY <1>8, <1>9, <1>10, <1>11, <1>12 DEF ReceiveInv

(* The other steps of the handler move no frame.                           *)
LEMMA HandlerKeeps ==
  ASSUME ReceiveInv, Interrupt \/ Return \/ EndOfInterrupt
  PROVE  ReceiveInv'
<1>0. ReceiveType /\ Before /\ DoneTrue /\ Holds /\ Counted /\ InOrder
  BY DEF ReceiveInv
<1>1. /\ ring' = ring /\ rdh' = rdh /\ rdt' = rdt /\ rx_tail' = rx_tail
      /\ fromWire' = fromWire /\ kept' = kept /\ handed' = handed
  BY DEF Interrupt, Return, EndOfInterrupt
<1>2. Filled' = Filled /\ \A d \in Descs : Off(d)' = Off(d)
  BY <1>1 DEF Filled, Off
<1>3. cause' \in BOOLEAN /\ handler' \in {"out", "loop", "handed", "returned"}
  BY <1>0 DEF Interrupt, Return, EndOfInterrupt, ReceiveType
<1>4. ReceiveType' /\ Before' /\ DoneTrue' /\ Holds' /\ InOrder'
  BY <1>0, <1>1, <1>2, <1>3 DEF ReceiveType, Before, DoneTrue, Holds, InOrder, Descs
<1>5. Counted'
  <2>1. CASE Interrupt
    BY <2>1, <1>0, <1>1, <1>2 DEF Interrupt, Counted
  <2>2. CASE EndOfInterrupt
    BY <2>2, <1>0, <1>1, <1>2 DEF EndOfInterrupt, Counted
  <2>3. CASE Return
    <3>1. rx_tail \in Descs /\ Off(rx_tail) = 0 /\ Filled \in Nat
      BY <1>0, OffRange DEF ReceiveType
    <3>2. Filled = 0
      BY <2>3, <3>1, <1>0 DEF Return, DoneTrue
    <3> QED
      BY <2>3, <3>2, <1>0, <1>1, <1>2 DEF Return, Counted
  <2> QED
    BY <2>1, <2>2, <2>3
<1> QED
  BY <1>4, <1>5 DEF ReceiveInv

LEMMA ReceiveUnchanged ==
  ASSUME ReceiveInv, UNCHANGED receiveVars
  PROVE  ReceiveInv'
  BY DEF receiveVars, ReceiveInv, ReceiveType, Before, DoneTrue, Holds, Counted, InOrder,
         Filled, Off, Descs

-----------------------------------------------------------------------------
(* The sending ring *)

LEMMA TxFacts ==
  ASSUME SendType
  PROVE  /\ Given \in 0 .. NTX - 1 /\ Under \in 0 .. 1
         /\ TxOff(tdt) = Given /\ TxOff(tdh) = 0
         /\ \A d \in TxDescs : TxOff(d) \in 0 .. NTX - 1
         /\ \A d \in TxDescs : d # tdt => TxOff(d) # Given
<1>1. tdh \in 0 .. NTX - 1 /\ tdt \in 0 .. NTX - 1
  BY DEF SendType, TxDescs
<1>2. Given \in 0 .. NTX - 1 /\ TxOff(tdt) = Given /\ TxOff(tdh) = 0
  BY <1>1, CardAssume, DistFacts DEF Given, TxOff
<1>3. \A d \in TxDescs : TxOff(d) \in 0 .. NTX - 1
  BY <1>1, CardAssume, DistFacts DEF TxOff, TxDescs
<1>4. ASSUME NEW d \in TxDescs, d # tdt PROVE TxOff(d) # Given
  BY <1>1, <1>4, CardAssume, DistOnto DEF TxOff, Given, TxDescs
<1> QED
  BY <1>2, <1>3, <1>4 DEF Under

LEMMA TxNext ==
  ASSUME NEW d \in TxDescs
  PROVE  (d + 1) % NTX = Next1(d, NTX) /\ Next1(d, NTX) \in TxDescs
<1>1. NTX \in Nat \ {0} /\ d \in 0 .. NTX - 1
  BY CardAssume DEF TxDescs
<1> QED
  BY <1>1, CardAssume, NextMod, DistFacts DEF TxDescs

(* A frame written at the driver's position is the next to be sent.        *)
LEMMA Written ==
  ASSUME SendType, TxHolds, SentAll, Under = 0, tx_tail = tdt,
         framesSent' = framesSent + 1,
         tx_buffers' = [tx_buffers EXCEPT ![tx_tail] = framesSent']
  PROVE  \A d \in TxDescs : TxOff(d) < Given + 1 => tx_buffers'[d] = Len(onWire) + TxOff(d) + 1
<1> SUFFICES ASSUME NEW d \in TxDescs, TxOff(d) < Given + 1
             PROVE  tx_buffers'[d] = Len(onWire) + TxOff(d) + 1
  OBVIOUS
<1>1. Len(onWire) \in Nat /\ framesSent = Len(onWire) + Given /\ Given \in Nat /\ TxOff(d) \in Nat
  BY TxFacts DEF SendType, SentAll
<1>2. CASE d = tdt
  <2>1. tx_buffers'[d] = framesSent + 1
    BY <1>2 DEF SendType
  <2>2. TxOff(d) = Given
    BY <1>2, TxFacts
  <2> QED
    BY <2>1, <2>2, <1>1
<1>3. CASE d # tdt
  <2>1. tx_buffers'[d] = tx_buffers[d]
    BY <1>3 DEF SendType
  <2>2. TxOff(d) < Given
    BY <1>1, <1>3, TxFacts
  <2> QED
    BY <1>1, <2>1, <2>2 DEF TxHolds
<1> QED
  BY <1>2, <1>3

LEMMA InHandlerKeeps ==
  ASSUME SendInv, SendInHandler
  PROVE  SendInv'
<1> USE CardAssume
<1>0. SendType
  BY DEF SendInv
<1>1. /\ framesSent' = framesSent + 1 /\ tx_buffers' = [tx_buffers EXCEPT ![tx_tail] = framesSent']
      /\ tx_tail' = Next1(tx_tail, NTX) /\ tdt' = tx_tail'
      /\ torn' = (torn \/ sending # "out" \/ tx_tail' = tdh)
      /\ tdh' = tdh /\ sending' = sending /\ onWire' = onWire
  BY <1>0, TxNext DEF SendInHandler, SendType
<1>2. SendType'
  <2>1. tx_buffers' \in [TxDescs -> Nat] /\ framesSent' \in Nat
    BY <1>0, <1>1 DEF SendType
  <2>2. tx_tail' \in TxDescs /\ torn' \in BOOLEAN
    BY <1>0, <1>1, TxNext DEF SendType
  <2> QED
    BY <1>0, <1>1, <2>1, <2>2 DEF SendType, TxDescs
<1>3. ASSUME ~torn' PROVE TailTrue' /\ SentAll' /\ TxHolds' /\ LeftInOrder'
  <2>1. ~torn /\ sending = "out" /\ tx_tail' # tdh /\ TailTrue /\ SentAll /\ TxHolds /\ LeftInOrder
    BY <1>1, <1>3 DEF SendInv, SendType
  <2>2. tx_tail = tdt /\ Under = 0 /\ Under' = 0
    BY <1>1, <2>1 DEF TailTrue, Under
  <2>3. tdt \in 0 .. NTX - 1 /\ tdh \in 0 .. NTX - 1 /\ Given \in Nat /\ Len(onWire) \in Nat
    BY <1>0, TxFacts DEF SendType, TxDescs
  <2>4. Given' = Given + 1
    BY <1>1, <2>1, <2>2, <2>3, DistFacts DEF Given
  <2>5. \A d \in TxDescs : TxOff(d)' = TxOff(d)
    BY <1>1 DEF TxOff
  <2>6. TxHolds'
    BY <1>0, <1>1, <2>1, <2>2, <2>3, <2>4, <2>5, Written DEF TxHolds
  <2> QED
    BY <1>1, <2>1, <2>2, <2>3, <2>4, <2>6 DEF TailTrue, SentAll, LeftInOrder
<1> QED
  BY <1>2, <1>3 DEF SendInv

LEMMA CopyKeeps ==
  ASSUME SendInv, SendCopy
  PROVE  SendInv'
<1>0. SendType
  BY DEF SendInv
<1>1. /\ sending = "out" /\ sending' = "copied" /\ framesSent' = framesSent + 1
      /\ tx_buffers' = [tx_buffers EXCEPT ![tx_tail] = framesSent']
      /\ tx_tail' = tx_tail /\ tdh' = tdh /\ tdt' = tdt /\ onWire' = onWire /\ torn' = torn
  BY DEF SendCopy
<1>2. SendType'
  <2>1. tx_buffers' \in [TxDescs -> Nat] /\ framesSent' \in Nat
    BY <1>0, <1>1 DEF SendType
  <2> QED
    BY <1>0, <1>1, <2>1 DEF SendType, TxDescs
<1>3. ASSUME ~torn PROVE TailTrue' /\ SentAll' /\ TxHolds' /\ LeftInOrder'
  <2>1. TailTrue /\ SentAll /\ TxHolds /\ LeftInOrder /\ tx_tail = tdt /\ Under = 0 /\ Under' = 1
    BY <1>1, <1>3 DEF SendInv, TailTrue, Under
  <2>2. Given' = Given /\ Given \in Nat /\ Len(onWire) \in Nat /\ framesSent \in Nat
        /\ \A d \in TxDescs : TxOff(d)' = TxOff(d)
    BY <1>0, <1>1, TxFacts DEF Given, TxOff, SendType
  <2>3. TxHolds'
    BY <1>0, <1>1, <2>1, <2>2, Written DEF TxHolds
  <2> QED
    BY <1>1, <2>1, <2>2, <2>3 DEF TailTrue, SentAll, LeftInOrder
<1> QED
  BY <1>1, <1>2, <1>3 DEF SendInv

LEMMA AdvanceKeeps ==
  ASSUME SendInv, SendAdvance
  PROVE  SendInv'
<1>0. SendType
  BY DEF SendInv
<1>1. /\ sending = "copied" /\ sending' = "moved" /\ tx_tail' = Next1(tx_tail, NTX)
      /\ torn' = (torn \/ tx_tail' = tdh)
      /\ tx_buffers' = tx_buffers /\ tdh' = tdh /\ tdt' = tdt /\ framesSent' = framesSent
      /\ onWire' = onWire
  BY <1>0, TxNext DEF SendAdvance, SendType
<1>2. SendType'
  <2>1. tx_tail' \in TxDescs /\ torn' \in BOOLEAN
    BY <1>0, <1>1, TxNext DEF SendType
  <2> QED
    BY <1>0, <1>1, <2>1 DEF SendType, TxDescs
<1>3. ASSUME ~torn' PROVE TailTrue' /\ SentAll' /\ TxHolds' /\ LeftInOrder'
  <2>1. /\ TailTrue /\ SentAll /\ TxHolds /\ LeftInOrder /\ tx_tail = tdt /\ tx_tail' # tdh
        /\ Under' = Under
    BY <1>1, <1>3 DEF SendInv, TailTrue, Under
  <2>2. Given' = Given /\ \A d \in TxDescs : TxOff(d)' = TxOff(d)
    BY <1>1 DEF Given, TxOff
  <2> QED
    BY <1>1, <2>1, <2>2 DEF TailTrue, SentAll, TxHolds, LeftInOrder
<1> QED
  BY <1>2, <1>3 DEF SendInv

LEMMA TailKeeps ==
  ASSUME SendInv, SendTail
  PROVE  SendInv'
<1> USE CardAssume
<1>0. SendType
  BY DEF SendInv
<1>1. /\ sending = "moved" /\ sending' = "out" /\ tdt' = tx_tail
      /\ tx_tail' = tx_tail /\ torn' = torn
      /\ tx_buffers' = tx_buffers /\ tdh' = tdh /\ framesSent' = framesSent /\ onWire' = onWire
  BY DEF SendTail
<1>2. SendType'
  BY <1>0, <1>1 DEF SendType, TxDescs
<1>3. ASSUME ~torn PROVE TailTrue' /\ SentAll' /\ TxHolds' /\ LeftInOrder'
  <2>1. /\ TailTrue /\ SentAll /\ TxHolds /\ LeftInOrder
        /\ tx_tail = Next1(tdt, NTX) /\ tx_tail # tdh /\ Under = 1 /\ Under' = 0
    BY <1>1, <1>3 DEF SendInv, TailTrue, Under
  <2>2. tdt \in 0 .. NTX - 1 /\ tdh \in 0 .. NTX - 1 /\ Given \in Nat /\ Len(onWire) \in Nat
    BY <1>0, TxFacts DEF SendType, TxDescs
  <2>3. Given' = Given + 1
    BY <1>1, <2>1, <2>2, DistFacts DEF Given
  <2>4. \A d \in TxDescs : TxOff(d)' = TxOff(d)
    BY <1>1 DEF TxOff
  <2>5. Given' + Under' = Given + Under
    BY <2>1, <2>2, <2>3
  <2>6. TailTrue' /\ LeftInOrder'
    BY <1>1, <2>1 DEF TailTrue, LeftInOrder
  <2>7. SentAll'
    BY <1>1, <2>1, <2>2, <2>3 DEF SentAll
  <2>8. TxHolds'
    BY <1>1, <2>1, <2>4, <2>5 DEF TxHolds
  <2> QED
    BY <2>6, <2>7, <2>8
<1> QED
  BY <1>1, <1>2, <1>3 DEF SendInv

LEMMA LeavesKeeps ==
  ASSUME SendInv, FrameLeaves
  PROVE  SendInv'
<1> USE CardAssume
<1>0. SendType
  BY DEF SendInv
<1>1. /\ tdh # tdt /\ onWire' = Append(onWire, tx_buffers[tdh]) /\ tdh' = Next1(tdh, NTX)
      /\ tx_buffers' = tx_buffers /\ tx_tail' = tx_tail /\ tdt' = tdt /\ sending' = sending
      /\ framesSent' = framesSent /\ torn' = torn
  BY <1>0, TxNext DEF FrameLeaves, SendType
<1>2. /\ tdh \in TxDescs /\ tdt \in TxDescs /\ tdh \in 0 .. NTX - 1 /\ tdt \in 0 .. NTX - 1
      /\ tdh' \in TxDescs /\ tx_buffers[tdh] \in Nat /\ Len(onWire) \in Nat
  BY <1>0, <1>1, TxNext DEF SendType, TxDescs
<1>3. /\ onWire' \in Seq(Nat) /\ Len(onWire') = Len(onWire) + 1
      /\ onWire'[Len(onWire) + 1] = tx_buffers[tdh]
      /\ \A i \in 1 .. Len(onWire) : onWire'[i] = onWire[i]
  BY <1>0, <1>1, <1>2 DEF SendType
<1>4. SendType'
  BY <1>0, <1>1, <1>2, <1>3 DEF SendType, TxDescs
<1>5. ASSUME ~torn PROVE TailTrue' /\ SentAll' /\ TxHolds' /\ LeftInOrder'
  <2>1. TailTrue /\ SentAll /\ TxHolds /\ LeftInOrder /\ Under' = Under /\ Under \in 0 .. 1
    BY <1>0, <1>1, <1>5, TxFacts DEF SendInv, Under
  <2>2. Given' = Given - 1 /\ Given > 0 /\ Given \in 0 .. NTX - 1
    BY <1>0, <1>1, <1>2, DistFacts, TxFacts DEF Given
  <2>3. TailTrue'
    <3>1. Next1(tdt, NTX) # Next1(tdh, NTX)
      BY <1>1, <1>2 DEF Next1
    <3> QED
      BY <1>1, <2>1, <3>1 DEF TailTrue
  <2>4. SentAll'
    BY <1>1, <1>2, <1>3, <2>1, <2>2 DEF SentAll
  <2>5. TxHolds'
    <3> SUFFICES ASSUME NEW d \in TxDescs, TxOff(d)' < Given' + Under'
                 PROVE  tx_buffers[d] = Len(onWire') + TxOff(d)' + 1
      BY <1>1 DEF TxHolds
    <3>1. d \in 0 .. NTX - 1 /\ TxOff(d)' = Dist(Next1(tdh, NTX), d, NTX)
      BY <1>1 DEF TxDescs, TxOff
    <3>2. d # tdh
      <4>1. SUFFICES ASSUME d = tdh PROVE FALSE
        OBVIOUS
      <4>2. TxOff(d)' = NTX - 1
        BY <1>2, <3>1, <4>1, DistFacts
      <4> QED
        BY <4>2, <2>1, <2>2
    <3>3. TxOff(d)' = TxOff(d) - 1 /\ TxOff(d) \in Nat
      BY <1>0, <1>2, <3>1, <3>2, DistFacts, TxFacts DEF TxOff
    <3>4. TxOff(d) < Given + Under
      BY <3>3, <2>1, <2>2
    <3> QED
      BY <3>3, <3>4, <2>1, <1>2, <1>3 DEF TxHolds
  <2>6. LeftInOrder'
    <3>1. tx_buffers[tdh] = Len(onWire) + 1
      <4>1. TxOff(tdh) = 0 /\ 0 < Given + Under
        BY <1>0, <2>1, <2>2, TxFacts
      <4>2. tx_buffers[tdh] = Len(onWire) + 0 + 1
        BY <4>1, <1>2, <2>1 DEF TxHolds
      <4> QED
        BY <4>2, <1>2
    <3> QED
      BY <3>1, <1>2, <1>3, <2>1 DEF LeftInOrder
  <2> QED
    BY <2>3, <2>4, <2>5, <2>6
<1> QED
  BY <1>1, <1>4, <1>5 DEF SendInv

LEMMA SendUnchanged ==
  ASSUME SendInv, UNCHANGED sendVars
  PROVE  SendInv'
<1>1. /\ tx_buffers' = tx_buffers /\ tx_tail' = tx_tail /\ tdh' = tdh /\ tdt' = tdt
      /\ sending' = sending /\ framesSent' = framesSent /\ onWire' = onWire /\ torn' = torn
  BY DEF sendVars
<1> QED
  BY <1>1 DEF SendInv, SendType, TxDescs, TailTrue, SentAll, TxHolds, LeftInOrder, Given, Under, TxOff

-----------------------------------------------------------------------------
LEMMA CardStep ==
  ASSUME CardInv, E1000Next \/ UNCHANGED e1000Vars
  PROVE  CardInv'
<1>0. ReceiveInv /\ SendInv
  BY DEF CardInv
<1>1. CASE FrameArrives
  BY <1>0, <1>1, ArrivesKeeps, SendUnchanged DEF FrameArrives, CardInv
<1>2. CASE FrameLeaves
  BY <1>0, <1>2, LeavesKeeps, ReceiveUnchanged DEF FrameLeaves, CardInv
<1>3. CASE HandUp
  <2>1. ReceiveInv'
    BY <1>0, <1>3, HandUpKeeps
  <2>2. SendInv'
    BY <1>0, <1>3, InHandlerKeeps, SendUnchanged DEF HandUp
  <2> QED
    BY <2>1, <2>2 DEF CardInv
<1>4. CASE GiveBackDescriptor
  BY <1>0, <1>4, GiveBackKeeps, SendUnchanged DEF GiveBackDescriptor, CardInv
<1>5. CASE Interrupt \/ Return \/ EndOfInterrupt
  <2>1. UNCHANGED sendVars
    BY <1>5 DEF Interrupt, Return, EndOfInterrupt
  <2> QED
    BY <1>0, <1>5, <2>1, HandlerKeeps, SendUnchanged DEF CardInv
<1>6. CASE SendCopy
  BY <1>0, <1>6, CopyKeeps, ReceiveUnchanged DEF SendCopy, CardInv
<1>7. CASE SendAdvance
  BY <1>0, <1>7, AdvanceKeeps, ReceiveUnchanged DEF SendAdvance, CardInv
<1>8. CASE SendTail
  BY <1>0, <1>8, TailKeeps, ReceiveUnchanged DEF SendTail, CardInv
<1>9. CASE UNCHANGED e1000Vars
  BY <1>0, <1>9, ReceiveUnchanged, SendUnchanged DEF e1000Vars, CardInv
<1> QED
  BY <1>1, <1>2, <1>3, <1>4, <1>5, <1>6, <1>7, <1>8, <1>9 DEF E1000Next

LEMMA CardImplied ==
  ASSUME CardInv
  PROVE  CardTrue
<1>0. ReceiveType /\ Counted /\ InOrder /\ SendType
  BY DEF CardInv, ReceiveInv, SendInv
<1>1. FramesHandedUp
  <2>1. handed \in Seq(Nat) /\ kept \in Seq(Nat) /\ Len(handed) \in Nat /\ Len(kept) \in Nat
        /\ Filled \in Nat
    BY <1>0, OffRange DEF ReceiveType
  <2>2. Len(handed) <= Len(kept)
    BY <1>0, <2>1 DEF Counted
  <2>3. \A j \in 1 .. Len(handed) : kept[j] \in Nat
    BY <2>1, <2>2, ElementOfSeq
  <2>4. /\ SubSeq(kept, 1, Len(handed)) \in Seq(Nat)
        /\ Len(SubSeq(kept, 1, Len(handed))) = Len(handed)
        /\ \A j \in 1 .. Len(handed) : SubSeq(kept, 1, Len(handed))[j] = kept[j]
    BY <2>1, <2>3
  <2>5. handed = SubSeq(kept, 1, Len(handed))
    BY <1>0, <2>1, <2>4, SeqEqual DEF InOrder
  <2>6. ASSUME handler = "out", ~cause PROVE handed = kept
    <3>1. Len(handed) = Len(kept)
      BY <1>0, <2>1, <2>6 DEF Counted
    <3> QED
      BY <1>0, <2>1, <3>1, SeqEqual DEF InOrder
  <2> QED
    BY <2>5, <2>6 DEF FramesHandedUp
<1>2. FramesSent
  <2> SUFFICES ASSUME ~torn
               PROVE  /\ onWire = [j \in 1 .. Len(onWire) |-> j]
                      /\ sending = "out" => framesSent - Len(onWire) = (tdt + NTX - tdh) % NTX
    BY DEF FramesSent
  <2>1. SentAll /\ LeftInOrder
    BY DEF CardInv, SendInv
  <2>2. Len(onWire) \in Nat /\ onWire \in [1 .. Len(onWire) -> Nat]
    BY <1>0 DEF SendType
  <2>3. onWire = [j \in 1 .. Len(onWire) |-> j]
    BY <2>1, <2>2 DEF LeftInOrder
  <2>4. (tdt + NTX - tdh) % NTX = Given
    <3>1. tdh \in 0 .. NTX - 1 /\ tdt \in 0 .. NTX - 1 /\ NTX \in Nat \ {0}
      BY <1>0, CardAssume DEF SendType, TxDescs
    <3> QED
      BY <3>1, DistMod DEF Given
  <2>5. sending = "out" => framesSent - Len(onWire) = Given
    BY <1>0, <2>1, <2>2, TxFacts DEF SentAll, Under, SendType
  <2> QED
    BY <2>3, <2>4, <2>5
<1> QED
  BY <1>1, <1>2 DEF CardTrue

(* The receive ring of the card never overtakes itself: net_receive gets   *)
(* the frames the device had a descriptor for in order and once, none is   *)
(* left when the handler is out and no interrupt is due, and what is sent  *)
(* leaves in order and once as long as no call tears into another.         *)
THEOREM CardDeliversInOrder == Spec => []CardTrue
<1>1. Init => CardInv
  BY CardInit DEF Init
<1>2. CardInv /\ [Next]_vars => CardInv'
  <2> SUFFICES ASSUME CardInv, [Next]_vars PROVE CardInv'
    OBVIOUS
  <2>1. E1000Next \/ UNCHANGED e1000Vars
    BY DEF Next, Clients, vars
  <2> QED
    BY <2>1, CardStep
<1>3. CardInv => CardTrue
  BY CardImplied
<1> QED
  BY <1>1, <1>2, <1>3, PTL DEF Spec

-----------------------------------------------------------------------------
(* The receive ring of a socket *)

Places  == 0 .. RING - 1
Msgs    == [of : {"dns"}, size : {1}, id : Nat, verdict : {"address", "error"}]
             \cup [of : {"OFFER", "ACK", "NAK"}, size : Sizes, id : Nat, server : Servers]
CellSet == [n : Nat, part : Nat, msg : Msgs]
SockSet == [used : BOOLEAN, port : {"none", "dns", "dhcp"}, head : Places, tail : Places,
            ring : [Places -> CellSet \cup {NoCell}], stream : Seq(CellSet), taken : Nat,
            lost : BOOLEAN]

(* As long as nothing was lost, the ring holds from the head on what came  *)
(* after the cells that were taken, and nothing else.                      *)
Held(s) == Dist(s.head, s.tail, RING)
RingTrue(s) ==
  ~s.lost =>
    /\ s.taken + Held(s) = Len(s.stream)
    /\ \A j \in Places : Dist(s.head, j, RING) < Held(s) =>
         s.ring[j] = s.stream[s.taken + Dist(s.head, j, RING) + 1]

LEMMA NetAssume == RING \in Nat /\ RING >= 2 /\ Sizes \subseteq 1 .. RING /\ NSock \in Nat \ {0}
  BY NetAssumption, ClientsAssumption

LEMMA MsgSize == \A m \in Msgs : m.size \in 1 .. RING
<1> SUFFICES ASSUME NEW m \in Msgs PROVE m.size \in 1 .. RING
  OBVIOUS
<1>1. CASE m \in [of : {"dns"}, size : {1}, id : Nat, verdict : {"address", "error"}]
  <2>1. m.size = 1
    BY <1>1
  <2> QED
    BY <2>1, NetAssume
<1>2. CASE m \in [of : {"OFFER", "ACK", "NAK"}, size : Sizes, id : Nat, server : Servers]
  <2>1. m.size \in Sizes
    BY <1>2
  <2> QED
    BY <2>1, NetAssume
<1> QED
  BY <1>1, <1>2 DEF Msgs

LEMMA AwayDist ==
  ASSUME NEW s \in SockSet, NEW j \in Places
  PROVE  Away(s, j) = Dist(s.tail, j, RING) /\ Away(s, j) \in Places
<1>1. RING \in Nat \ {0} /\ s.tail \in 0 .. RING - 1 /\ j \in 0 .. RING - 1 /\ RING >= 2
  BY NetAssume DEF SockSet, Places
<1>2. (j - s.tail) % RING = Dist(s.tail, j, RING)
  BY <1>1, DistMod
<1> QED
  BY <1>1, <1>2, DistFacts DEF Away, Places

(* Storing a datagram: the types ...                                       *)
LEMMA StoreTyped ==
  ASSUME NEW s \in SockSet, NEW n \in Nat, NEW m \in Msgs
  PROVE  /\ Store(s, n, m) \in SockSet
         /\ Cells(n, m) \in Seq(CellSet) /\ Len(Cells(n, m)) = m.size
         /\ \A k \in 1 .. m.size : Cells(n, m)[k] = Cell(n, k, m)
<1>1. m.size \in Nat /\ RING \in Nat \ {0} /\ s.tail \in Places
  BY MsgSize, NetAssume DEF SockSet
<1>2. \A k \in Nat : Cell(n, k, m) \in CellSet
  BY DEF Cell, CellSet
<1>3. /\ Cells(n, m) \in Seq(CellSet) /\ Len(Cells(n, m)) = m.size
      /\ \A k \in 1 .. m.size : Cells(n, m)[k] = Cell(n, k, m)
  BY <1>1, <1>2 DEF Cells
<1>4. TailAfter(s, m.size) \in Places
  BY <1>1 DEF TailAfter, Places
<1> DEFINE r == [j \in Places |-> IF Away(s, j) < m.size /\ HasRoom(s, j)
                                  THEN Cell(n, Away(s, j) + 1, m) ELSE s.ring[j]]
           l == s.lost \/ Away(s, s.head - 1) < m.size
<1>5. r \in [Places -> CellSet \cup {NoCell}]
  <2> SUFFICES ASSUME NEW j \in Places PROVE r[j] \in CellSet \cup {NoCell}
    OBVIOUS
  <2>1. Away(s, j) + 1 \in Nat
    BY AwayDist, NetAssume DEF Places
  <2>2. s.ring[j] \in CellSet \cup {NoCell}
    BY DEF SockSet
  <2> QED
    BY <1>2, <2>1, <2>2
<1>6. l \in BOOLEAN
  BY DEF SockSet
<1>7. (IF l THEN <<>> ELSE s.stream \o Cells(n, m)) \in Seq(CellSet)
  BY <1>3 DEF SockSet
<1>8. (IF l THEN 0 ELSE s.taken) \in Nat
  BY DEF SockSet
<1>9. Store(s, n, m) = [s EXCEPT !.ring = r, !.tail = TailAfter(s, m.size), !.lost = l,
                                 !.taken = IF l THEN 0 ELSE s.taken,
                                 !.stream = IF l THEN <<>> ELSE s.stream \o Cells(n, m)]
  BY DEF Store, Places
<1> HIDE DEF r, l
<1>10. Store(s, n, m) \in SockSet
  BY <1>4, <1>5, <1>6, <1>7, <1>8, <1>9 DEF SockSet
<1> QED
  BY <1>3, <1>10

LEMMA StoreFields ==
  ASSUME NEW s \in SockSet, NEW n \in Nat, NEW m \in Msgs
  PROVE  LET z == Store(s, n, m)
             l == s.lost \/ Away(s, s.head - 1) < m.size
         IN /\ z.head = s.head /\ z.used = s.used /\ z.port = s.port
            /\ z.tail = TailAfter(s, m.size)
            /\ z.lost = l
            /\ \A j \in Places : z.ring[j] = IF Away(s, j) < m.size /\ HasRoom(s, j)
                                             THEN Cell(n, Away(s, j) + 1, m) ELSE s.ring[j]
            /\ ~l => z.taken = s.taken /\ z.stream = s.stream \o Cells(n, m)
  BY DEF Store, SockSet, Places

(* ... and the contents.                                                   *)
LEMMA StoreKeeps ==
  ASSUME NEW s \in SockSet, RingTrue(s), NEW n \in Nat, NEW m \in Msgs
  PROVE  LET z == Store(s, n, m)
         IN /\ RingTrue(z)
            /\ ~z.lost => z.head = s.head /\ ~s.lost /\ Held(z) = Held(s) + m.size
<1> DEFINE z == Store(s, n, m)
           h == Held(s)
<1> SUFFICES ASSUME ~z.lost
             PROVE  /\ ~s.lost /\ z.head = s.head /\ Held(z) = h + m.size
                    /\ RingTrue(z)
  BY StoreFields DEF RingTrue
<1> USE NetAssume
<1>1. /\ ~s.lost /\ ~(Away(s, s.head - 1) < m.size)
      /\ z.head = s.head /\ z.tail = TailAfter(s, m.size)
      /\ z.taken = s.taken /\ z.stream = s.stream \o Cells(n, m)
      /\ \A j \in Places : z.ring[j] = IF Away(s, j) < m.size /\ HasRoom(s, j)
                                       THEN Cell(n, Away(s, j) + 1, m) ELSE s.ring[j]
  BY StoreFields
<1> HIDE DEF z
<1>2. s.head \in 0 .. RING - 1 /\ s.tail \in 0 .. RING - 1 /\ m.size \in 1 .. RING /\ s.taken \in Nat
      /\ s.stream \in Seq(CellSet)
  BY MsgSize DEF SockSet, Places
<1>3. h \in 0 .. RING - 1
  BY <1>2, DistFacts DEF Held
<1>4. h + m.size < RING
  <2>1. Away(s, s.head - 1) = RING - 1 - h
    BY <1>2, DistRoom DEF Away, Held
  <2> QED
    BY <1>1, <1>2, <1>3, <2>1
<1>5. Held(z) = h + m.size
  <2>1. Dist(s.head, s.tail, RING) + m.size < RING /\ m.size \in Nat
    BY <1>2, <1>4 DEF Held
  <2>2. Dist(s.head, (s.tail + m.size) % RING, RING) = Dist(s.head, s.tail, RING) + m.size
    BY <1>2, <2>1, DistAdd
  <2> QED
    BY <1>1, <2>2 DEF Held, TailAfter
<1>6. s.taken + h = Len(s.stream)
  BY <1>1 DEF RingTrue
<1>7. /\ Len(z.stream) = Len(s.stream) + m.size
      /\ \A i \in 1 .. Len(s.stream) : z.stream[i] = s.stream[i]
      /\ \A k \in 1 .. m.size : z.stream[Len(s.stream) + k] = Cell(n, k, m)
  <2>1. Cells(n, m) \in Seq(CellSet) /\ Len(Cells(n, m)) = m.size
        /\ \A k \in 1 .. m.size : Cells(n, m)[k] = Cell(n, k, m)
    BY StoreTyped
  <2> DEFINE c == Cells(n, m)
  <2>2. /\ Len(s.stream \o c) = Len(s.stream) + Len(c)
        /\ \A i \in 1 .. Len(s.stream) + Len(c) :
             (s.stream \o c)[i] = IF i <= Len(s.stream) THEN s.stream[i] ELSE c[i - Len(s.stream)]
    BY <1>2, <2>1, ConcatProperties, ZenonT(30)
  <2> HIDE DEF c
  <2>3. Len(s.stream) \in Nat /\ m.size \in Nat
    BY <1>2
  <2>4. ASSUME NEW k \in 1 .. m.size PROVE z.stream[Len(s.stream) + k] = Cell(n, k, m)
    <3>1. Len(s.stream) + k \in 1 .. Len(s.stream) + m.size /\ ~(Len(s.stream) + k <= Len(s.stream))
          /\ Len(s.stream) + k - Len(s.stream) = k
      BY <2>3
    <3>2. Len(s.stream) + k \in 1 .. Len(s.stream) + Len(c)
      BY <2>1, <3>1 DEF c
    <3>3. (s.stream \o c)[Len(s.stream) + k] = c[Len(s.stream) + k - Len(s.stream)]
      BY <2>2, <3>1, <3>2
    <3>4. (s.stream \o c)[Len(s.stream) + k] = Cell(n, k, m)
      BY <2>1, <3>1, <3>3 DEF c
    <3> QED
      BY <1>1, <3>4 DEF c
  <2>5. ASSUME NEW i \in 1 .. Len(s.stream) PROVE z.stream[i] = s.stream[i]
    <3>1. i \in 1 .. Len(s.stream) + m.size /\ i <= Len(s.stream)
      BY <2>3
    <3> QED
      BY <1>1, <2>1, <2>2, <3>1 DEF c
  <2>6. Len(z.stream) = Len(s.stream) + m.size
    <3>1. z.stream = s.stream \o c /\ Len(c) = m.size
      BY <1>1, <2>1 DEF c
    <3> QED
      BY <2>2, <3>1
  <2> QED
    BY <2>4, <2>5, <2>6
<1>8. z.taken + Held(z) = Len(z.stream)
  BY <1>1, <1>2, <1>3, <1>5, <1>6, <1>7
<1>9. ASSUME NEW j \in Places, Dist(s.head, j, RING) < h + m.size
      PROVE  z.ring[j] = z.stream[s.taken + Dist(s.head, j, RING) + 1]
  <2> DEFINE d == Dist(s.head, j, RING)
  <2>1. j \in 0 .. RING - 1 /\ d \in 0 .. RING - 1
    BY <1>2, DistFacts DEF Places
  <2>2. Away(s, j) = IF d < h THEN d - h + RING ELSE d - h
    BY <1>2, <2>1, AwayDist, DistSplit DEF Held
  <2> HIDE DEF d
  <2>3. CASE d < h
    <3>1. ~(Away(s, j) < m.size)
      BY <1>2, <1>3, <1>4, <2>1, <2>2, <2>3
    <3>2. z.ring[j] = s.ring[j]
      BY <1>1, <3>1
    <3>3. s.ring[j] = s.stream[s.taken + d + 1]
      BY <1>1, <2>3 DEF RingTrue, d
    <3>4. s.taken + d + 1 \in 1 .. Len(s.stream)
      BY <1>2, <1>3, <1>6, <2>1, <2>3
    <3> QED
      BY <1>7, <3>2, <3>3, <3>4 DEF d
  <2>4. CASE d >= h
    <3>1. Away(s, j) = d - h /\ d - h < m.size /\ d < RING - 1
      BY <1>2, <1>3, <1>4, <1>9, <2>1, <2>2, <2>4 DEF d
    <3>2. HasRoom(s, j)
      <4>1. (j + 1) % RING = Next1(j, RING)
        <5>1. RING \in Nat \ {0}
          OBVIOUS
        <5> QED
          BY <2>1, <5>1, NextMod
      <4>2. SUFFICES ASSUME Next1(j, RING) = s.head PROVE FALSE
        BY <4>1 DEF HasRoom
      <4>3. Dist(Next1(j, RING), j, RING) = RING - 1
        BY <2>1, DistFacts
      <4> QED
        BY <4>2, <4>3, <3>1, <2>1 DEF d
    <3>3. z.ring[j] = Cell(n, d - h + 1, m)
      BY <1>1, <3>1, <3>2
    <3>4. z.stream[Len(s.stream) + (d - h + 1)] = Cell(n, d - h + 1, m)
      <4>1. d - h + 1 \in 1 .. m.size
        BY <1>2, <1>3, <2>1, <2>4, <3>1
      <4> QED
        BY <1>7, <4>1
    <3>5. Len(s.stream) + (d - h + 1) = s.taken + d + 1
      BY <1>2, <1>3, <1>6, <2>1
    <3> QED
      BY <3>3, <3>4, <3>5 DEF d
  <2> QED
    BY <1>3, <2>1, <2>3, <2>4
<1>10. RingTrue(z)
  BY <1>1, <1>5, <1>8, <1>9 DEF RingTrue
<1> QED
  BY <1>1, <1>5, <1>10

(* The reader takes the cell at the head.                                  *)
LEMMA PassKeeps ==
  ASSUME NEW s \in SockSet, RingTrue(s), ~s.lost => s.head # s.tail
  PROVE  LET z == [s EXCEPT !.head = (@ + 1) % RING, !.taken = IF s.lost THEN 0 ELSE @ + 1]
         IN z \in SockSet /\ RingTrue(z)
<1> DEFINE z == [s EXCEPT !.head = (@ + 1) % RING, !.taken = IF s.lost THEN 0 ELSE @ + 1]
<1> USE NetAssume
<1>1. s.head \in 0 .. RING - 1 /\ s.tail \in 0 .. RING - 1 /\ s.taken \in Nat
  BY DEF SockSet, Places
<1>2. (s.head + 1) % RING = Next1(s.head, RING) /\ Next1(s.head, RING) \in Places
  <2>1. RING \in Nat \ {0}
    OBVIOUS
  <2> QED
    BY <1>1, <2>1, NextMod, DistFacts DEF Places
<1>3. z \in SockSet
  <2> DEFINE tk == IF s.lost THEN 0 ELSE s.taken + 1
  <2>1. tk \in Nat
    BY <1>1
  <2>2. z = [s EXCEPT !.head = Next1(s.head, RING), !.taken = tk]
    BY <1>2
  <2> HIDE DEF tk, z
  <2> QED
    BY <1>2, <2>1, <2>2 DEF SockSet
<1>4. ASSUME ~s.lost PROVE RingTrue(z)
  <2>1. z.head = Next1(s.head, RING) /\ z.taken = s.taken + 1 /\ z.tail = s.tail
        /\ z.ring = s.ring /\ z.stream = s.stream
    BY <1>2, <1>4 DEF SockSet
  <2> HIDE DEF z
  <2>2. Held(z) = Held(s) - 1 /\ Held(s) \in 0 .. RING - 1 /\ Held(s) > 0
    <3>1. s.head # s.tail
      BY <1>4
    <3>2. /\ Dist(Next1(s.head, RING), s.tail, RING) = Dist(s.head, s.tail, RING) - 1
          /\ Dist(s.head, s.tail, RING) \in 0 .. RING - 1 /\ Dist(s.head, s.tail, RING) > 0
      BY <1>1, <3>1, DistFacts
    <3> QED
      BY <2>1, <3>2 DEF Held
  <2>3. s.taken + Held(s) = Len(s.stream)
    BY <1>4 DEF RingTrue
  <2>4. ASSUME NEW j \in Places, Dist(z.head, j, RING) < Held(z)
        PROVE  z.ring[j] = z.stream[z.taken + Dist(z.head, j, RING) + 1]
    <3>1. j \in 0 .. RING - 1
      BY DEF Places
    <3>2. j # s.head
      <4>1. Dist(Next1(s.head, RING), s.head, RING) = RING - 1
        BY <1>1, DistFacts
      <4> QED
        BY <4>1, <2>1, <2>2, <2>4
    <3>3. Dist(z.head, j, RING) = Dist(s.head, j, RING) - 1 /\ Dist(s.head, j, RING) \in Nat
      <4>1. /\ Dist(Next1(s.head, RING), j, RING) = Dist(s.head, j, RING) - 1
            /\ Dist(s.head, j, RING) \in 0 .. RING - 1
        BY <1>1, <3>1, <3>2, DistFacts
      <4> QED
        BY <2>1, <4>1
    <3>4. Dist(s.head, j, RING) < Held(s)
      BY <2>2, <2>4, <3>3
    <3>5. s.ring[j] = s.stream[s.taken + Dist(s.head, j, RING) + 1]
      BY <1>4, <3>4 DEF RingTrue
    <3>6. z.taken + Dist(z.head, j, RING) + 1 = s.taken + Dist(s.head, j, RING) + 1
      BY <1>1, <2>1, <3>3
    <3> QED
      BY <2>1, <3>5, <3>6
  <2> QED
    BY <1>1, <2>1, <2>2, <2>3, <2>4 DEF RingTrue
<1>5. ASSUME s.lost PROVE RingTrue(z)
  <2>1. z.lost
    BY <1>5 DEF SockSet
  <2> QED
    BY <2>1 DEF RingTrue
<1> QED
  BY <1>3, <1>4, <1>5

(* What BytesExact says of a socket follows.                               *)
LEMMA RingExact ==
  ASSUME NEW s \in SockSet, RingTrue(s), ~s.lost
  PROVE  Content(s) = SubSeq(s.stream, s.taken + 1, Len(s.stream))
<1> USE NetAssume
<1>1. s.head \in 0 .. RING - 1 /\ s.tail \in 0 .. RING - 1 /\ s.taken \in Nat
      /\ s.stream \in Seq(CellSet) /\ Len(s.stream) \in Nat /\ RING \in Nat \ {0}
  BY DEF SockSet, Places
<1>2. Held(s) \in 0 .. RING - 1 /\ (s.tail - s.head) % RING = Held(s)
      /\ s.taken + Held(s) = Len(s.stream)
  BY <1>1, DistFacts, DistMod DEF Held, RingTrue
<1> DEFINE t == SubSeq(s.stream, s.taken + 1, Len(s.stream))
<1>3. \A i \in s.taken + 1 .. Len(s.stream) : s.stream[i] \in CellSet
  BY <1>1, ElementOfSeq
<1>4. /\ t \in Seq(CellSet) /\ Len(t) = Held(s)
      /\ \A i \in 1 .. Held(s) : t[i] = s.stream[s.taken + i]
  <2>1. s.taken + 1 \in Int /\ Len(s.stream) \in Int
        /\ Len(s.stream) - (s.taken + 1) + 1 = Held(s)
    BY <1>1, <1>2
  <2>2. /\ t \in Seq(CellSet)
        /\ Len(t) = IF s.taken + 1 <= Len(s.stream) THEN Len(s.stream) - (s.taken + 1) + 1 ELSE 0
        /\ \A i \in 1 .. Len(s.stream) - (s.taken + 1) + 1 : t[i] = s.stream[s.taken + 1 + i - 1]
    <3> DEFINE m == s.taken + 1
               n == Len(s.stream)
    <3>1. m \in Int /\ n \in Int /\ \A i \in m .. n : s.stream[i] \in CellSet
      BY <1>3, <2>1
    <3> HIDE DEF m, n
    <3>2. /\ SubSeq(s.stream, m, n) \in Seq(CellSet)
          /\ Len(SubSeq(s.stream, m, n)) = IF m <= n THEN n - m + 1 ELSE 0
          /\ \A i \in 1 .. n - m + 1 : SubSeq(s.stream, m, n)[i] = s.stream[m + i - 1]
      BY <3>1, SubSeqProperties
    <3> QED
      BY <3>2, Zenon DEF m, n
  <2> HIDE DEF t
  <2>3. Len(t) = Held(s)
    BY <1>1, <1>2, <2>1, <2>2
  <2>4. ASSUME NEW i \in 1 .. Held(s) PROVE t[i] = s.stream[s.taken + i]
    <3>1. s.taken + 1 + i - 1 = s.taken + i
      BY <1>1
    <3> QED
      BY <2>1, <2>2, <3>1
  <2> QED
    BY <2>2, <2>3, <2>4
<1> HIDE DEF t
<1>5. ASSUME NEW i \in 1 .. Held(s) PROVE s.ring[(s.head + i - 1) % RING] = t[i]
  <2> DEFINE j == (s.head + i - 1) % RING
  <2>1. i - 1 \in Nat /\ Dist(s.head, s.head, RING) + (i - 1) < RING
    <3>1. Dist(s.head, s.head, RING) = 0
      BY <1>1, DistFacts
    <3> QED
      BY <1>1, <1>2, <3>1
  <2>2. (s.head + (i - 1)) % RING = j
    BY <1>1
  <2>3. j \in Places /\ Dist(s.head, j, RING) = i - 1
    <3>1. Dist(s.head, s.head, RING) = 0
      BY <1>1, DistFacts
    <3>2. /\ (s.head + (i - 1)) % RING \in 0 .. RING - 1
          /\ Dist(s.head, (s.head + (i - 1)) % RING, RING) = Dist(s.head, s.head, RING) + (i - 1)
      BY <1>1, <2>1, DistAdd
    <3> HIDE DEF j
    <3> QED
      BY <2>1, <2>2, <3>1, <3>2 DEF Places
  <2>4. s.ring[j] = s.stream[s.taken + (i - 1) + 1]
    BY <1>2, <2>3 DEF RingTrue
  <2> QED
    BY <1>1, <1>4, <2>4
<1>6. t = [i \in 1 .. Held(s) |-> t[i]]
  BY <1>4
<1>7. Content(s) = [i \in 1 .. Held(s) |-> s.ring[(s.head + i - 1) % RING]]
  BY <1>2 DEF Content
<1> QED
  BY <1>5, <1>6, <1>7 DEF t

-----------------------------------------------------------------------------
(* The stack and its clients: an acknowledgement on the wire, in a ring or *)
(* in the buffer is of a server that has acknowledged a lease, what comes  *)
(* to the port of DHCP is DHCP, and between the copy of a cell and the     *)
(* move of the head the cell stays there.                                  *)
Proper(c, port, A) ==
  /\ c.msg.of = "ACK" => c.msg.server \in A
  /\ port = "dhcp" => c.msg.of # "dns"
FrameTrue(f, A) ==
  /\ f.kind = "arp" => f.from \in Stations
  /\ f.kind = "udp" => f.msg \in Msgs /\ Proper(f, f.port, A)

SocksTrue ==
  /\ socks \in [Fds -> SockSet]
  /\ \A e \in Fds : RingTrue(socks[e]) /\ \A j \in Places : Proper(socks[e].ring[j], socks[e].port, acked)
WireTrue == \A f \in wire : FrameTrue(f, acked)
ArpTrue  ==
  /\ ifaces \in {<<"lo", "eth">>, <<"eth">>} /\ eth.gw \in Stations \cup {"none"}
  /\ DOMAIN arp \subseteq Stations /\ IsFiniteSet(DOMAIN arp) /\ Cardinality(DOMAIN arp) <= NArp
  /\ arrived \in 0 .. MaxArrived
CallTrue ==
  /\ pc \in Waiting \cup {"idle"} /\ fd \in Fds /\ copied \in BOOLEAN /\ polls \in 0 .. Polls
  /\ txid \in Nat /\ xid \in Nat /\ calls \in 0 .. MaxCalls /\ acked \subseteq Servers
  /\ offer \in Servers \cup {"none"} /\ fields \in Servers \cup {"none"}
CallPort == IF pc \in {"offer", "ack"} THEN "dhcp" ELSE "dns"

BufTrue ==
  /\ buf \in Seq(CellSet \cup {NoCell}) /\ Len(buf) <= Wants
  /\ pc = "idle" => buf = <<>>
  /\ \A i \in 1 .. Len(buf) : Proper(buf[i], CallPort, acked)
CopyTrue ==
  /\ copied => pc \in Waiting /\ polls < Polls /\ (~socks[fd].lost => Readable(fd))
  /\ CallPort = "dhcp" => socks[fd].port = "dhcp"

StackInv ==
  SocksTrue /\ WireTrue /\ ArpTrue /\ CallTrue /\ BufTrue /\ CopyTrue /\ AnswersAreOwn

Empty(b, port) == [used |-> b, port |-> port, head |-> 0, tail |-> 0,
                   ring |-> [i \in Places |-> NoCell], stream |-> <<>>, taken |-> 0, lost |-> FALSE]

LEMMA EmptyTrue ==
  ASSUME NEW port \in {"none", "dns", "dhcp"}, NEW b \in BOOLEAN
  PROVE  LET s == Empty(b, port)
         IN s \in SockSet /\ RingTrue(s) /\ \A j \in Places : s.ring[j] = NoCell
<1> DEFINE s == Empty(b, port)
<1>1. /\ s.head = 0 /\ s.tail = 0 /\ s.taken = 0 /\ s.stream = <<>> /\ s.lost = FALSE
      /\ s.used = b /\ s.port = port /\ s.ring = [i \in Places |-> NoCell]
  BY DEF Empty
<1>2. s = [used |-> b, port |-> port, head |-> 0, tail |-> 0, ring |-> [i \in Places |-> NoCell],
           stream |-> <<>>, taken |-> 0, lost |-> FALSE]
  BY DEF Empty
<1>3. 0 \in Places /\ <<>> \in Seq(CellSet)
  BY NetAssume DEF Places
<1> HIDE DEF s
<1>4. s \in SockSet
  <2>1. [i \in Places |-> NoCell] \in [Places -> CellSet \cup {NoCell}]
    OBVIOUS
  <2> QED
    BY <1>2, <1>3, <2>1 DEF SockSet
<1>5. Held(s) = 0
  BY <1>1, NetAssume DEF Held, Dist
<1>6. \A j \in Places : Dist(s.head, j, RING) \in Nat
  BY <1>1, NetAssume DEF Dist, Places
<1>7. RingTrue(s)
  BY <1>1, <1>5, <1>6 DEF RingTrue
<1>8. \A j \in Places : s.ring[j] = NoCell
  BY <1>1
<1> QED
  BY <1>4, <1>7, <1>8 DEF s

LEMMA StackInit == NetInit /\ ClientInit => StackInv
<1> SUFFICES ASSUME NetInit, ClientInit PROVE StackInv
  OBVIOUS
<1>1. SocksTrue
  <2>1. Closed = Empty(FALSE, "none")
    BY DEF Closed, Empty, Places
  <2>2. \A port : Proper(NoCell, port, acked)
    BY DEF Proper, NoCell
  <2> QED
    BY <2>1, <2>2, EmptyTrue DEF SocksTrue, NetInit
<1>2. WireTrue
  BY DEF WireTrue, NetInit, FrameTrue
<1>3. ArpTrue
  <2>1. DOMAIN arp = {}
    BY DEF NetInit
  <2>2. IsFiniteSet({}) /\ Cardinality({}) = 0
    BY FS_EmptySet
  <2>3. eth.gw \in Stations \cup {"none"} /\ ifaces \in {<<"lo", "eth">>, <<"eth">>} /\ arrived = 0
    BY NetAssumption DEF NetInit, Bare, Configured
  <2> QED
    BY <2>1, <2>2, <2>3, NetAssumption DEF ArpTrue
<1>4. CallTrue
  <2>1. /\ pc = "idle" /\ fd = 1 /\ copied = FALSE /\ polls = 0 /\ txid = 1 /\ xid = 1 /\ calls = 0
        /\ acked = {} /\ offer = "none" /\ fields = "none"
    BY DEF ClientInit
  <2>2. 1 \in Fds /\ 0 \in 0 .. Polls /\ 0 \in 0 .. MaxCalls
    BY NetAssume, ClientsAssumption DEF Fds
  <2> QED
    BY <2>1, <2>2 DEF CallTrue
<1>5. BufTrue /\ CopyTrue
  BY ClientsAssumption DEF ClientInit, BufTrue, CopyTrue, Wants, CallPort
<1>6. AnswersAreOwn
  <2>1. result.got = result.asked
    BY DEF ClientInit, None
  <2>2. eth.ip \in {"none", "us"}
    BY DEF NetInit, Bare, Configured
  <2> QED
    BY <2>1, <2>2, ClientsAssumption DEF AnswersAreOwn
<1> QED
  BY <1>1, <1>2, <1>3, <1>4, <1>5, <1>6 DEF StackInv

-----------------------------------------------------------------------------
(* What a step leaves alone, or only adds to, stays true.                  *)
LEMMA AckGrows ==
  ASSUME NEW c, NEW A, NEW B, A \subseteq B, NEW port, Proper(c, port, A)
  PROVE  Proper(c, port, B)
  BY DEF Proper

LEMMA BringsTrue ==
  ASSUME NEW A, NEW X, \A f \in X : FrameTrue(f, A), NEW i, NEW dst
  PROVE  \A f \in Brings(i, dst, X) : FrameTrue(f, A)
<1>1. \A f \in AskedFor(i, NextHop(i, dst)) : FrameTrue(f, A)
  BY DEF AskedFor, FrameTrue
<1> QED
  BY <1>1 DEF Brings, Loops

LEMMA WireGrows ==
  ASSUME WireTrue, acked \subseteq acked', NEW X, wire' = wire \cup X,
         \A f \in X : FrameTrue(f, acked')
  PROVE  WireTrue'
<1>1. \A f \in wire : FrameTrue(f, acked')
  BY AckGrows DEF WireTrue, FrameTrue
<1> QED
  BY <1>1 DEF WireTrue

LEMMA SocksUnchanged ==
  ASSUME SocksTrue, acked \subseteq acked', socks' = socks
  PROVE  SocksTrue'
  BY AckGrows DEF SocksTrue, Fds, Places, SockSet, CellSet, Msgs, RingTrue, Held, NoCell

(* A frame is received in an interrupt.                                    *)
LEMMA ArpKeeps ==
  ASSUME StackInv, NEW f \in wire, ReceiveArp(f), UNCHANGED clientVars
  PROVE  StackInv'
<1>0. SocksTrue /\ WireTrue /\ ArpTrue /\ CallTrue /\ BufTrue /\ CopyTrue /\ AnswersAreOwn
  BY DEF StackInv
<1>1. /\ arp' = ArpAdd(f.from, f.from) /\ f.from \in Stations
      /\ ifaces' = ifaces /\ eth' = eth /\ socks' = socks /\ wire' = wire /\ arrived' = arrived
  BY <1>0 DEF ReceiveArp, WireTrue, FrameTrue
<1>2. ArpTrue'
  <2>1. DOMAIN arp' \subseteq Stations /\ IsFiniteSet(DOMAIN arp') /\ Cardinality(DOMAIN arp') <= NArp
    <3>1. CASE f.from \in DOMAIN arp
      <4>1. DOMAIN arp' = DOMAIN arp
        BY <1>1, <3>1 DEF ArpAdd
      <4> QED
        BY <1>0, <4>1 DEF ArpTrue
    <3>2. CASE f.from \notin DOMAIN arp /\ Cardinality(DOMAIN arp) < NArp
      <4>1. DOMAIN arp' = DOMAIN arp \cup {f.from}
        BY <1>1, <3>2 DEF ArpAdd
      <4>2. IsFiniteSet(DOMAIN arp') /\ Cardinality(DOMAIN arp') = Cardinality(DOMAIN arp) + 1
        BY <1>0, <3>2, <4>1, FS_AddElement DEF ArpTrue
      <4>3. Cardinality(DOMAIN arp) \in Nat
        BY <1>0, FS_CardinalityType DEF ArpTrue
      <4> QED
        <5>1. DOMAIN arp' \subseteq Stations
          BY <1>0, <1>1, <4>1 DEF ArpTrue
        <5>2. Cardinality(DOMAIN arp') <= NArp
          BY <3>2, <4>2, <4>3, NetAssumption
        <5> QED
          BY <4>2, <5>1, <5>2
    <3>3. CASE f.from \notin DOMAIN arp /\ ~(Cardinality(DOMAIN arp) < NArp)
      <4>1. arp' = arp
        BY <1>1, <3>3 DEF ArpAdd
      <4> QED
        BY <1>0, <4>1 DEF ArpTrue
    <3> QED
      BY <3>1, <3>2, <3>3
  <2> QED
    BY <1>0, <1>1, <2>1 DEF ArpTrue
<1>3. SocksTrue'
  BY <1>0, <1>1, SocksUnchanged DEF clientVars
<1>4. WireTrue' /\ CallTrue' /\ BufTrue' /\ CopyTrue' /\ AnswersAreOwn'
  BY <1>0, <1>1 DEF clientVars, WireTrue, CallTrue, BufTrue, CopyTrue, AnswersAreOwn, FrameTrue,
     Proper, Readable, Wants, CallPort
<1> QED
  BY <1>2, <1>3, <1>4 DEF StackInv

LEMMA EchoKeeps ==
  ASSUME StackInv, NEW f \in wire, ReceiveEcho(f), UNCHANGED clientVars
  PROVE  StackInv'
<1>0. SocksTrue /\ WireTrue /\ ArpTrue /\ CallTrue /\ BufTrue /\ CopyTrue /\ AnswersAreOwn
  BY DEF StackInv
<1>1. /\ wire' = wire \cup Brings("eth", f.from, {})
      /\ ifaces' = ifaces /\ eth' = eth /\ socks' = socks /\ arp' = arp /\ arrived' = arrived
      /\ acked' = acked
  BY DEF ReceiveEcho, clientVars
<1>2. WireTrue'
  BY <1>0, <1>1, BringsTrue, WireGrows
<1>3. SocksTrue'
  BY <1>0, <1>1, SocksUnchanged DEF clientVars
<1>4. ArpTrue' /\ CallTrue' /\ BufTrue' /\ CopyTrue' /\ AnswersAreOwn'
  BY <1>0, <1>1 DEF clientVars, ArpTrue, CallTrue, BufTrue, CopyTrue, AnswersAreOwn,
     Proper, Readable, Wants, CallPort
<1> QED
  BY <1>2, <1>3, <1>4 DEF StackInv

LEMMA UdpKeeps ==
  ASSUME StackInv, NEW f \in wire, ReceiveUdp(f), UNCHANGED clientVars
  PROVE  StackInv'
<1>0. SocksTrue /\ WireTrue /\ ArpTrue /\ CallTrue /\ BufTrue /\ CopyTrue /\ AnswersAreOwn
  BY DEF StackInv
<1>1. /\ f.msg \in Msgs /\ Proper(f, f.port, acked) /\ arrived' = arrived + 1 /\ arrived < MaxArrived
      /\ ifaces' = ifaces /\ eth' = eth /\ arp' = arp /\ wire' = wire
      /\ socks' = [e \in Fds |-> IF Listens(e, f) THEN Store(socks[e], arrived', f.msg)
                                 ELSE socks[e]]
  BY <1>0 DEF ReceiveUdp, WireTrue, FrameTrue
<1>2. arrived' \in Nat /\ arrived' \in 0 .. MaxArrived
  BY <1>0, <1>1, NetAssumption DEF ArpTrue
<1>3. \A e \in Fds : socks[e] \in SockSet /\ RingTrue(socks[e])
                     /\ \A j \in Places : Proper(socks[e].ring[j], socks[e].port, acked)
  BY <1>0 DEF SocksTrue
<1>4. ASSUME NEW e \in Fds
      PROVE  /\ socks'[e] \in SockSet /\ RingTrue(socks'[e])
             /\ \A j \in Places : Proper(socks'[e].ring[j], socks'[e].port, acked)
             /\ socks'[e].port = socks[e].port
             /\ ~socks'[e].lost => /\ socks'[e].head = socks[e].head /\ ~socks[e].lost
                                   /\ socks[e].head # socks[e].tail => socks'[e].head # socks'[e].tail
  <2>1. CASE ~Listens(e, f)
    BY <1>1, <1>3, <2>1
  <2>2. CASE Listens(e, f)
    <3> DEFINE s == socks[e]
               z == Store(s, arrived', f.msg)
    <3>1. socks'[e] = z
      BY <1>1, <2>2
    <3>2. s \in SockSet /\ RingTrue(s) /\ \A j \in Places : Proper(s.ring[j], s.port, acked)
      BY <1>3
    <3> HIDE DEF s
    <3>3. z \in SockSet
      BY <1>1, <1>2, <3>2, StoreTyped
    <3>4. RingTrue(z) /\ (~z.lost => z.head = s.head /\ ~s.lost /\ Held(z) = Held(s) + f.msg.size)
      BY <1>1, <1>2, <3>2, StoreKeeps
    <3>5. \A j \in Places : Proper(z.ring[j], z.port, acked)
      <4> SUFFICES ASSUME NEW j \in Places PROVE Proper(z.ring[j], z.port, acked)
        OBVIOUS
      <4>1. \/ z.ring[j] = Cell(arrived', Away(s, j) + 1, f.msg)
            \/ z.ring[j] = s.ring[j]
        BY <1>1, <1>2, <3>2, StoreFields
      <4>2. Proper(Cell(arrived', Away(s, j) + 1, f.msg), f.port, acked)
        BY <1>1 DEF Proper, Cell
      <4>3. s.port = f.port /\ z.port = s.port
        BY <1>1, <1>2, <2>2, <3>2, StoreFields DEF Listens, s
      <4> QED
        BY <3>2, <4>1, <4>2, <4>3
    <3>6. ASSUME ~z.lost, s.head # s.tail PROVE z.head # z.tail
      <4>1. s.head \in 0 .. RING - 1 /\ s.tail \in 0 .. RING - 1 /\ f.msg.size \in 1 .. RING
        BY <1>1, <3>2, MsgSize DEF SockSet, Places
      <4>2. Held(z) > 0
        <5>1. Dist(s.head, s.tail, RING) > 0 /\ Dist(s.head, s.tail, RING) \in 0 .. RING - 1
          BY <3>6, <4>1, NetAssume, DistFacts
        <5> QED
          BY <3>4, <3>6, <4>1, <5>1 DEF Held
      <4>3. Dist(z.head, z.head, RING) = 0
        BY <3>4, <3>6, <4>1, NetAssume, DistFacts
      <4> QED
        BY <4>2, <4>3 DEF Held
    <3>7. z.port = s.port
      BY <1>1, <1>2, <3>2, StoreFields
    <3> HIDE DEF z
    <3> QED
      BY <3>1, <3>3, <3>4, <3>5, <3>6, <3>7 DEF s
  <2> QED
    BY <2>1, <2>2
<1>5. /\ acked' = acked /\ pc' = pc /\ fd' = fd /\ copied' = copied /\ polls' = polls /\ buf' = buf
      /\ txid' = txid /\ xid' = xid /\ calls' = calls /\ offer' = offer /\ fields' = fields
      /\ result' = result
  BY DEF clientVars
<1>6. SocksTrue'
  <2>1. socks' \in [Fds -> SockSet]
    BY <1>1, <1>4
  <2> QED
    BY <1>4, <1>5, <2>1 DEF SocksTrue
<1>7. CopyTrue'
  BY <1>0, <1>4, <1>5 DEF CopyTrue, CallTrue, Readable, CallPort
<1>8. WireTrue' /\ ArpTrue'
  BY <1>0, <1>1, <1>2, <1>5 DEF WireTrue, ArpTrue
<1>9. CallTrue' /\ BufTrue' /\ AnswersAreOwn'
  BY <1>0, <1>1, <1>5 DEF CallTrue, BufTrue, AnswersAreOwn, Wants, CallPort
<1> QED
  BY <1>6, <1>7, <1>8, <1>9 DEF StackInv

-----------------------------------------------------------------------------
(* A call begins                                                           *)
LEMMA BeginKeeps ==
  ASSUME StackInv, acked' = acked, NEW e \in Fds, NEW port \in {"dns", "dhcp"}, NEW at \in Waiting,
         at \in {"offer", "ack"} => port = "dhcp", Begin(e, port, at)
  PROVE  SocksTrue' /\ CopyTrue' /\ BufTrue'
         /\ pc' = at /\ fd' = e /\ copied' = FALSE /\ polls' = 0 /\ calls' \in 0 .. MaxCalls
<1>0. SocksTrue /\ CallTrue
  BY DEF StackInv
<1>1. /\ calls < MaxCalls /\ calls' = calls + 1 /\ fd' = e /\ pc' = at
      /\ buf' = <<>> /\ copied' = FALSE /\ polls' = 0
      /\ socks' = [socks EXCEPT ![e] = Opened(port)]
  BY DEF Begin
<1>2. Opened(port) = Empty(TRUE, port)
  <2>1. Closed = Empty(FALSE, "none")
    BY DEF Closed, Empty, Places
  <2>2. Opened(port) = [Empty(FALSE, "none") EXCEPT !.used = TRUE, !.port = port]
    BY <2>1 DEF Opened
  <2> QED
    BY <2>2 DEF Empty
<1>3. /\ Opened(port) \in SockSet /\ RingTrue(Opened(port))
      /\ \A j \in Places : Opened(port).ring[j] = NoCell
  BY <1>2, EmptyTrue
<1>4. \A q : Proper(NoCell, q, acked)
  BY DEF Proper, NoCell
<1>5. ASSUME NEW d \in Fds
      PROVE  socks'[d] \in SockSet /\ RingTrue(socks'[d])
             /\ \A j \in Places : Proper(socks'[d].ring[j], socks'[d].port, acked)
  <2>1. CASE d = e
    <3>1. socks'[d] = Opened(port)
      BY <1>0, <1>1, <2>1 DEF SocksTrue
    <3> QED
      BY <3>1, <1>3, <1>4
  <2>2. CASE d # e
    <3>1. socks'[d] = socks[d]
      BY <1>0, <1>1, <2>2 DEF SocksTrue
    <3> QED
      BY <3>1, <1>0 DEF SocksTrue
  <2> QED
    BY <2>1, <2>2
<1>6. SocksTrue'
  <2>1. socks' \in [Fds -> SockSet]
    BY <1>0, <1>1, <1>3 DEF SocksTrue
  <2> QED
    BY <1>5, <2>1 DEF SocksTrue
<1>7. CopyTrue'
  <2>1. socks'[e].port = port
    BY <1>0, <1>1, <1>2 DEF SocksTrue, Empty
  <2> QED
    BY <1>1, <2>1 DEF CopyTrue, CallPort
<1>8. BufTrue'
  BY <1>1, ClientsAssumption DEF BufTrue, Wants, Waiting
<1>9. calls' \in 0 .. MaxCalls
  BY <1>0, <1>1, ClientsAssumption DEF CallTrue
<1> QED
  BY <1>1, <1>6, <1>7, <1>8, <1>9

LEMMA ResolveKeeps ==
  ASSUME StackInv, NEW e \in Fds, NEW verdict \in {"address", "error"}, Resolve(e, verdict)
  PROVE  StackInv'
<1>0. SocksTrue /\ WireTrue /\ ArpTrue /\ CallTrue /\ BufTrue /\ CopyTrue /\ AnswersAreOwn
  BY DEF StackInv
<1>1. /\ Begin(e, "dns", "dns")
      /\ wire' = wire \cup Brings(Primary, "dns", Answers(txid, verdict)) /\ txid' = txid + 1
      /\ ifaces' = ifaces /\ eth' = eth /\ arp' = arp /\ arrived' = arrived /\ xid' = xid
      /\ offer' = offer /\ fields' = fields /\ result' = result /\ acked' = acked
  BY DEF Resolve
<1>2. /\ SocksTrue' /\ CopyTrue' /\ BufTrue'
      /\ pc' = "dns" /\ fd' = e /\ copied' = FALSE /\ polls' = 0 /\ calls' \in 0 .. MaxCalls
  BY <1>1, BeginKeeps DEF Waiting
<1>3. \A f \in Answers(txid, verdict) : FrameTrue(f, acked)
  <2> DEFINE m == [of |-> "dns", size |-> 1, id |-> txid, verdict |-> verdict]
  <2>1. m \in Msgs /\ m.of = "dns"
    BY <1>0 DEF CallTrue, Msgs
  <2> SUFFICES ASSUME NEW f \in Answers(txid, verdict) PROVE FrameTrue(f, acked)
    OBVIOUS
  <2>2. f.kind = "udp" /\ f.msg = m /\ f.port = "dns"
    BY DEF Answers, Udp
  <2> HIDE DEF m
  <2> QED
    BY <2>1, <2>2 DEF FrameTrue, Proper
<1>4. WireTrue'
  BY <1>0, <1>1, <1>3, BringsTrue, WireGrows
<1>5. ArpTrue' /\ AnswersAreOwn'
  BY <1>0, <1>1 DEF ArpTrue, AnswersAreOwn
<1>6. CallTrue'
  <2>1. 0 \in 0 .. Polls /\ pc' \in Waiting /\ fd' \in Fds /\ txid' \in Nat
    BY <1>0, <1>1, <1>2, ClientsAssumption DEF CallTrue, Waiting
  <2> QED
    BY <1>0, <1>1, <1>2, <2>1 DEF CallTrue
<1> QED
  BY <1>2, <1>4, <1>5, <1>6 DEF StackInv

LEMMA UnsentKeeps ==
  ASSUME StackInv, NEW e \in Fds, ResolveUnsent(e)
  PROVE  StackInv'
<1>0. SocksTrue /\ WireTrue /\ ArpTrue /\ CallTrue /\ BufTrue /\ CopyTrue /\ AnswersAreOwn
  BY DEF StackInv
<1>1. /\ wire' = wire \cup Brings(Primary, "dns", {}) /\ txid' = txid + 1
      /\ calls < MaxCalls /\ calls' = calls + 1
      /\ ifaces' = ifaces /\ eth' = eth /\ arp' = arp /\ socks' = socks /\ arrived' = arrived
      /\ pc' = pc /\ fd' = fd /\ buf' = buf /\ copied' = copied /\ polls' = polls /\ xid' = xid
      /\ offer' = offer /\ fields' = fields /\ result' = result /\ acked' = acked
  BY DEF ResolveUnsent
<1>2. WireTrue'
  BY <1>0, <1>1, BringsTrue, WireGrows
<1>3. SocksTrue'
  BY <1>0, <1>1, SocksUnchanged
<1>4. ArpTrue' /\ AnswersAreOwn' /\ BufTrue' /\ CopyTrue'
  BY <1>0, <1>1 DEF ArpTrue, AnswersAreOwn, BufTrue, CopyTrue, Wants, Readable, CallPort
<1>5. CallTrue'
  BY <1>0, <1>1, ClientsAssumption DEF CallTrue
<1> QED
  BY <1>2, <1>3, <1>4, <1>5 DEF StackInv

(* A reply of a DHCP server is a frame as all of them.                     *)
LEMMA ReplyTrue ==
  ASSUME xid \in Nat, NEW of \in {"OFFER", "ACK", "NAK"}, NEW s \in Servers, NEW size \in Sizes,
         NEW A, of = "ACK" => s \in A
  PROVE  FrameTrue(Reply(of, s, size), A)
<1> DEFINE m == [of |-> of, size |-> size, id |-> xid, server |-> s]
<1>1. m \in Msgs /\ m.of = of /\ m.server = s
  BY DEF Msgs
<1>2. Reply(of, s, size).kind = "udp" /\ Reply(of, s, size).msg = m
  BY DEF Reply, Udp
<1> HIDE DEF m
<1> QED
  BY <1>1, <1>2 DEF FrameTrue, Proper

LEMMA DiscoverKeeps ==
  ASSUME StackInv, NEW e \in Fds, NEW size \in Sizes, Discover(e, size)
  PROVE  StackInv'
<1>0. SocksTrue /\ WireTrue /\ ArpTrue /\ CallTrue /\ BufTrue /\ CopyTrue /\ AnswersAreOwn
  BY DEF StackInv
<1>1. /\ Begin(e, "dhcp", "offer")
      /\ wire' = wire \cup Brings(Primary, "bcast", Offers(size))
      /\ offer' = "none" /\ fields' = "none"
      /\ ifaces' = ifaces /\ eth' = eth /\ arp' = arp /\ arrived' = arrived /\ xid' = xid
      /\ txid' = txid /\ result' = result /\ acked' = acked
  BY DEF Discover
<1>2. /\ SocksTrue' /\ CopyTrue' /\ BufTrue'
      /\ pc' = "offer" /\ fd' = e /\ copied' = FALSE /\ polls' = 0 /\ calls' \in 0 .. MaxCalls
  BY <1>1, BeginKeeps DEF Waiting
<1>3. \A f \in Offers(size) : FrameTrue(f, acked)
  BY <1>0, ReplyTrue DEF Offers, CallTrue
<1>4. WireTrue'
  BY <1>0, <1>1, <1>3, BringsTrue, WireGrows
<1>5. ArpTrue' /\ AnswersAreOwn'
  BY <1>0, <1>1 DEF ArpTrue, AnswersAreOwn
<1>6. CallTrue'
  <2>1. 0 \in 0 .. Polls /\ pc' \in Waiting /\ fd' \in Fds /\ txid' \in Nat
    BY <1>0, <1>1, <1>2, ClientsAssumption DEF CallTrue, Waiting
  <2> QED
    BY <1>0, <1>1, <1>2, <2>1 DEF CallTrue
<1> QED
  BY <1>2, <1>4, <1>5, <1>6 DEF StackInv

-----------------------------------------------------------------------------
(* A call goes on                                                          *)

(* One socket is replaced by a true one.                                   *)
LEMMA SocketReplaced ==
  ASSUME SocksTrue, NEW e \in Fds, NEW z \in SockSet, RingTrue(z), z.ring = socks[e].ring,
         z.port = socks[e].port,
         acked' = acked, socks' = [socks EXCEPT ![e] = z]
  PROVE  SocksTrue'
<1>1. \A d \in Fds : socks'[d] = IF d = e THEN z ELSE socks[d]
  BY DEF SocksTrue
<1>2. socks' \in [Fds -> SockSet]
  BY DEF SocksTrue
<1>3. ASSUME NEW d \in Fds PROVE RingTrue(socks'[d]) /\ \A j \in Places : Proper(socks'[d].ring[j], socks'[d].port, acked)
  BY <1>1 DEF SocksTrue
<1> QED
  BY <1>2, <1>3 DEF SocksTrue

LEMMA CopyKeepsStack ==
  ASSUME StackInv, CopyCell
  PROVE  StackInv'
<1>0. SocksTrue /\ WireTrue /\ ArpTrue /\ CallTrue /\ BufTrue /\ CopyTrue /\ AnswersAreOwn
  BY DEF StackInv
<1>1. /\ pc \in Waiting /\ polls < Polls /\ Len(buf) < Wants /\ Readable(fd)
      /\ buf' = Append(buf, AtHead(fd)) /\ copied' = TRUE
  BY DEF CopyCell
<1>2. /\ ifaces' = ifaces /\ eth' = eth /\ arp' = arp /\ socks' = socks /\ wire' = wire
      /\ arrived' = arrived /\ pc' = pc /\ fd' = fd /\ polls' = polls /\ txid' = txid /\ xid' = xid
      /\ offer' = offer /\ fields' = fields /\ result' = result /\ acked' = acked /\ calls' = calls
  BY DEF CopyCell, netVars
<1>3. AtHead(fd) \in CellSet \cup {NoCell} /\ Proper(AtHead(fd), CallPort, acked)
  <2>1. socks[fd] \in SockSet /\ \A j \in Places : Proper(socks[fd].ring[j], socks[fd].port, acked)
    BY <1>0 DEF SocksTrue, CallTrue
  <2>2. socks[fd].head \in Places /\ socks[fd].ring \in [Places -> CellSet \cup {NoCell}]
    BY <2>1 DEF SockSet
  <2> QED
    BY <1>0, <2>1, <2>2 DEF AtHead, CopyTrue, Proper, CallPort
<1>4. BufTrue'
  <2>1. /\ buf \in Seq(CellSet \cup {NoCell}) /\ Len(buf) \in Nat
        /\ \A i \in 1 .. Len(buf) : Proper(buf[i], CallPort, acked)
    BY <1>0 DEF BufTrue
  <2>2. /\ buf' \in Seq(CellSet \cup {NoCell}) /\ Len(buf') = Len(buf) + 1
        /\ \A i \in 1 .. Len(buf) : buf'[i] = buf[i]
        /\ buf'[Len(buf) + 1] = AtHead(fd)
    BY <1>1, <1>3, <2>1
  <2>3. \A i \in 1 .. Len(buf') : Proper(buf'[i], CallPort, acked)
    BY <1>3, <2>1, <2>2
  <2>4. Wants' = Wants /\ Len(buf') <= Wants /\ CallPort' = CallPort
    BY <1>1, <1>2, <2>1, <2>2, ClientsAssumption DEF Wants, CallPort
  <2>5. pc' # "idle"
    BY <1>1, <1>2 DEF Waiting
  <2> QED
    BY <1>2, <2>2, <2>3, <2>4, <2>5 DEF BufTrue
<1>5. CopyTrue'
  BY <1>0, <1>1, <1>2 DEF CopyTrue, Readable, CallPort
<1>6. SocksTrue'
  BY <1>0, <1>2, SocksUnchanged
<1>7. WireTrue' /\ ArpTrue' /\ AnswersAreOwn'
  BY <1>0, <1>2 DEF WireTrue, ArpTrue, AnswersAreOwn
<1>8. CallTrue'
  BY <1>0, <1>1, <1>2 DEF CallTrue
<1> QED
  BY <1>4, <1>5, <1>6, <1>7, <1>8 DEF StackInv

LEMMA MoveKeepsStack ==
  ASSUME StackInv, MoveHead
  PROVE  StackInv'
<1>0. SocksTrue /\ WireTrue /\ ArpTrue /\ CallTrue /\ BufTrue /\ CopyTrue /\ AnswersAreOwn
  BY DEF StackInv
<1>1. /\ copied /\ PassHead(fd) /\ copied' = FALSE
      /\ ifaces' = ifaces /\ eth' = eth /\ arp' = arp /\ wire' = wire /\ buf' = buf
      /\ arrived' = arrived /\ pc' = pc /\ fd' = fd /\ polls' = polls /\ txid' = txid /\ xid' = xid
      /\ offer' = offer /\ fields' = fields /\ result' = result /\ acked' = acked /\ calls' = calls
  BY DEF MoveHead
<1> DEFINE s == socks[fd]
           z == [s EXCEPT !.head = (@ + 1) % RING, !.taken = IF s.lost THEN 0 ELSE @ + 1]
<1>2. fd \in Fds /\ s \in SockSet /\ RingTrue(s) /\ (~s.lost => s.head # s.tail)
  BY <1>0, <1>1 DEF SocksTrue, CallTrue, CopyTrue, Readable
<1>3. z \in SockSet /\ RingTrue(z)
  BY <1>2, PassKeeps
<1>4. z.ring = s.ring /\ z.port = s.port
  BY <1>2 DEF SockSet
<1>5. socks' = [socks EXCEPT ![fd] = z]
  BY <1>1 DEF PassHead
<1> HIDE DEF z
<1>6. SocksTrue'
  BY <1>0, <1>1, <1>2, <1>3, <1>4, <1>5, SocketReplaced
<1>7. CopyTrue' /\ CallTrue'
  <2>1. socks'[fd].port = s.port
    BY <1>0, <1>2, <1>4, <1>5 DEF SocksTrue
  <2> QED
    BY <1>0, <1>1, <2>1 DEF CopyTrue, CallTrue, CallPort
<1>8. WireTrue' /\ ArpTrue' /\ AnswersAreOwn' /\ BufTrue'
  BY <1>0, <1>1 DEF WireTrue, ArpTrue, AnswersAreOwn, BufTrue, Wants, CallPort
<1> QED
  BY <1>6, <1>7, <1>8 DEF StackInv

(* Another poll, with an empty buffer.                                     *)
LEMMA GoOnKeeps ==
  ASSUME StackInv, Received, GoOn, fields' \in Servers \cup {"none"}
  PROVE  StackInv'
<1>0. SocksTrue /\ WireTrue /\ ArpTrue /\ CallTrue /\ BufTrue /\ CopyTrue /\ AnswersAreOwn
  BY DEF StackInv
<1>1. /\ buf' = <<>> /\ polls' = polls + 1 /\ polls < Polls /\ ~copied
      /\ ifaces' = ifaces /\ eth' = eth /\ arp' = arp /\ socks' = socks /\ wire' = wire
      /\ arrived' = arrived /\ pc' = pc /\ fd' = fd /\ copied' = copied /\ txid' = txid /\ xid' = xid
      /\ offer' = offer /\ result' = result /\ acked' = acked /\ calls' = calls
  BY DEF Received, GoOn
<1>2. SocksTrue'
  BY <1>0, <1>1, SocksUnchanged
<1>3. CallTrue'
  BY <1>0, <1>1, ClientsAssumption DEF CallTrue
<1>4. BufTrue' /\ CopyTrue'
  BY <1>0, <1>1, ClientsAssumption DEF BufTrue, CopyTrue, Wants, CallPort
<1>5. WireTrue' /\ ArpTrue' /\ AnswersAreOwn'
  BY <1>0, <1>1 DEF WireTrue, ArpTrue, AnswersAreOwn
<1> QED
  BY <1>2, <1>3, <1>4, <1>5 DEF StackInv

(* The end of a call closes the socket; what the call leaves behind must   *)
(* be true for itself.                                                     *)
LEMMA FinishKeeps ==
  ASSUME StackInv, Finish, wire' = wire, acked' = acked, ~copied, offer' = offer, xid' \in Nat,
         fields' \in Servers \cup {"none"}, AnswersAreOwn', eth'.gw \in Stations \cup {"none"}
  PROVE  StackInv'
<1>0. SocksTrue /\ WireTrue /\ ArpTrue /\ CallTrue
  BY DEF StackInv
<1>1. /\ socks' = [socks EXCEPT ![fd].used = FALSE] /\ pc' = "idle" /\ buf' = <<>>
      /\ ifaces' = ifaces /\ arp' = arp /\ arrived' = arrived /\ fd' = fd /\ copied' = copied
      /\ polls' = polls /\ txid' = txid /\ calls' = calls
  BY DEF Finish, CloseSock
<1> DEFINE s == socks[fd]
           z == [s EXCEPT !.used = FALSE]
<1>2. fd \in Fds /\ s \in SockSet /\ RingTrue(s)
  BY <1>0 DEF SocksTrue, CallTrue
<1>3. z \in SockSet /\ z.ring = s.ring /\ z.head = s.head /\ z.tail = s.tail /\ z.lost = s.lost
      /\ z.taken = s.taken /\ z.stream = s.stream /\ z.port = s.port
  BY <1>2 DEF SockSet
<1>4. socks' = [socks EXCEPT ![fd] = z]
  BY <1>1
<1> HIDE DEF z
<1>5. RingTrue(z)
  BY <1>2, <1>3 DEF RingTrue, Held
<1>6. SocksTrue'
  BY <1>0, <1>2, <1>3, <1>4, <1>5, SocketReplaced
<1>7. BufTrue' /\ CopyTrue'
  BY <1>1, ClientsAssumption DEF BufTrue, CopyTrue, Wants, CallPort
<1>8. WireTrue' /\ ArpTrue'
  BY <1>0, <1>1 DEF WireTrue, ArpTrue
<1>9. CallTrue'
  BY <1>0, <1>1 DEF CallTrue
<1> QED
  BY <1>6, <1>7, <1>8, <1>9 DEF StackInv

(* What dhcp_discover finds whole in its buffer is a server's reply.       *)
LEMMA WholeReply ==
  ASSUME StackInv, pc \in {"offer", "ack"}, Whole
  PROVE  /\ buf[1].msg.server \in Servers
         /\ buf[1].msg.of = "ACK" => buf[1].msg.server \in acked
<1>1. /\ buf \in Seq(CellSet \cup {NoCell})
      /\ \A i \in 1 .. Len(buf) : Proper(buf[i], "dhcp", acked)
  BY DEF StackInv, BufTrue, CallPort
<1>2. 1 \in 1 .. Len(buf) /\ buf[1].part = 1
  BY ClientsAssumption DEF Whole
<1>3. buf[1] \in CellSet /\ Proper(buf[1], "dhcp", acked)
  BY <1>1, <1>2 DEF NoCell
<1> DEFINE m == buf[1].msg
<1>4. m \in Msgs /\ m.of # "dns" /\ (m.of = "ACK" => m.server \in acked)
  BY <1>3 DEF CellSet, Proper
<1> HIDE DEF m
<1>5. m \in [of : {"OFFER", "ACK", "NAK"}, size : Sizes, id : Nat, server : Servers]
  <2>1. m \notin [of : {"dns"}, size : {1}, id : Nat, verdict : {"address", "error"}]
    BY <1>4
  <2> QED
    BY <1>4, <2>1 DEF Msgs
<1>6. m.server \in Servers
  BY <1>5
<1> QED
  BY <1>4, <1>6 DEF m

LEMMA AgainKeeps ==
  ASSUME StackInv, DnsAgain \/ DhcpAgain
  PROVE  StackInv'
<1>1. CASE DnsAgain
  <2>1. Received /\ GoOn /\ fields' = fields
    BY <1>1 DEF DnsAgain
  <2> QED
    BY <2>1, GoOnKeeps DEF StackInv, CallTrue
<1>2. CASE DhcpAgain
  <2>1. Received /\ GoOn /\ pc \in {"offer", "ack"}
    BY <1>2 DEF DhcpAgain
  <2>2. fields' \in Servers \cup {"none"}
    <3>1. CASE Whole
      BY <1>2, <2>1, <3>1, WholeReply DEF DhcpAgain, Read
    <3>2. CASE ~Whole
      BY <1>2, <3>2 DEF DhcpAgain, StackInv, CallTrue
    <3> QED
      BY <3>1, <3>2
  <2> QED
    BY <2>1, <2>2, GoOnKeeps
<1> QED
  BY <1>1, <1>2

LEMMA EndKeeps ==
  ASSUME StackInv, DnsDone \/ GiveUp
  PROVE  StackInv'
<1>0. CallTrue /\ ArpTrue /\ AnswersAreOwn /\ CopyTrue
  BY DEF StackInv
<1>1. /\ Finish /\ eth' = eth /\ wire' = wire /\ xid' = xid /\ offer' = offer /\ fields' = fields
      /\ acked' = acked
  BY DEF DnsDone, GiveUp
<1>2. ~copied
  BY <1>0 DEF DnsDone, GiveUp, Received, CopyTrue, CallTrue
<1>3. result'.got = result'.asked
  <2>1. CASE GiveUp
    BY <2>1, <1>0 DEF GiveUp, None, AnswersAreOwn
  <2>2. CASE DnsDone
    BY <2>2 DEF DnsDone, None, Own
  <2> QED
    BY <2>1, <2>2
<1>4. AnswersAreOwn'
  BY <1>0, <1>1, <1>3 DEF AnswersAreOwn
<1> QED
  BY <1>0, <1>1, <1>2, <1>4, FinishKeeps DEF CallTrue, ArpTrue

LEMMA OfferKeeps ==
  ASSUME StackInv, NEW verdict \in {"ACK", "NAK"}, NEW size \in Sizes, TakeOffer(verdict, size)
  PROVE  StackInv'
<1>0. SocksTrue /\ WireTrue /\ ArpTrue /\ CallTrue /\ BufTrue /\ CopyTrue /\ AnswersAreOwn
  BY DEF StackInv
<1> DEFINE s == buf[1].msg.server
<1>1. /\ Received /\ pc = "offer" /\ Whole /\ offer' = s
      /\ wire' = wire \cup Brings(Primary, "bcast", {Reply(verdict, s, size)})
      /\ acked' = IF verdict = "ACK" /\ Sends(Primary, "bcast") THEN acked \cup {s} ELSE acked
  BY DEF TakeOffer, Is
<1>2. /\ pc' = "ack" /\ buf' = <<>> /\ polls' = 0 /\ fields' = "none"
      /\ ifaces' = ifaces /\ eth' = eth /\ arp' = arp /\ socks' = socks /\ arrived' = arrived
      /\ fd' = fd /\ copied' = copied /\ txid' = txid /\ xid' = xid /\ result' = result /\ calls' = calls
  BY DEF TakeOffer
<1>3. s \in Servers /\ ~copied
  BY <1>1, WholeReply DEF Received
<1> HIDE DEF s
<1>4. acked \subseteq acked' /\ acked' \subseteq Servers
  BY <1>0, <1>1, <1>3 DEF CallTrue
<1>5. WireTrue'
  <2>1. CASE Sends(Primary, "bcast")
    <3>1. FrameTrue(Reply(verdict, s, size), acked')
      BY <1>0, <1>1, <1>3, <2>1, ReplyTrue DEF CallTrue
    <3>2. \A f \in {Reply(verdict, s, size)} : FrameTrue(f, acked')
      BY <3>1
    <3>3. \A f \in Brings(Primary, "bcast", {Reply(verdict, s, size)}) : FrameTrue(f, acked')
      BY <3>2, BringsTrue
    <3> QED
      BY <1>0, <1>1, <1>4, <3>3, WireGrows
  <2>2. CASE ~Sends(Primary, "bcast")
    <3>1. Brings(Primary, "bcast", {Reply(verdict, s, size)}) = Brings(Primary, "bcast", {})
      BY <2>2 DEF Brings
    <3>2. \A f \in Brings(Primary, "bcast", {}) : FrameTrue(f, acked')
      BY BringsTrue
    <3> QED
      BY <1>0, <1>1, <1>4, <3>1, <3>2, WireGrows
  <2> QED
    BY <2>1, <2>2
<1>6. SocksTrue'
  BY <1>0, <1>2, <1>4, SocksUnchanged
<1>7. ArpTrue' /\ AnswersAreOwn'
  BY <1>0, <1>2, <1>4 DEF ArpTrue, AnswersAreOwn
<1>8. CallTrue'
  <2>1. 0 \in 0 .. Polls /\ pc' \in Waiting
    BY <1>2, ClientsAssumption DEF Waiting
  <2> QED
    BY <1>0, <1>1, <1>2, <1>3, <1>4, <2>1 DEF CallTrue
<1>9. BufTrue' /\ CopyTrue'
  BY <1>0, <1>1, <1>2, <1>3, ClientsAssumption DEF BufTrue, CopyTrue, Wants, CallPort
<1> QED
  BY <1>5, <1>6, <1>7, <1>8, <1>9 DEF StackInv

LEMMA AckKeeps ==
  ASSUME StackInv, TakeAck
  PROVE  StackInv'
<1>0. CallTrue /\ ArpTrue /\ AnswersAreOwn
  BY DEF StackInv
<1>1. /\ Received /\ pc = "ack" /\ Whole /\ buf[1].msg.of = "ACK" /\ fields' = buf[1].msg.server
      /\ eth' = IF Primary = "eth" THEN Configured(fields') ELSE eth
      /\ xid' = xid + 1 /\ Finish /\ wire' = wire /\ offer' = offer /\ result' = result /\ acked' = acked
  BY DEF TakeAck, Is, Read
<1>2. fields' \in Servers /\ fields' \in acked /\ ~copied /\ xid' \in Nat
  BY <1>0, <1>1, WholeReply DEF Received, CallTrue
<1>3. eth'.gw \in Stations \cup {"none"} /\ eth'.ip \in {fields', eth.ip}
  BY <1>0, <1>1, NetAssumption DEF ArpTrue, Configured
<1>4. AnswersAreOwn'
  BY <1>0, <1>1, <1>2, <1>3 DEF AnswersAreOwn
<1> QED
  BY <1>1, <1>2, <1>3, <1>4, FinishKeeps

LEMMA StackUnchanged ==
  ASSUME StackInv, UNCHANGED allNetVars
  PROVE  StackInv'
<1>0. SocksTrue /\ WireTrue /\ ArpTrue /\ CallTrue /\ BufTrue /\ CopyTrue /\ AnswersAreOwn
  BY DEF StackInv
<1>1. /\ ifaces' = ifaces /\ eth' = eth /\ arp' = arp /\ socks' = socks /\ wire' = wire
      /\ arrived' = arrived /\ pc' = pc /\ fd' = fd /\ buf' = buf /\ copied' = copied
      /\ polls' = polls /\ txid' = txid /\ xid' = xid /\ offer' = offer /\ fields' = fields
      /\ result' = result /\ acked' = acked /\ calls' = calls
  BY DEF allNetVars, netVars, clientVars
<1>2. SocksTrue'
  BY <1>0, <1>1, SocksUnchanged
<1>3. WireTrue' /\ ArpTrue' /\ AnswersAreOwn' /\ CallTrue'
  BY <1>0, <1>1 DEF WireTrue, ArpTrue, AnswersAreOwn, CallTrue
<1>4. BufTrue' /\ CopyTrue'
  BY <1>0, <1>1 DEF BufTrue, CopyTrue, Wants, CallPort, Readable
<1> QED
  BY <1>2, <1>3, <1>4 DEF StackInv

LEMMA StackStep ==
  ASSUME StackInv, NetNext \/ UNCHANGED allNetVars
  PROVE  StackInv'
<1>1. CASE ClientStep
  BY <1>1, CopyKeepsStack, MoveKeepsStack, AgainKeeps, EndKeeps, OfferKeeps, AckKeeps DEF ClientStep
<1>2. CASE ClientCall
  BY <1>2, ResolveKeeps, UnsentKeeps, DiscoverKeeps DEF ClientCall
<1>3. CASE \E f \in wire : Receive(f) /\ UNCHANGED clientVars
  BY <1>3, ArpKeeps, EchoKeeps, UdpKeeps DEF Receive
<1>4. CASE UNCHANGED allNetVars
  BY <1>4, StackUnchanged
<1> QED
  BY <1>1, <1>2, <1>3, <1>4 DEF NetNext

LEMMA StackAlways == Spec => []StackInv
<1>1. Init => StackInv
  BY StackInit DEF Init
<1>2. StackInv /\ [Next]_vars => StackInv'
  <2> SUFFICES ASSUME StackInv, [Next]_vars PROVE StackInv'
    OBVIOUS
  <2>1. NetNext \/ UNCHANGED allNetVars
    BY DEF Next, Clients, vars
  <2> QED
    BY <2>1, StackStep
<1> QED
  BY <1>1, <1>2, PTL DEF Spec

(* Until a datagram finds no room, a reader gets every byte of a socket    *)
(* once and in order, although ipv4_handle fills the ring in the middle of *)
(* sock_recvfrom, and whatever was in the table entry before.              *)
THEOREM SocketsExact == Spec => []BytesExact
<1>1. StackInv => BytesExact
  BY RingExact DEF StackInv, SocksTrue, BytesExact
<1> QED
  BY <1>1, StackAlways, PTL

(* dns_resolve answers the question it was asked, and dhcp_discover gives  *)
(* the card only an address its server has acknowledged.                   *)
THEOREM ClientsBelieveTheirOwn == Spec => []AnswersAreOwn
<1>1. StackInv => AnswersAreOwn
  BY DEF StackInv
<1> QED
  BY <1>1, StackAlways, PTL

-----------------------------------------------------------------------------
(* TCP: what the segments of the present connection carry.  Up to a first  *)
(* count F, which is sent as long as no FIN of the peer was answered, a    *)
(* segment's number counts the bytes before it; what goes out after the    *)
(* FIN has later numbers, which the peer never waits for.                  *)
Live     == task.at \in {"connecting", "connected", "sending"}
InStep   == Live /\ Mine.state \in {"SYN_SENT", "ESTABLISHED"}
Base     == Isn(opens) + 1
DataOut  == {s \in out : s.port = opens /\ s.data # <<>>}
Regular(s, F) ==
  /\ s.seq >= Base /\ s.seq - Base + Len(s.data) <= F
  /\ \A i \in 1 .. Len(s.data) : s.data[i] = s.seq - Base + i

DataTrue(F) == \A s \in DataOut : Regular(s, F) \/ s.seq > Base + F
GotTrue(F)  ==
  peer.port = opens => Len(peer.got) <= F /\ \A i \in 1 .. Len(peer.got) : peer.got[i] = i
NowTrue(F)  ==
  /\ InStep => F = sent /\ Mine.snd_nxt + task.owed = Base + sent
                        /\ \A s \in DataOut : Regular(s, F)
  /\ task.at = "sending" /\ ~InStep => Mine.snd_nxt + task.owed > Base + F
SentTrue(F) == DataTrue(F) /\ GotTrue(F) /\ NowTrue(F)

Ats == {"none", "open", "connecting", "connected", "sending", "broken"}
TaskTrue ==
  /\ task \in [sock : Conns \cup {0}, at : Ats, todo : Nat, owed : Nat]
  /\ Live => Mine.port = opens /\ opens > 0
  /\ task.at = "open" => /\ opens < limit.opens
                         /\ Mine.state = "CLOSED" /\ Mine.rx_head = Mine.rx_tail /\ Mine.port = 0
  /\ task.owed > 0 => task.at \in {"connecting", "sending"}
  /\ sent + task.todo <= limit.bytes

DataEnd == IF peer.fin THEN peer.snd - 1 ELSE peer.snd

PeerTrue ==
  /\ peer \in [port : Nat, next : Nat, got : Seq(Nat), snd : Nat, base : Nat, fin : BOOLEAN]
  /\ peer.port > 0 => /\ DataEnd >= peer.base
                      /\ peer.next = Isn(peer.port) + 1 + Len(peer.got)
                      /\ peer.base = PeerIsn(peer.port) + 1

OutTrue == \A s \in out :
  /\ s.port \in 1 .. opens
  /\ "SYN" \in s.flags => s.seq = Isn(s.port)
InTrue == \A s \in in :
  /\ s.port \in 1 .. peer.port
  /\ "SYN" \in s.flags => s.seq = PeerIsn(s.port)
  /\ s.port = peer.port => /\ s.data # <<>> => s.seq + Len(s.data) <= DataEnd
                           /\ "FIN" \in s.flags => peer.fin

(* What a connection has of the peer's bytes.                              *)
ConnTrue(c) ==
  /\ c.state = "SYN_SENT" => c.rx_head = c.rx_tail
  /\ c.used /\ c.state \in {"ESTABLISHED", "LAST_ACK"} => c.port \in 1 .. peer.port
  /\ c.used /\ c.port = peer.port /\ c.state = "ESTABLISHED" =>
       /\ c.rx_head - c.rx_tail \in 0 .. RXBUF - 1
       /\ c.rx_head - c.rx_tail = c.rcv_nxt - peer.base
       /\ c.rcv_nxt <= DataEnd
  /\ c.used /\ c.port = peer.port /\ c.state = "LAST_ACK" => c.rcv_nxt <= peer.snd

TcpInv ==
  /\ TcpTypeOK /\ TaskTrue /\ PeerTrue /\ OutTrue /\ InTrue
  /\ \A c \in Conns : ConnTrue(conns[c])
  /\ \E F \in 0 .. sent : SentTrue(F)

LEMMA MinTwo ==
  ASSUME NEW a \in Nat, NEW b \in Nat
  PROVE  Min({a, b}) = IF a <= b THEN a ELSE b
<1>1. \E x \in {a, b} : \A y \in {a, b} : x <= y
  OBVIOUS
<1>2. Min({a, b}) \in {a, b} /\ \A y \in {a, b} : Min({a, b}) <= y
  BY <1>1 DEF Min
<1> QED
  BY <1>2

LEMMA MinThree ==
  ASSUME NEW a \in Nat, NEW b \in Nat, NEW c \in Nat
  PROVE  /\ Min({a, b, c}) \in Nat
         /\ Min({a, b, c}) <= a /\ Min({a, b, c}) <= b
<1>1. \E x \in {a, b, c} : \A y \in {a, b, c} : x <= y
  OBVIOUS
<1>2. Min({a, b, c}) \in {a, b, c} /\ \A y \in {a, b, c} : Min({a, b, c}) <= y
  BY <1>1 DEF Min
<1> QED
  BY <1>2

LEMMA SpaceFacts ==
  /\ \A data \in Seq(Nat) : SeqSpace({}, data) = Len(data)
  /\ SeqSpace({"FIN", "ACK"}, <<>>) = 1
<1>1. ASSUME NEW data \in Seq(Nat) PROVE SeqSpace({}, data) = Len(data)
  <2>1. {} \cap {"SYN", "FIN"} = {} /\ Cardinality({}) = 0
    BY FS_EmptySet
  <2> QED
    BY <2>1 DEF SeqSpace
<1>2. SeqSpace({"FIN", "ACK"}, <<>>) = 1
  <2>1. {"FIN", "ACK"} \cap {"SYN", "FIN"} = {"FIN"} /\ Cardinality({"FIN"}) = 1
    BY FS_Singleton
  <2> QED
    BY <2>1 DEF SeqSpace
<1> QED
  BY <1>1, <1>2

(* The entries of the table, and the segments made from them.              *)
Connection(k) ==
  [used : BOOLEAN, state : States, port : 0 .. k, snd_nxt : Nat, snd_una : Nat, snd_wnd : Nat,
   rcv_nxt : Nat, rcv_wnd : 0 .. RXBUF + 1, rx_head : Nat, rx_tail : Nat]

LEMMA UsedFacts ==
  ASSUME NEW k \in Nat, NEW c \in Connection(k)
  PROVE  /\ Used(c) \in 0 .. RXBUF - 1 /\ Room(c) \in 0 .. RXBUF - 1
         /\ c.rx_head - c.rx_tail \in 0 .. RXBUF - 1 => Used(c) = c.rx_head - c.rx_tail
<1>1. RXBUF \in Nat /\ RXBUF >= 2
  BY TcpAssumption
<1> DEFINE x == c.rx_head - c.rx_tail
<1>2. x \in Int
  BY DEF Connection
<1>3. Used(c) = x % RXBUF
  BY DEF Used
<1> HIDE DEF x
<1>4. x % RXBUF \in 0 .. RXBUF - 1
  BY <1>1, <1>2
<1>5. x \in 0 .. RXBUF - 1 => x % RXBUF = x
  <2>1. ASSUME x \in 0 .. RXBUF - 1 PROVE (RXBUF * 0 + x) % RXBUF = x
    BY <1>1, <2>1, ModUnique
  <2> QED
    BY <1>1, <1>2, <2>1
<1>6. Room(c) \in 0 .. RXBUF - 1
  BY <1>1, <1>3, <1>4 DEF Room
<1> QED
  BY <1>3, <1>4, <1>5, <1>6 DEF x

LEMMA CarriedFacts ==
  ASSUME NEW k \in Nat, NEW c \in Connection(k), NEW flags \in SUBSET {"SYN", "ACK", "FIN"},
         NEW data \in Seq(Nat)
  PROVE  /\ Carried(c, flags, data) \in Segment
         /\ Carried(c, flags, data).port = c.port /\ Carried(c, flags, data).data = data
         /\ Carried(c, flags, data).flags = flags /\ Carried(c, flags, data).seq = c.snd_nxt
<1>1. RXBUF \in Nat
  BY TcpAssumption
<1>2. c.port \in Nat /\ c.snd_nxt \in Nat /\ c.rcv_nxt \in Nat /\ c.rcv_wnd \in Nat
  BY <1>1 DEF Connection
<1> QED
  BY <1>2 DEF Carried, Segment

(* tcp_receive: what it stores, and the changes of state it makes.         *)
LEMMA StoredFacts ==
  ASSUME NEW k \in Nat, NEW c \in Connection(k), NEW s \in Segment
  PROVE  \E n \in 0 .. Room(c) :
           /\ n > 0 => s.seq = c.rcv_nxt /\ n <= Len(s.data) /\ s.data # <<>>
           /\ Stored(c, s) \in Connection(k)
           /\ Stored(c, s).rx_head = c.rx_head + n /\ Stored(c, s).rx_tail = c.rx_tail
           /\ Stored(c, s).rcv_nxt = c.rcv_nxt + n
           /\ Stored(c, s).port = c.port /\ Stored(c, s).state = c.state
           /\ Stored(c, s).used = c.used /\ Stored(c, s).snd_nxt = c.snd_nxt
<1>0. Room(c) \in Nat /\ RXBUF \in Nat /\ RXBUF >= 2
  BY UsedFacts, TcpAssumption
<1>1. CASE ~Wanted(c, s)
  <2>1. Stored(c, s) = c
    BY <1>1 DEF Stored
  <2>2. 0 \in 0 .. Room(c) /\ c.rx_head + 0 = c.rx_head /\ c.rcv_nxt + 0 = c.rcv_nxt
    BY <1>0 DEF Connection
  <2> QED
    BY <2>1, <2>2
<1>2. CASE Wanted(c, s)
  <2> DEFINE copy == Min({Len(s.data), Room(c)})
             d    == [c EXCEPT !.rx_head = c.rx_head + copy, !.rcv_nxt = c.rcv_nxt + copy]
             e    == [d EXCEPT !.rcv_wnd = Room(d)]
  <2>1. Len(s.data) \in Nat
    BY DEF Segment
  <2>2. copy \in 0 .. Room(c) /\ copy <= Len(s.data)
    BY <1>0, <2>1, MinTwo
  <2>3. Stored(c, s) = e
    BY <1>2 DEF Stored
  <2> HIDE DEF copy
  <2>4. /\ d \in Connection(k) /\ d.rx_head = c.rx_head + copy /\ d.rcv_nxt = c.rcv_nxt + copy
        /\ d.rx_tail = c.rx_tail /\ d.port = c.port /\ d.state = c.state /\ d.used = c.used
        /\ d.snd_nxt = c.snd_nxt
    <3>1. c.rx_head + copy \in Nat /\ c.rcv_nxt + copy \in Nat
      BY <2>2, <1>0 DEF Connection
    <3>2. d.rx_head = c.rx_head + copy /\ d.rcv_nxt = c.rcv_nxt + copy
      BY DEF Connection
    <3>3. /\ d.rx_tail = c.rx_tail /\ d.port = c.port /\ d.state = c.state /\ d.used = c.used
          /\ d.snd_nxt = c.snd_nxt
      BY DEF Connection
    <3>4. d \in Connection(k)
      BY <3>1 DEF Connection
    <3> QED
      BY <3>2, <3>3, <3>4
  <2> HIDE DEF d
  <2>5. Room(d) \in 0 .. RXBUF + 1
    BY <2>4, <1>0, UsedFacts
  <2>6. /\ e \in Connection(k) /\ e.rx_head = d.rx_head /\ e.rcv_nxt = d.rcv_nxt
        /\ e.rx_tail = d.rx_tail /\ e.port = d.port /\ e.state = d.state /\ e.used = d.used
        /\ e.snd_nxt = d.snd_nxt
    BY <2>4, <2>5 DEF Connection
  <2> HIDE DEF e
  <2>7. s.seq = c.rcv_nxt /\ s.data # <<>>
    BY <1>2 DEF Wanted
  <2> QED
    BY <2>2, <2>3, <2>4, <2>6, <2>7
<1> QED
  BY <1>1, <1>2

(* The states a handled segment leads from and to, and snd_nxt with them.  *)
Turns(c, d) ==
  \/ d.state = c.state /\ d.snd_nxt = c.snd_nxt
  \/ c.state = "SYN_SENT" /\ d.state = "ESTABLISHED" /\ d.snd_nxt = c.snd_nxt
  \/ c.state = "ESTABLISHED" /\ d.state = "LAST_ACK" /\ d.snd_nxt = c.snd_nxt + 1
  \/ c.state = "LAST_ACK" /\ d.state = "CLOSED" /\ d.snd_nxt = c.snd_nxt

Acks(answer, port) == \A a \in answer :
  a \in Segment /\ a.port = port /\ a.data = <<>> /\ "SYN" \notin a.flags

HandledTrue(k, c, s, h) ==
  /\ h.conn \in Connection(k) /\ h.conn.port = c.port
  /\ Turns(c, h.conn) /\ ConnTrue(h.conn)
  /\ Acks(h.answer, c.port)

LEMMA CarriedAcks ==
  ASSUME NEW k \in Nat, NEW c \in Connection(k)
  PROVE  Acks({Carried(c, {"ACK"}, <<>>)}, c.port) /\ Acks({Carried(c, {"FIN", "ACK"}, <<>>)}, c.port)
<1>1. ASSUME NEW flags \in {{"ACK"}, {"FIN", "ACK"}} PROVE Acks({Carried(c, flags, <<>>)}, c.port)
  <2> DEFINE a == Carried(c, flags, <<>>)
  <2>1. flags \in SUBSET {"SYN", "ACK", "FIN"} /\ "SYN" \notin flags /\ <<>> \in Seq(Nat)
    BY <1>1
  <2>2. ASSUME NEW data \in Seq(Nat)
        PROVE  /\ Carried(c, flags, data) \in Segment /\ Carried(c, flags, data).port = c.port
               /\ Carried(c, flags, data).data = data /\ Carried(c, flags, data).flags = flags
    BY <2>1, CarriedFacts
  <2>4. a \in Segment /\ a.port = c.port /\ a.data = <<>> /\ a.flags = flags
    BY <2>1, <2>2
  <2> HIDE DEF a
  <2>3. \A x \in {a} : x \in Segment /\ x.port = c.port /\ x.data = <<>> /\ "SYN" \notin x.flags
    BY <2>1, <2>4
  <2> QED
    BY <2>3 DEF Acks, a
<1> QED
  BY <1>1

(* What a segment for a connection in use is, by InTrue.                   *)
Arrives(c, s) ==
  /\ s.port = c.port /\ s.port \in 1 .. peer.port
  /\ "SYN" \in s.flags => s.seq = PeerIsn(s.port)
  /\ s.port = peer.port => /\ s.data # <<>> => s.seq + Len(s.data) <= DataEnd
                           /\ "FIN" \in s.flags => peer.fin

LEMMA SynAckTrue ==
  ASSUME NEW k \in Nat, NEW c \in Connection(k), NEW s \in Segment, PeerTrue, ConnTrue(c),
         c.used, Arrives(c, s), c.state = "SYN_SENT"
  PROVE  HandledTrue(k, c, s, ReceiveSynAck(c, s))
<1>0. /\ s.win \in Nat /\ s.seq \in Nat /\ s.ack \in Nat /\ s.port \in Nat /\ c.port \in 0 .. k
      /\ c.rx_head \in Nat /\ c.rx_tail \in Nat /\ c.rx_head = c.rx_tail
  BY DEF Segment, Connection, ConnTrue
<1>1. CASE {"SYN", "ACK"} \subseteq s.flags
  <2> DEFINE d == [c EXCEPT !.snd_wnd = s.win, !.rcv_nxt = s.seq + 1, !.snd_una = s.ack,
                            !.state = "ESTABLISHED"]
  <2>1. /\ ReceiveSynAck(c, s).conn = d
        /\ ReceiveSynAck(c, s).answer = {Carried(d, {"ACK"}, <<>>)}
    BY <1>1 DEF ReceiveSynAck
  <2>2. /\ d \in Connection(k) /\ d.port = c.port /\ d.state = "ESTABLISHED"
        /\ d.snd_nxt = c.snd_nxt /\ d.rx_head = c.rx_head /\ d.rx_tail = c.rx_tail
        /\ d.rcv_nxt = s.seq + 1 /\ d.used = c.used
    <3>1. s.seq + 1 \in Nat /\ "ESTABLISHED" \in States
      BY <1>0 DEF States
    <3>2. d.state = "ESTABLISHED" /\ d.rcv_nxt = s.seq + 1
      BY DEF Connection
    <3>3. /\ d.port = c.port /\ d.snd_nxt = c.snd_nxt /\ d.rx_head = c.rx_head
          /\ d.rx_tail = c.rx_tail /\ d.used = c.used
      BY DEF Connection
    <3>4. d \in Connection(k)
      BY <1>0, <3>1 DEF Connection
    <3> QED
      BY <3>2, <3>3, <3>4
  <2> HIDE DEF d
  <2>3. d.port = peer.port => /\ d.rcv_nxt = peer.base /\ peer.base \in Nat
                              /\ peer.snd \in Nat /\ DataEnd >= peer.base
    BY <1>0, <1>1, <2>2, SMTT(30) DEF PeerTrue, Arrives, PeerIsn
  <2>4. RXBUF - 1 >= 0 /\ d.rx_head - d.rx_tail = 0 /\ RXBUF \in Nat /\ DataEnd \in Int
    BY <1>0, <2>2, TcpAssumption DEF DataEnd, PeerTrue
  <2>5. ConnTrue(d)
    <3>1. d.port \in 1 .. peer.port
      BY <2>2 DEF Arrives
    <3> QED
      BY <2>2, <2>3, <2>4, <3>1 DEF ConnTrue
  <2>6. Acks({Carried(d, {"ACK"}, <<>>)}, c.port)
    BY <2>2, CarriedAcks
  <2> QED
    BY <2>1, <2>2, <2>5, <2>6 DEF HandledTrue, Turns
<1>2. CASE ~({"SYN", "ACK"} \subseteq s.flags)
  <2> DEFINE d == [c EXCEPT !.snd_wnd = s.win]
  <2>1. ReceiveSynAck(c, s).conn = d /\ ReceiveSynAck(c, s).answer = {}
    BY <1>2 DEF ReceiveSynAck
  <2>2. /\ d \in Connection(k) /\ d.port = c.port /\ d.state = c.state
        /\ d.snd_nxt = c.snd_nxt /\ d.rx_head = c.rx_head /\ d.rx_tail = c.rx_tail
    BY <1>0 DEF Connection
  <2> HIDE DEF d
  <2>3. ConnTrue(d)
    BY <1>0, <2>2 DEF ConnTrue
  <2> QED
    BY <2>1, <2>2, <2>3 DEF HandledTrue, Turns, Acks
<1> QED
  BY <1>1, <1>2

LEMMA EstablishedTrue ==
  ASSUME NEW k \in Nat, NEW c \in Connection(k), NEW s \in Segment, PeerTrue, ConnTrue(c),
         c.used, Arrives(c, s), c.state = "ESTABLISHED"
  PROVE  HandledTrue(k, c, s, ReceiveEstablished(c, s))
<1> DEFINE a    == [c EXCEPT !.snd_wnd = s.win,
                             !.snd_una = IF "ACK" \in s.flags THEN s.ack ELSE c.snd_una]
           d    == Stored(a, s)
           last == [d EXCEPT !.rcv_nxt = d.rcv_nxt + 1, !.state = "LAST_ACK"]
           end  == [last EXCEPT !.snd_nxt = last.snd_nxt + SeqSpace({"FIN", "ACK"}, <<>>)]
           ack  == IF Wanted(a, s) THEN {Carried(d, {"ACK"}, <<>>)} ELSE {}
<1>0. /\ s.win \in Nat /\ s.seq \in Nat /\ s.ack \in Nat /\ s.port \in Nat /\ Len(s.data) \in Nat
      /\ c.snd_una \in Nat /\ c.port \in 0 .. k /\ peer.snd \in Nat /\ DataEnd \in Int
      /\ peer.base \in Nat /\ RXBUF \in Nat
  <2>1. /\ s.win \in Nat /\ s.seq \in Nat /\ s.ack \in Nat /\ s.port \in Nat
        /\ s.data \in Seq(Nat)
    BY DEF Segment
  <2>2. c.snd_una \in Nat /\ c.port \in 0 .. k
    BY DEF Connection
  <2>3. peer.snd \in Nat /\ peer.base \in Nat
    BY DEF PeerTrue
  <2>4. DataEnd \in Int
    BY <2>3 DEF DataEnd
  <2>5. RXBUF \in Nat
    BY TcpAssumption
  <2> QED
    BY <2>1, <2>2, <2>3, <2>4, <2>5
<1>1. ReceiveEstablished(c, s) =
        IF "FIN" \in s.flags
        THEN [conn |-> end,
              answer |-> ack \cup {Carried(last, {"ACK"}, <<>>), Carried(last, {"FIN", "ACK"}, <<>>)}]
        ELSE [conn |-> d, answer |-> ack]
  BY DEF ReceiveEstablished
<1>2. /\ a \in Connection(k) /\ a.port = c.port /\ a.state = c.state /\ a.used = c.used
      /\ a.snd_nxt = c.snd_nxt /\ a.rx_head = c.rx_head /\ a.rx_tail = c.rx_tail
      /\ a.rcv_nxt = c.rcv_nxt
  <2>1. (IF "ACK" \in s.flags THEN s.ack ELSE c.snd_una) \in Nat
    BY <1>0
  <2>2. a \in Connection(k)
    BY <1>0, <2>1 DEF Connection
  <2> QED
    BY <2>2 DEF Connection
<1> HIDE DEF a
<1>3. PICK n \in 0 .. Room(a) :
        /\ n > 0 => s.seq = a.rcv_nxt /\ n <= Len(s.data) /\ s.data # <<>>
        /\ d \in Connection(k)
        /\ d.rx_head = a.rx_head + n /\ d.rx_tail = a.rx_tail
        /\ d.rcv_nxt = a.rcv_nxt + n
        /\ d.port = a.port /\ d.state = a.state
        /\ d.used = a.used /\ d.snd_nxt = a.snd_nxt
  BY <1>2, StoredFacts
<1> HIDE DEF d
<1>4. ASSUME c.port = peer.port
      PROVE  /\ d.rx_head - d.rx_tail \in 0 .. RXBUF - 1
             /\ d.rx_head - d.rx_tail = d.rcv_nxt - peer.base
             /\ d.rcv_nxt <= DataEnd
  <2>1. /\ c.rx_head - c.rx_tail \in 0 .. RXBUF - 1
        /\ c.rx_head - c.rx_tail = c.rcv_nxt - peer.base
        /\ c.rcv_nxt <= DataEnd
    BY <1>4 DEF ConnTrue
  <2>2. Room(a) = RXBUF - 1 - (c.rx_head - c.rx_tail)
    <3>1. Used(a) = a.rx_head - a.rx_tail
      BY <1>2, <2>1, UsedFacts
    <3> QED
      BY <1>2, <3>1 DEF Room
  <2>3. c.rx_head \in Nat /\ c.rx_tail \in Nat /\ c.rcv_nxt \in Nat
    BY DEF Connection
  <2>4. n \in Int /\ n >= 0 /\ n <= RXBUF - 1 - (c.rx_head - c.rx_tail)
    BY <2>2, <2>3, <1>0
  <2>5. n > 0 => c.rcv_nxt + Len(s.data) <= DataEnd /\ n <= Len(s.data)
    BY <1>2, <1>3, <1>4 DEF Arrives
  <2>6. d.rcv_nxt = c.rcv_nxt + n /\ d.rx_head = c.rx_head + n /\ d.rx_tail = c.rx_tail
    BY <1>2, <1>3
  <2>7. d.rcv_nxt <= DataEnd
    BY <1>0, <2>1, <2>3, <2>4, <2>5, <2>6
  <2>8. d.rx_head - d.rx_tail = (c.rx_head - c.rx_tail) + n
    BY <2>3, <2>4, <2>6
  <2> DEFINE x == c.rx_head - c.rx_tail
  <2>9. x \in 0 .. RXBUF - 1 /\ n <= RXBUF - 1 - x /\ x = c.rcv_nxt - peer.base
    BY <2>1, <2>4
  <2>10. d.rx_head - d.rx_tail = x + n
    BY <2>8
  <2> HIDE DEF x
  <2>11. RXBUF \in Int /\ peer.base \in Int /\ c.rcv_nxt \in Int /\ x \in Int /\ x >= 0
        /\ n \in Int /\ n >= 0 /\ n <= RXBUF - 1 - x /\ x = c.rcv_nxt - peer.base
    BY <1>0, <2>3, <2>4, <2>9
  <2>12. d.rx_head - d.rx_tail \in 0 .. RXBUF - 1
    BY <2>10, <2>11
  <2>13. d.rx_head - d.rx_tail = d.rcv_nxt - peer.base
    BY <2>6, <2>10, <2>11
  <2> QED
    BY <2>7, <2>12, <2>13
<1>5. c.port \in 1 .. peer.port
  BY DEF ConnTrue
<1>6. Acks(ack, c.port)
  <2>1. Acks({Carried(d, {"ACK"}, <<>>)}, c.port)
    BY <1>2, <1>3, CarriedAcks
  <2> QED
    BY <2>1 DEF Acks
<1>7. CASE "FIN" \notin s.flags
  <2>1. ReceiveEstablished(c, s).conn = d /\ ReceiveEstablished(c, s).answer = ack
    BY <1>1, <1>7
  <2>2. d.port = c.port /\ d.state = "ESTABLISHED" /\ d.snd_nxt = c.snd_nxt
    BY <1>2, <1>3
  <2>3. ConnTrue(d)
    BY <1>4, <1>5, <2>2 DEF ConnTrue
  <2>4. d \in Connection(k)
    BY <1>3
  <2> HIDE DEF ack
  <2> QED
    BY <1>6, <2>1, <2>2, <2>3, <2>4 DEF HandledTrue, Turns
<1>8. CASE "FIN" \in s.flags
  <2>1. /\ ReceiveEstablished(c, s).conn = end
        /\ ReceiveEstablished(c, s).answer =
             ack \cup {Carried(last, {"ACK"}, <<>>), Carried(last, {"FIN", "ACK"}, <<>>)}
    BY <1>1, <1>8
  <2>2. d.port = c.port /\ d.snd_nxt = c.snd_nxt /\ d.rcv_nxt \in Nat /\ d \in Connection(k)
    BY <1>2, <1>3 DEF Connection
  <2>3. last \in Connection(k)
    <3>1. d.rcv_nxt + 1 \in Nat /\ "LAST_ACK" \in States
      BY <2>2 DEF States
    <3> QED
      BY <2>2, <3>1 DEF Connection
  <2>4. /\ last.port = c.port /\ last.snd_nxt = c.snd_nxt /\ last.snd_nxt \in Nat
        /\ last.rcv_nxt = d.rcv_nxt + 1 /\ last.state = "LAST_ACK"
    BY <2>2 DEF Connection
  <2> HIDE DEF last
  <2>5. /\ end \in Connection(k) /\ end.port = c.port /\ end.snd_nxt = c.snd_nxt + 1
        /\ end.rcv_nxt = d.rcv_nxt + 1 /\ end.state = "LAST_ACK"
    <3>1. end = [last EXCEPT !.snd_nxt = last.snd_nxt + 1]
      BY SpaceFacts
    <3>2. last.snd_nxt + 1 \in Nat
      BY <2>4
    <3> HIDE DEF end
    <3>3. end \in Connection(k)
      BY <2>3, <3>1, <3>2 DEF Connection
    <3>4. /\ end.port = last.port /\ end.snd_nxt = last.snd_nxt + 1 /\ end.rcv_nxt = last.rcv_nxt
          /\ end.state = last.state
      BY <2>3, <3>1 DEF Connection
    <3> QED
      BY <2>4, <3>3, <3>4
  <2> HIDE DEF end
  <2>6. end.port = peer.port => end.rcv_nxt <= peer.snd
    <3>1. ASSUME end.port = peer.port PROVE end.rcv_nxt <= peer.snd
      <4>1. c.port = peer.port /\ s.port = peer.port /\ peer.fin
        BY <1>8, <2>5, <3>1 DEF Arrives
      <4>2. d.rcv_nxt <= DataEnd /\ DataEnd = peer.snd - 1
        BY <1>4, <4>1 DEF DataEnd
      <4> QED
        BY <1>0, <2>2, <2>5, <4>2
    <3> QED
      BY <3>1
  <2>7. ConnTrue(end)
    BY <1>5, <2>5, <2>6 DEF ConnTrue
  <2>8. Acks(ReceiveEstablished(c, s).answer, c.port)
    <3>1. /\ Acks({Carried(last, {"ACK"}, <<>>)}, c.port)
          /\ Acks({Carried(last, {"FIN", "ACK"}, <<>>)}, c.port)
      BY <2>3, <2>4, CarriedAcks
    <3> HIDE DEF ack
    <3> QED
      BY <1>6, <2>1, <3>1 DEF Acks
  <2> HIDE DEF ack
  <2> QED
    BY <2>1, <2>5, <2>7, <2>8 DEF HandledTrue, Turns
<1> QED
  BY <1>7, <1>8

LEMMA HandledFacts ==
  ASSUME NEW k \in Nat, NEW c \in Connection(k), NEW s \in Segment, PeerTrue, ConnTrue(c),
         c.used, Arrives(c, s)
  PROVE  HandledTrue(k, c, s, Handled(c, s))
<1>0. s.win \in Nat
  BY DEF Segment
<1> DEFINE d == [c EXCEPT !.snd_wnd = s.win]
<1>1. d \in Connection(k)
  BY <1>0 DEF Connection
<1>2. /\ d.port = c.port /\ d.state = c.state /\ d.snd_nxt = c.snd_nxt /\ d.rx_head = c.rx_head
      /\ d.rx_tail = c.rx_tail /\ d.used = c.used /\ d.rcv_nxt = c.rcv_nxt
  BY DEF Connection
<1>3. CASE c.state = "SYN_SENT"
  BY <1>3, SynAckTrue DEF Handled
<1>4. CASE c.state = "ESTABLISHED"
  BY <1>4, EstablishedTrue DEF Handled
<1>5. CASE c.state = "LAST_ACK"
  <2> DEFINE e == [d EXCEPT !.state = "CLOSED", !.used = FALSE]
             h == ReceiveLastAck(c, s)
  <2>0. Handled(c, s) = h
    BY <1>5 DEF Handled
  <2>1. h.conn = (IF "ACK" \in s.flags THEN e ELSE d) /\ h.answer = {}
    BY DEF ReceiveLastAck
  <2> HIDE DEF h
  <2>2. e \in Connection(k)
    <3> HIDE DEF d
    <3> QED
      BY <1>1 DEF Connection, States
  <2>3. /\ e.port = c.port /\ e.snd_nxt = c.snd_nxt /\ e.state = "CLOSED" /\ e.used = FALSE
    <3> HIDE DEF d
    <3> QED
      BY <1>1, <1>2 DEF Connection
  <2> HIDE DEF d, e
  <2>4. ConnTrue(e)
    BY <2>3 DEF ConnTrue
  <2>5. ConnTrue(d)
    BY <1>2, <1>5 DEF ConnTrue
  <2>6. Turns(c, d) /\ Turns(c, e) /\ Acks({}, c.port)
    BY <1>2, <1>5, <2>3 DEF Turns, Acks
  <2> QED
    BY <1>1, <1>2, <2>0, <2>1, <2>2, <2>3, <2>4, <2>5, <2>6 DEF HandledTrue
<1>6. CASE c.state \notin {"SYN_SENT", "ESTABLISHED", "LAST_ACK"}
  <2>1. Handled(c, s) = [conn |-> d, answer |-> {}]
    BY <1>6 DEF Handled
  <2>2. Handled(c, s).conn = d /\ Handled(c, s).answer = {}
    BY <2>1
  <2> HIDE DEF d
  <2>3. ConnTrue(d) /\ Turns(c, d) /\ Acks({}, c.port)
    BY <1>2, <1>6 DEF ConnTrue, Turns, Acks
  <2> QED
    BY <1>1, <1>2, <2>2, <2>3 DEF HandledTrue
<1> QED
  BY <1>3, <1>4, <1>5, <1>6

LEMMA TcpInit0 == TcpInit => TcpInv
<1> SUFFICES ASSUME TcpInit PROVE TcpInv
  OBVIOUS
<1>1. /\ conns = [c \in Conns |-> Unused] /\ opens = 0 /\ sent = 0 /\ out = {} /\ in = {}
      /\ task = [sock |-> 0, at |-> "none", todo |-> 0, owed |-> 0]
      /\ peer = [port |-> 0, next |-> 0, got |-> <<>>, snd |-> 0, base |-> 0, fin |-> FALSE]
      /\ limit \in Limits
  BY DEF TcpInit
<1>2. limit \in [opens : Nat, bytes : Nat, peer : Nat] /\ MSS \in Nat /\ RXBUF \in Nat
  BY <1>1, TcpAssumption
<1>3. TcpTypeOK
  <2>1. Unused \in [used : BOOLEAN, state : States, port : 0 .. 0, snd_nxt : Nat, snd_una : Nat,
                    snd_wnd : Nat, rcv_nxt : Nat, rcv_wnd : 0 .. RXBUF + 1,
                    rx_head : Nat, rx_tail : Nat]
    BY <1>2 DEF Unused, States
  <2>2. conns \in [Conns -> [used : BOOLEAN, state : States, port : 0 .. opens, snd_nxt : Nat,
                    snd_una : Nat, snd_wnd : Nat, rcv_nxt : Nat, rcv_wnd : 0 .. RXBUF + 1,
                    rx_head : Nat, rx_tail : Nat]]
    BY <1>1, <2>1
  <2>3. task.sock = 0 /\ task.at = "none" /\ task.todo = 0 /\ task.owed = 0 /\ peer.port = 0
    BY <1>1
  <2>4. out \cup in \subseteq Segment
    BY <1>1
  <2> QED
    BY <1>1, <1>2, <2>2, <2>3, <2>4 DEF TcpTypeOK
<1>4. TaskTrue /\ PeerTrue /\ OutTrue /\ InTrue
  <2>1. task.sock = 0 /\ task.at = "none" /\ task.todo = 0 /\ task.owed = 0 /\ peer.port = 0
    BY <1>1
  <2>2. task \in [sock : Conns \cup {0}, at : Ats, todo : Nat, owed : Nat]
    BY <1>1 DEF Ats
  <2>3. peer \in [port : Nat, next : Nat, got : Seq(Nat), snd : Nat, base : Nat, fin : BOOLEAN]
    BY <1>1
  <2>4. TaskTrue
    BY <1>1, <1>2, <2>1, <2>2 DEF TaskTrue, Live
  <2> QED
    BY <1>1, <2>1, <2>3, <2>4 DEF PeerTrue, OutTrue, InTrue
<1>5. \A c \in Conns : ConnTrue(conns[c])
  BY <1>1 DEF ConnTrue, Unused
<1>6. SentTrue(0)
  <2>1. DataOut = {} /\ ~InStep /\ task.at # "sending" /\ peer.got = <<>>
    BY <1>1 DEF DataOut, InStep, Live
  <2> QED
    BY <2>1 DEF SentTrue, DataTrue, GotTrue, NowTrue
<1>7. 0 \in 0 .. sent
  BY <1>1
<1> QED
  BY <1>3, <1>4, <1>5, <1>6, <1>7 DEF TcpInv

-----------------------------------------------------------------------------
LEMMA TcpFacts ==
  ASSUME TcpInv
  PROVE  /\ conns \in [Conns -> Connection(opens)]
         /\ opens \in Nat /\ sent \in Nat /\ RXBUF \in Nat /\ MSS \in Nat /\ MSS > 0
         /\ limit.opens \in Nat /\ limit.bytes \in Nat
         /\ opens <= limit.opens /\ sent <= limit.bytes
         /\ task \in [sock : Conns \cup {0}, at : Ats, todo : Nat, owed : Nat]
         /\ task.at # "none" => task.sock \in Conns /\ Mine \in Connection(opens)
         /\ out \subseteq Segment /\ in \subseteq Segment
         /\ peer.port \in 0 .. opens
<1>1. limit \in [opens : Nat, bytes : Nat, peer : Nat] /\ MSS \in Nat \ {0} /\ RXBUF \in Nat
  BY TcpAssumption DEF TcpInv, TcpTypeOK
<1>2. conns \in [Conns -> Connection(opens)]
  BY DEF TcpInv, TcpTypeOK, Connection
<1>3. limit.opens \in Nat /\ limit.bytes \in Nat /\ opens \in 0 .. limit.opens /\ sent \in 0 .. limit.bytes
  BY <1>1 DEF TcpInv, TcpTypeOK
<1>4. /\ task \in [sock : Conns \cup {0}, at : Ats, todo : Nat, owed : Nat]
      /\ task.at # "none" => task.sock \in Conns
      /\ out \cup in \subseteq Segment /\ peer.port \in 0 .. opens
  BY DEF TcpInv, TcpTypeOK, TaskTrue
<1>5. task.at # "none" => Mine \in Connection(opens)
  BY <1>2, <1>4 DEF Mine
<1> QED
  BY <1>1, <1>2, <1>3, <1>4, <1>5

(* What a step of this side has to show: the peer and what it sent are as  *)
(* before.                                                                 *)
LEMMA OwnStep ==
  ASSUME TcpInv, peer' = peer, in' = in, limit' = limit,
         opens' \in Nat, opens <= opens', opens' <= limit.opens,
         sent' \in Nat, sent' <= limit.bytes,
         conns' \in [Conns -> Connection(opens')],
         task'.at = "none" => task'.sock = 0, task'.at # "none" => task'.sock \in Conns,
         task'.owed <= MSS, TaskTrue',
         out' \subseteq Segment, OutTrue',
         \A c \in Conns : ConnTrue(conns'[c]),
         \E F \in 0 .. sent' : SentTrue(F)'
  PROVE  TcpInv'
<1>1. PeerTrue' /\ InTrue'
  BY DEF TcpInv, PeerTrue, InTrue, DataEnd
<1>2. \A c \in Conns : ConnTrue(conns[c])'
  BY DEF ConnTrue, DataEnd
<1>3. TcpTypeOK'
  <2>1. conns' \in [Conns -> [used : BOOLEAN, state : States, port : 0 .. opens',
                       snd_nxt : Nat, snd_una : Nat, snd_wnd : Nat,
                       rcv_nxt : Nat, rcv_wnd : 0 .. RXBUF + 1, rx_head : Nat, rx_tail : Nat]]
    BY DEF Connection
  <2>2. task'.at \in Ats /\ task'.todo \in Nat /\ task'.owed \in Nat /\ sent' + task'.todo <= limit.bytes
    BY DEF TaskTrue
  <2>3. limit.opens \in Nat /\ limit.bytes \in Nat /\ opens \in Nat /\ MSS \in Nat
    BY TcpFacts
  <2>4. /\ task'.todo \in 0 .. limit'.bytes /\ task'.owed \in 0 .. MSS /\ opens' \in 0 .. limit'.opens
        /\ sent' \in 0 .. limit'.bytes
    BY <2>2, <2>3
  <2>5. peer'.port \in 0 .. opens' /\ limit' \in Limits
    <3>1. peer.port \in 0 .. opens
      BY TcpFacts
    <3> QED
      BY <2>3, <3>1 DEF TcpInv, TcpTypeOK
  <2>6. out' \cup in' \subseteq Segment
    BY TcpFacts
  <2>7. IF task'.at = "none" THEN task'.sock = 0 ELSE task'.sock \in Conns
    OBVIOUS
  <2> QED
    BY <2>1, <2>2, <2>4, <2>5, <2>6, <2>7 DEF TcpTypeOK, Ats
<1> QED
  BY <1>1, <1>2, <1>3 DEF TcpInv

LEMMA SentKeeps ==
  ASSUME NEW F, opens' = opens, DataOut' = DataOut, peer' = peer, SentTrue(F), NowTrue(F)'
  PROVE  SentTrue(F)'
<1> QED
  BY DEF SentTrue, DataTrue, GotTrue, Regular, Base

LEMMA ReceiveKeeps ==
  ASSUME TcpInv, NEW s \in in, TcpReceive(s)
  PROVE  TcpInv'
<1>1. /\ task' = task /\ opens' = opens /\ sent' = sent /\ in' = in /\ peer' = peer /\ limit' = limit
  BY DEF TcpReceive
<1>2. PICK c \in Conns :
        /\ conns[c].used /\ conns[c].port = s.port
        /\ conns' = [conns EXCEPT ![c] = Handled(conns[c], s).conn]
        /\ out' = out \cup Flying(Handled(conns[c], s).answer)
  BY DEF TcpReceive
<1> DEFINE h == Handled(conns[c], s)
<1>3. /\ conns \in [Conns -> Connection(opens)] /\ opens \in Nat /\ sent \in Nat /\ s \in Segment
      /\ conns[c] \in Connection(opens) /\ peer.port \in 0 .. opens /\ out \subseteq Segment
      /\ task.at # "none" => task.sock \in Conns
  BY TcpFacts
<1>4. HandledTrue(opens, conns[c], s, h)
  <2>1. PeerTrue /\ ConnTrue(conns[c]) /\ Arrives(conns[c], s)
    BY <1>2 DEF TcpInv, InTrue, Arrives
  <2> QED
    BY <1>2, <1>3, <2>1, HandledFacts
<1>5. /\ h.conn \in Connection(opens) /\ h.conn.port = conns[c].port /\ Turns(conns[c], h.conn)
      /\ ConnTrue(h.conn) /\ Acks(h.answer, conns[c].port)
  BY <1>4 DEF HandledTrue
<1>6. conns' = [conns EXCEPT ![c] = h.conn] /\ out' = out \cup Flying(h.answer)
  BY <1>2
<1> HIDE DEF h
<1>7. conns' \in [Conns -> Connection(opens)] /\ conns'[c] = h.conn
      /\ \A d \in Conns : d # c => conns'[d] = conns[d]
  BY <1>3, <1>5, <1>6
<1>8. \A a \in out' : a \in out \/ /\ a \in Segment /\ a.port = conns[c].port
                                   /\ a.data = <<>> /\ "SYN" \notin a.flags
  BY <1>5, <1>6 DEF Flying, Acks
<1>9. s.port \in 1 .. peer.port
  BY DEF TcpInv, InTrue
<1>10. OutTrue'
  BY <1>1, <1>2, <1>3, <1>8, <1>9 DEF TcpInv, OutTrue
<1>11. DataOut' = DataOut
  <2>1. out \subseteq out'
    BY <1>6
  <2> QED
    BY <1>1, <1>8, <2>1 DEF DataOut
<1>12. Mine' = IF task.sock = c THEN h.conn ELSE Mine
  <2>1. task.at # "none" => task.sock \in Conns
    BY <1>3
  <2> QED
    BY <1>1, <1>3, <1>6, <1>7 DEF Mine
<1>13. TaskTrue'
  <2>1. task.at = "open" => task.sock # c
    BY <1>2, <1>3, <1>9 DEF TcpInv, TaskTrue, Mine
  <2>2. Mine'.port = Mine.port
    BY <1>5, <1>12 DEF Mine
  <2> QED
    BY <1>1, <1>12, <2>1, <2>2 DEF TcpInv, TaskTrue, Live
<1>14. ASSUME NEW F \in 0 .. sent, SentTrue(F) PROVE SentTrue(F)'
  <2>1. NowTrue(F)'
    <3>1. CASE task.sock # c
      BY <1>1, <1>11, <1>12, <1>14, <3>1 DEF SentTrue, NowTrue, InStep, Live, Regular, Base
    <3>2. CASE task.sock = c
      <4>1. Turns(Mine, Mine')
        BY <1>5, <1>12, <3>2 DEF Mine
      <4>2. InStep' => InStep /\ Mine'.snd_nxt = Mine.snd_nxt
        BY <1>1, <4>1 DEF Turns, InStep, Live
      <4>3. task.at = "sending" /\ ~InStep' =>
              (IF InStep THEN Mine'.snd_nxt = Mine.snd_nxt + 1 ELSE Mine'.snd_nxt = Mine.snd_nxt)
        BY <1>1, <4>1 DEF Turns, InStep, Live
      <4>4. task.owed \in Nat /\ Mine.snd_nxt \in Nat /\ Base \in Nat
        <5>1. Mine = conns[c]
          BY <3>2 DEF Mine
        <5> QED
          BY <1>3, <5>1, TcpFacts DEF Connection, Base, Isn
      <4>5. InStep => F = sent /\ Mine.snd_nxt + task.owed = Base + sent
                      /\ \A a \in DataOut : Regular(a, F)
        BY <1>14 DEF SentTrue, NowTrue
      <4>6. task.at = "sending" /\ ~InStep => Mine.snd_nxt + task.owed > Base + F
        BY <1>14 DEF SentTrue, NowTrue
      <4>7. task.at = "sending" /\ ~InStep' => Mine'.snd_nxt + task.owed > Base + F
        BY <1>3, <4>3, <4>4, <4>5, <4>6
      <4>8. InStep' => F = sent /\ Mine'.snd_nxt + task.owed = Base + sent
                      /\ \A a \in DataOut : Regular(a, F)
        BY <4>2, <4>5
      <4>9. Base' = Base /\ \A a : Regular(a, F)' <=> Regular(a, F)
        BY <1>1 DEF Base, Regular
      <4> QED
        BY <1>1, <1>11, <4>7, <4>8, <4>9 DEF NowTrue
    <3> QED
      BY <3>1, <3>2
  <2> QED
    BY <1>1, <1>11, <1>14, <2>1, SentKeeps
<1>15. \A d \in Conns : ConnTrue(conns'[d])
  BY <1>5, <1>7 DEF TcpInv
<1>16. \E F \in 0 .. sent' : SentTrue(F)'
  BY <1>1, <1>14 DEF TcpInv
<1>17. out' \subseteq Segment
  BY <1>3, <1>8
<1>18. /\ opens' \in Nat /\ opens <= opens' /\ opens' <= limit.opens /\ sent' \in Nat
       /\ sent' <= limit.bytes /\ task'.owed <= MSS
       /\ conns' \in [Conns -> Connection(opens')]
       /\ (task'.at = "none" => task'.sock = 0) /\ (task'.at # "none" => task'.sock \in Conns)
  <2>1. task.owed \in 0 .. MSS /\ (task.at = "none" => task.sock = 0)
    BY DEF TcpInv, TcpTypeOK
  <2> QED
    BY <1>1, <1>7, <2>1, TcpFacts
<1> QED
  BY <1>1, <1>10, <1>13, <1>15, <1>16, <1>17, <1>18, OwnStep

(* A step that changes at most the caller's entry, and sends nothing with  *)
(* data and nothing with SYN.                                              *)
LEMMA QuietStep ==
  ASSUME TcpInv, task.at # "none",
         opens' = opens, sent' = sent, in' = in, peer' = peer, limit' = limit,
         NEW c \in Connection(opens), ConnTrue(c), conns' = [conns EXCEPT ![task.sock] = c],
         NEW answer, NEW port, Acks(answer, port), answer # {} => port \in 1 .. opens, out' = out \cup answer,
         task'.at = "none" => task'.sock = 0, task'.at # "none" => task'.sock = task.sock,
         task'.owed <= MSS, TaskTrue',
         \A F \in 0 .. sent : SentTrue(F) => NowTrue(F)'
  PROVE  TcpInv'
<1>1. /\ conns \in [Conns -> Connection(opens)] /\ opens \in Nat /\ sent \in Nat
      /\ task.sock \in Conns /\ out \subseteq Segment /\ sent <= limit.bytes /\ opens <= limit.opens
  BY TcpFacts
<1>2. /\ conns' \in [Conns -> Connection(opens)] /\ conns'[task.sock] = c
      /\ \A d \in Conns : d # task.sock => conns'[d] = conns[d]
  BY <1>1
<1>3. \A d \in Conns : ConnTrue(conns'[d])
  BY <1>2 DEF TcpInv
<1>4. out' \subseteq Segment /\ DataOut' = DataOut
  BY <1>1 DEF Acks, DataOut
<1>5. OutTrue'
  BY <1>1 DEF Acks, OutTrue, TcpInv
<1>6. \E F \in 0 .. sent' : SentTrue(F)'
  BY <1>4, SentKeeps DEF TcpInv
<1>7. /\ opens' \in Nat /\ opens <= opens' /\ opens' <= limit.opens /\ sent' \in Nat
      /\ sent' <= limit.bytes /\ conns' \in [Conns -> Connection(opens')]
      /\ (task'.at # "none" => task'.sock \in Conns)
  BY <1>1, <1>2
<1> QED
  BY <1>3, <1>4, <1>5, <1>6, <1>7, OwnStep

LEMMA SocketKeeps ==
  ASSUME TcpInv, Socket
  PROVE  TcpInv'
<1>1. /\ task.at = "none" /\ opens < limit.opens
      /\ opens' = opens /\ sent' = sent /\ out' = out /\ in' = in /\ peer' = peer /\ limit' = limit
  BY DEF Socket
<1> DEFINE u == [Unused EXCEPT !.used = TRUE, !.rcv_wnd = RXBUF + 1]
<1>2. PICK c \in Conns : /\ conns' = [conns EXCEPT ![c] = u]
                         /\ task' = [task EXCEPT !.sock = c, !.at = "open"]
  BY DEF Socket
<1>3. /\ conns \in [Conns -> Connection(opens)] /\ opens \in Nat /\ sent \in Nat /\ RXBUF \in Nat
      /\ task \in [sock : Conns \cup {0}, at : Ats, todo : Nat, owed : Nat]
      /\ out \subseteq Segment /\ sent <= limit.bytes /\ opens <= limit.opens
  BY TcpFacts
<1>4. u \in Connection(opens) /\ ConnTrue(u) /\ u.port = 0 /\ u.state = "CLOSED" /\ u.rx_head = u.rx_tail
  <2>1. 0 \in 0 .. opens /\ RXBUF + 1 \in 0 .. RXBUF + 1 /\ 0 \in 0 .. RXBUF + 1 /\ "CLOSED" \in States
    BY <1>3 DEF States
  <2>2. /\ Unused \in Connection(opens) /\ Unused.port = 0 /\ Unused.state = "CLOSED"
        /\ Unused.rx_head = 0 /\ Unused.rx_tail = 0
    BY <2>1 DEF Connection, Unused
  <2>3. u \in Connection(opens)
    BY <2>1, <2>2 DEF Connection
  <2>4. /\ u.port = Unused.port /\ u.state = Unused.state /\ u.rx_head = Unused.rx_head
        /\ u.rx_tail = Unused.rx_tail
    BY <2>2 DEF Connection
  <2> HIDE DEF u
  <2> QED
    BY <2>2, <2>3, <2>4 DEF ConnTrue
<1> HIDE DEF u
<1>5. /\ conns' \in [Conns -> Connection(opens)] /\ conns'[c] = u
      /\ \A d \in Conns : d # c => conns'[d] = conns[d]
  BY <1>2, <1>3, <1>4
<1>6. /\ task' \in [sock : Conns \cup {0}, at : Ats, todo : Nat, owed : Nat]
      /\ task'.sock = c /\ task'.at = "open" /\ task'.todo = task.todo /\ task'.owed = task.owed
  BY <1>2, <1>3 DEF Ats
<1>7. task.owed = 0 /\ sent + task.todo <= limit.bytes
  BY <1>1, <1>3 DEF TcpInv, TaskTrue
<1>8. TaskTrue'
  <2>1. Mine' = u
    BY <1>5, <1>6 DEF Mine
  <2> QED
    BY <1>1, <1>4, <1>6, <1>7, <2>1 DEF TaskTrue, Live
<1>9. ASSUME NEW F \in 0 .. sent, SentTrue(F) PROVE SentTrue(F)'
  <2>1. NowTrue(F)' /\ DataOut' = DataOut
    BY <1>1, <1>6 DEF NowTrue, InStep, Live, DataOut
  <2> QED
    BY <1>1, <1>9, <2>1, SentKeeps
<1>10. \E F \in 0 .. sent' : SentTrue(F)'
  BY <1>1, <1>9 DEF TcpInv
<1>11. \A d \in Conns : ConnTrue(conns'[d])
  BY <1>4, <1>5 DEF TcpInv
<1>12. OutTrue'
  BY <1>1 DEF TcpInv, OutTrue
<1>13. task'.owed <= MSS
  BY <1>6, <1>7, TcpFacts
<1> QED
  BY <1>1, <1>3, <1>5, <1>6, <1>8, <1>10, <1>11, <1>12, <1>13, OwnStep

LEMMA ConnectKeeps ==
  ASSUME TcpInv, Connect
  PROVE  TcpInv'
<1> DEFINE n == opens + 1
           c == [Mine EXCEPT !.port = n, !.snd_una = Isn(n), !.snd_nxt = Isn(n),
                             !.state = "SYN_SENT"]
           syn == Carried(c, {"SYN"}, <<>>)
<1>1. /\ task.at = "open" /\ opens' = n /\ sent' = 0
      /\ conns' = [conns EXCEPT ![task.sock] = c]
      /\ out' = out \cup {syn}
      /\ task' = [task EXCEPT !.at = "connecting", !.owed = 1]
      /\ in' = in /\ peer' = peer /\ limit' = limit
  BY DEF Connect
<1>2. /\ conns \in [Conns -> Connection(opens)] /\ opens \in Nat /\ sent \in Nat
      /\ task \in [sock : Conns \cup {0}, at : Ats, todo : Nat, owed : Nat]
      /\ out \subseteq Segment /\ sent <= limit.bytes /\ opens <= limit.opens /\ peer.port \in 0 .. opens
      /\ task.sock \in Conns /\ Mine \in Connection(opens) /\ limit.bytes \in Nat
      /\ MSS \in Nat /\ MSS > 0
  BY <1>1, TcpFacts
<1>3. /\ opens < limit.opens /\ Mine.rx_head = Mine.rx_tail /\ sent + task.todo <= limit.bytes
  BY <1>1 DEF TcpInv, TaskTrue
<1>4. n \in Nat /\ Isn(n) \in Nat /\ Connection(opens) \subseteq Connection(n)
  <2>1. n \in Nat /\ opens <= n
    BY <1>2
  <2>2. 0 .. opens \subseteq 0 .. n
    BY <1>2, <2>1
  <2> QED
    BY <2>1, <2>2 DEF Isn, Connection
<1> HIDE DEF n
<1>5. /\ c \in Connection(n) /\ c.port = n /\ c.snd_nxt = Isn(n) /\ c.state = "SYN_SENT"
      /\ c.rx_head = c.rx_tail
  <2>1. n \in 0 .. n /\ "SYN_SENT" \in States /\ Mine \in Connection(n)
    BY <1>2, <1>4 DEF States
  <2>2. c \in Connection(n)
    BY <1>4, <2>1 DEF Connection
  <2>3. /\ c.port = n /\ c.snd_nxt = Isn(n) /\ c.state = "SYN_SENT"
    BY <2>1 DEF Connection
  <2>4. c.rx_head = Mine.rx_head /\ c.rx_tail = Mine.rx_tail
    BY <2>1 DEF Connection
  <2> QED
    BY <1>3, <2>2, <2>3, <2>4
<1> HIDE DEF c
<1>6. /\ syn \in Segment /\ syn.port = n /\ syn.data = <<>> /\ syn.seq = Isn(n)
  <2>1. {"SYN"} \in SUBSET {"SYN", "ACK", "FIN"} /\ <<>> \in Seq(Nat)
    OBVIOUS
  <2>2. \A data \in Seq(Nat) : LET a == Carried(c, {"SYN"}, data) IN
          a \in Segment /\ a.port = c.port /\ a.data = data /\ a.seq = c.snd_nxt
    BY <1>4, <1>5, <2>1, CarriedFacts
  <2> QED
    BY <1>5, <2>1, <2>2
<1> HIDE DEF syn
<1>7. /\ conns' \in [Conns -> Connection(n)] /\ conns'[task.sock] = c
      /\ \A d \in Conns : d # task.sock => conns'[d] = conns[d]
  BY <1>1, <1>2, <1>4, <1>5
<1>8. /\ task' \in [sock : Conns \cup {0}, at : Ats, todo : Nat, owed : Nat]
      /\ task'.sock = task.sock /\ task'.at = "connecting" /\ task'.todo = task.todo /\ task'.owed = 1
  BY <1>1, <1>2 DEF Ats
<1>9. Mine' = c
  BY <1>7, <1>8 DEF Mine
<1>10. TaskTrue'
  <2>1. 0 + task.todo <= limit.bytes /\ n > 0
    BY <1>2, <1>3 DEF n
  <2> QED
    BY <1>1, <1>5, <1>8, <1>9, <2>1 DEF TaskTrue, Live
<1>11. OutTrue'
  <2>1. \A s \in out : s.port \in 1 .. n /\ ("SYN" \in s.flags => s.seq = Isn(s.port))
    BY <1>2 DEF TcpInv, OutTrue, n
  <2>2. n \in 1 .. n
    BY <1>2 DEF n
  <2>3. \A s \in out' : s.port \in 1 .. n /\ ("SYN" \in s.flags => s.seq = Isn(s.port))
    BY <1>1, <1>6, <2>1, <2>2
  <2> QED
    BY <1>1, <2>3 DEF OutTrue
<1>12. SentTrue(0)'
  <2>1. DataOut' = {}
    <3>1. \A s \in out : s.port # n
      BY <1>2 DEF TcpInv, OutTrue, n
    <3> QED
      BY <1>1, <1>6, <3>1 DEF DataOut
  <2>2. peer'.port # opens'
    BY <1>1, <1>2 DEF n
  <2>3. Mine'.snd_nxt + task'.owed = Base' + sent' /\ InStep'
    BY <1>1, <1>4, <1>5, <1>8, <1>9 DEF Base, InStep, Live
  <2> QED
    BY <1>1, <2>1, <2>2, <2>3 DEF SentTrue, DataTrue, GotTrue, NowTrue
<1>13. ConnTrue(c)
  BY <1>5 DEF ConnTrue
<1>14. \A d \in Conns : ConnTrue(conns'[d])
  BY <1>7, <1>13 DEF TcpInv
<1>15. /\ opens' \in Nat /\ opens <= opens' /\ opens' <= limit.opens
  BY <1>1, <1>2, <1>3, TcpFacts DEF n
<1>16. sent' \in Nat /\ sent' <= limit.bytes /\ task'.owed <= MSS
  BY <1>1, <1>2, <1>8
<1>17. out' \subseteq Segment /\ \E F \in 0 .. sent' : SentTrue(F)'
  <2>1. 0 \in 0 .. sent'
    BY <1>1
  <2> QED
    BY <1>1, <1>2, <1>6, <1>12, <2>1
<1>18. conns' \in [Conns -> Connection(opens')]
  BY <1>1, <1>7
<1> QED
  BY <1>1, <1>2, <1>8, <1>10, <1>11, <1>14, <1>15, <1>16, <1>17, <1>18, OwnStep

(* The steps that leave the table alone.                                   *)
LEMMA TaskStep ==
  ASSUME TcpInv, task.at # "none", UNCHANGED <<conns, opens, sent, out, in, peer, limit>>,
         task'.at # "none", task'.sock = task.sock, task'.owed <= MSS, TaskTrue',
         \A F \in 0 .. sent : SentTrue(F) => NowTrue(F)'
  PROVE  TcpInv'
<1>1. /\ conns' = conns /\ opens' = opens /\ sent' = sent /\ out' = out /\ in' = in
      /\ peer' = peer /\ limit' = limit
  OBVIOUS
<1>2. Mine \in Connection(opens) /\ task.sock \in Conns /\ conns \in [Conns -> Connection(opens)]
  BY TcpFacts
<1>3. conns' = [conns EXCEPT ![task.sock] = Mine] /\ ConnTrue(Mine)
  BY <1>1, <1>2 DEF Mine, TcpInv
<1>4. Acks({}, opens) /\ out' = out \cup {}
  BY <1>1 DEF Acks
<1> QED
  BY <1>1, <1>2, <1>3, <1>4, QuietStep

LEMMA TcpAdvanceKeeps ==
  ASSUME TcpInv, Advance
  PROVE  TcpInv'
<1> DEFINE c == [Mine EXCEPT !.snd_nxt = Mine.snd_nxt + task.owed]
<1>1. /\ task.owed > 0 /\ task' = [task EXCEPT !.owed = 0]
      /\ opens' = opens /\ sent' = sent /\ out' = out /\ in' = in /\ peer' = peer /\ limit' = limit
  BY DEF Advance
<1>2. task.at \in {"connecting", "sending"} /\ Live
  BY <1>1 DEF TcpInv, TaskTrue, Live
<1>3. /\ conns \in [Conns -> Connection(opens)] /\ opens \in Nat /\ sent \in Nat
      /\ task \in [sock : Conns \cup {0}, at : Ats, todo : Nat, owed : Nat]
      /\ task.sock \in Conns /\ Mine \in Connection(opens) /\ MSS \in Nat
  BY <1>2, TcpFacts
<1>4. conns' = [conns EXCEPT ![task.sock] = c]
  BY <1>3 DEF Advance, Mine
<1>5. /\ c \in Connection(opens) /\ c.snd_nxt = Mine.snd_nxt + task.owed /\ c.port = Mine.port
      /\ c.state = Mine.state /\ c.used = Mine.used /\ c.rcv_nxt = Mine.rcv_nxt
      /\ c.rx_head = Mine.rx_head /\ c.rx_tail = Mine.rx_tail /\ Mine.snd_nxt \in Nat
  <2>1. Mine.snd_nxt + task.owed \in Nat /\ Mine.snd_nxt \in Nat
    BY <1>3 DEF Connection
  <2>2. c \in Connection(opens)
    BY <1>3, <2>1 DEF Connection
  <2> QED
    BY <1>3, <2>1, <2>2 DEF Connection
<1> HIDE DEF c
<1>6. ConnTrue(c)
  <2>1. ConnTrue(Mine)
    BY <1>3 DEF Mine, TcpInv
  <2> QED
    BY <1>5, <2>1 DEF ConnTrue
<1>7. Mine' = c
  BY <1>1, <1>3, <1>4 DEF Mine
<1>8. /\ task' \in [sock : Conns \cup {0}, at : Ats, todo : Nat, owed : Nat]
      /\ task'.sock = task.sock /\ task'.at = task.at /\ task'.todo = task.todo /\ task'.owed = 0
  BY <1>1, <1>3
<1>9. TaskTrue'
  BY <1>1, <1>2, <1>5, <1>7, <1>8 DEF TcpInv, TaskTrue, Live
<1>10. Acks({}, opens) /\ out' = out \cup {}
  BY <1>1 DEF Acks
<1>11. ASSUME NEW F \in 0 .. sent, SentTrue(F) PROVE NowTrue(F)'
  <2>1. InStep' <=> InStep
    BY <1>5, <1>7, <1>8 DEF InStep, Live
  <2>2. Mine'.snd_nxt + task'.owed = Mine.snd_nxt + task.owed
    BY <1>3, <1>5, <1>7, <1>8
  <2>3. Base' = Base /\ DataOut' = DataOut
    BY <1>1 DEF Base, DataOut
  <2>4. \A s : Regular(s, F)' <=> Regular(s, F)
    BY <2>3 DEF Regular
  <2> QED
    BY <1>1, <1>8, <1>11, <2>1, <2>2, <2>3, <2>4 DEF SentTrue, NowTrue
<1>12. task'.owed <= MSS
  BY <1>3, <1>8
<1> QED
  BY <1>1, <1>2, <1>4, <1>5, <1>6, <1>8, <1>9, <1>10, <1>11, <1>12, QuietStep

LEMMA CallKeeps ==
  ASSUME TcpInv, Connected \/ (\E n \in 1 .. limit.bytes : SendCall(n)) \/ SendReturns
  PROVE  TcpInv'
<1>1. /\ conns' = conns /\ opens' = opens /\ sent' = sent /\ out' = out /\ in' = in
      /\ peer' = peer /\ limit' = limit /\ task.at \in {"connecting", "connected", "sending"}
  <2>1. CASE Connected
    BY <2>1 DEF Connected
  <2>2. ASSUME NEW n \in 1 .. limit.bytes, SendCall(n)
        PROVE  /\ UNCHANGED <<conns, opens, sent, out, in, peer, limit>> /\ task.at = "connected"
    BY <2>2 DEF SendCall
  <2>3. CASE SendReturns
    BY <2>3 DEF SendReturns
  <2> QED
    BY <2>1, <2>2, <2>3
<1>2. /\ task \in [sock : Conns \cup {0}, at : Ats, todo : Nat, owed : Nat]
      /\ limit.bytes \in Nat /\ MSS \in Nat /\ sent \in Nat
  BY TcpFacts
<1>3. /\ task' \in [sock : Conns \cup {0}, at : Ats, todo : Nat, owed : Nat]
      /\ task'.sock = task.sock /\ task'.owed = task.owed
      /\ task'.at \in {"connected", "sending", "broken"}
      /\ sent + task'.todo <= limit.bytes
      /\ task'.at # "broken" => Live
      /\ task'.at = "sending" => InStep
      /\ task.owed = 0
  <2>1. sent + task.todo <= limit.bytes /\ (task.at = "connected" => task.owed = 0)
    BY <1>2 DEF TcpInv, TaskTrue
  <2>2. CASE Connected
    BY <1>2, <2>1, <2>2 DEF Connected, Ats, Live
  <2>3. CASE \E n \in 1 .. limit.bytes : SendCall(n)
    <3>1. PICK n \in 1 .. limit.bytes : SendCall(n)
      BY <2>3
    <3>2. n \in Nat
      BY <1>2
    <3> QED
      BY <1>2, <2>1, <3>1, <3>2 DEF SendCall, Ats, Live, InStep
  <2>4. CASE SendReturns
    BY <1>2, <2>1, <2>4 DEF SendReturns, Ats, Live
  <2> QED
    BY <2>2, <2>3, <2>4
<1>4. Mine' = Mine
  BY <1>1, <1>3 DEF Mine
<1>5. TaskTrue'
  BY <1>1, <1>3, <1>4 DEF TcpInv, TaskTrue, Live
<1>6. ASSUME NEW F \in 0 .. sent, SentTrue(F) PROVE NowTrue(F)'
  <2>1. InStep' => InStep
    BY <1>3, <1>4 DEF InStep, Live
  <2>2. task'.at = "sending" => InStep'
    BY <1>3, <1>4 DEF InStep, Live
  <2>3. Base' = Base /\ DataOut' = DataOut
    BY <1>1 DEF Base, DataOut
  <2>4. \A s : Regular(s, F)' <=> Regular(s, F)
    BY <2>3 DEF Regular
  <2> QED
    BY <1>1, <1>3, <1>4, <1>6, <2>1, <2>2, <2>3, <2>4 DEF SentTrue, NowTrue
<1>7. task'.owed <= MSS /\ task'.at # "none" /\ task.at # "none"
  BY <1>1, <1>2, <1>3
<1> QED
  BY <1>1, <1>3, <1>5, <1>6, <1>7, TaskStep

LEMMA TimeoutKeeps ==
  ASSUME TcpInv, ConnectTimeout
  PROVE  TcpInv'
<1> DEFINE c == [Mine EXCEPT !.state = "CLOSED"]
<1>1. /\ task.at = "connecting" /\ task.owed = 0 /\ task' = [task EXCEPT !.at = "broken"]
      /\ opens' = opens /\ sent' = sent /\ out' = out /\ in' = in /\ peer' = peer /\ limit' = limit
  BY DEF ConnectTimeout
<1>2. /\ conns \in [Conns -> Connection(opens)] /\ opens \in Nat /\ sent \in Nat
      /\ task \in [sock : Conns \cup {0}, at : Ats, todo : Nat, owed : Nat]
      /\ task.sock \in Conns /\ Mine \in Connection(opens) /\ MSS \in Nat
  BY <1>1, TcpFacts
<1>3. conns' = [conns EXCEPT ![task.sock] = c]
  BY <1>2 DEF ConnectTimeout, Mine
<1>4. c \in Connection(opens) /\ c.state = "CLOSED"
  BY <1>2 DEF Connection, States
<1> HIDE DEF c
<1>5. ConnTrue(c)
  BY <1>4 DEF ConnTrue
<1>6. /\ task' \in [sock : Conns \cup {0}, at : Ats, todo : Nat, owed : Nat]
      /\ task'.sock = task.sock /\ task'.at = "broken" /\ task'.todo = task.todo /\ task'.owed = 0
  BY <1>1, <1>2 DEF Ats
<1>7. TaskTrue'
  BY <1>1, <1>6 DEF TcpInv, TaskTrue, Live
<1>8. Acks({}, opens) /\ out' = out \cup {}
  BY <1>1 DEF Acks
<1>9. ASSUME NEW F \in 0 .. sent, SentTrue(F) PROVE NowTrue(F)'
  BY <1>6 DEF NowTrue, InStep, Live
<1>10. task'.owed <= MSS /\ task.at # "none" /\ task'.at # "none"
  BY <1>1, <1>2, <1>6
<1> QED
  BY <1>1, <1>3, <1>4, <1>5, <1>6, <1>7, <1>8, <1>9, <1>10, QuietStep

LEMMA RecvKeeps ==
  ASSUME TcpInv, NEW n \in 1 .. RXBUF, Recv(n)
  PROVE  TcpInv'
<1> DEFINE avail == Min({n, Used(Mine)})
           c     == [Mine EXCEPT !.rx_head = Mine.rx_head + avail, !.rx_tail = Mine.rx_tail + avail]
           d     == [c EXCEPT !.rcv_wnd = Room(c)]
<1>1. /\ task.at = "connected" /\ conns' = [conns EXCEPT ![task.sock] = d]
      /\ task' = task
      /\ opens' = opens /\ sent' = sent /\ out' = out /\ in' = in /\ peer' = peer /\ limit' = limit
  BY DEF Recv
<1>2. /\ conns \in [Conns -> Connection(opens)] /\ opens \in Nat /\ sent \in Nat
      /\ task \in [sock : Conns \cup {0}, at : Ats, todo : Nat, owed : Nat]
      /\ task.sock \in Conns /\ Mine \in Connection(opens) /\ MSS \in Nat /\ RXBUF \in Nat
  BY <1>1, TcpFacts
<1>3. avail \in Nat
  <2>1. n \in Nat /\ Used(Mine) \in Nat
    BY <1>2, UsedFacts
  <2> QED
    BY <2>1, MinTwo
<1> HIDE DEF avail
<1>4. /\ c \in Connection(opens) /\ c.rx_head = Mine.rx_head + avail /\ c.rx_tail = Mine.rx_tail + avail
      /\ c.snd_nxt = Mine.snd_nxt /\ c.port = Mine.port /\ c.state = Mine.state
      /\ c.used = Mine.used /\ c.rcv_nxt = Mine.rcv_nxt
  <2>1. Mine.rx_head + avail \in Nat /\ Mine.rx_tail + avail \in Nat
    BY <1>2, <1>3 DEF Connection
  <2>2. c \in Connection(opens)
    BY <1>2, <2>1 DEF Connection
  <2>3. c.rx_head = Mine.rx_head + avail /\ c.rx_tail = Mine.rx_tail + avail
    BY <1>2 DEF Connection
  <2> QED
    BY <1>2, <2>2, <2>3 DEF Connection
<1> HIDE DEF c
<1>5. /\ d \in Connection(opens) /\ d.rx_head = c.rx_head /\ d.rx_tail = c.rx_tail
      /\ d.snd_nxt = c.snd_nxt /\ d.port = c.port /\ d.state = c.state
      /\ d.used = c.used /\ d.rcv_nxt = c.rcv_nxt
  <2>1. Room(c) \in 0 .. RXBUF + 1
    BY <1>2, <1>4, UsedFacts
  <2>2. d \in Connection(opens)
    BY <1>4, <2>1 DEF Connection
  <2> QED
    BY <1>4, <2>2 DEF Connection
<1> HIDE DEF d
<1>6. ConnTrue(d)
  <2>1. ConnTrue(Mine)
    BY <1>2 DEF Mine, TcpInv
  <2>2. Mine.rx_head \in Nat /\ Mine.rx_tail \in Nat
    BY <1>2 DEF Connection
  <2>3. d.rx_head - d.rx_tail = Mine.rx_head - Mine.rx_tail /\ (Mine.rx_head = Mine.rx_tail => d.rx_head = d.rx_tail)
    BY <1>3, <1>4, <1>5, <2>2
  <2>4. d.port = Mine.port /\ d.state = Mine.state /\ d.used = Mine.used /\ d.rcv_nxt = Mine.rcv_nxt
    BY <1>4, <1>5
  <2> QED
    BY <2>1, <2>3, <2>4 DEF ConnTrue
<1>7. Mine' = d
  BY <1>1, <1>2 DEF Mine
<1>8. /\ Mine'.port = Mine.port /\ Mine'.snd_nxt = Mine.snd_nxt /\ Mine'.state = Mine.state
  BY <1>4, <1>5, <1>7
<1>9. TaskTrue'
  BY <1>1, <1>8 DEF TcpInv, TaskTrue, Live
<1>10. Acks({}, opens) /\ out' = out \cup {}
  BY <1>1 DEF Acks
<1>11. ASSUME NEW F \in 0 .. sent, SentTrue(F) PROVE NowTrue(F)'
  <2>1. InStep' <=> InStep
    BY <1>1, <1>8 DEF InStep, Live
  <2>2. Base' = Base /\ DataOut' = DataOut
    BY <1>1 DEF Base, DataOut
  <2>3. \A s : Regular(s, F)' <=> Regular(s, F)
    BY <2>2 DEF Regular
  <2> QED
    BY <1>1, <1>8, <1>11, <2>1, <2>2, <2>3 DEF SentTrue, NowTrue
<1>12. task'.owed <= MSS /\ task.at # "none" /\ task'.at # "none" /\ task'.sock = task.sock
  BY <1>1 DEF TcpInv, TcpTypeOK
<1> QED
  BY <1>1, <1>5, <1>6, <1>9, <1>10, <1>11, <1>12, QuietStep

LEMMA CloseKeeps ==
  ASSUME TcpInv, TcpClose
  PROVE  TcpInv'
<1> DEFINE c == [Mine EXCEPT !.used = FALSE, !.state = "CLOSED"]
           fin == Carried(Mine, {"FIN", "ACK"}, <<>>)
           answer == IF Mine.used /\ Mine.state = "ESTABLISHED" THEN {fin} ELSE {}
<1>1. /\ task.at \in {"open", "connected", "broken"} /\ task' = [task EXCEPT !.sock = 0, !.at = "none"]
      /\ out' = out \cup answer
      /\ opens' = opens /\ sent' = sent /\ in' = in /\ peer' = peer /\ limit' = limit
  BY DEF TcpClose
<1>2. /\ conns \in [Conns -> Connection(opens)] /\ opens \in Nat /\ sent \in Nat
      /\ task \in [sock : Conns \cup {0}, at : Ats, todo : Nat, owed : Nat]
      /\ task.sock \in Conns /\ Mine \in Connection(opens) /\ MSS \in Nat
      /\ peer.port \in 0 .. opens
  BY <1>1, TcpFacts
<1>3. conns' = [conns EXCEPT ![task.sock] = c]
  <2>1. conns' = [[conns EXCEPT ![task.sock].used = FALSE] EXCEPT ![task.sock].state = "CLOSED"]
    BY DEF TcpClose
  <2>2. \A d \in Conns : conns'[d] = IF d = task.sock THEN c ELSE conns[d]
    BY <1>2, <2>1 DEF Mine
  <2>3. DOMAIN conns' = Conns /\ conns' = [d \in Conns |-> conns'[d]]
    BY <1>2, <2>1
  <2> HIDE DEF c
  <2> QED
    BY <1>2, <2>2, <2>3
<1>4. c \in Connection(opens) /\ c.state = "CLOSED"
  BY <1>2 DEF Connection, States
<1> HIDE DEF c
<1>5. ConnTrue(c)
  BY <1>4 DEF ConnTrue
<1>6. task' \in [sock : Conns \cup {0}, at : Ats, todo : Nat, owed : Nat]
      /\ task'.sock = 0 /\ task'.at = "none" /\ task'.todo = task.todo /\ task'.owed = task.owed
  BY <1>1, <1>2 DEF Ats
<1>7. task.owed = 0 /\ sent + task.todo <= limit.bytes
  BY <1>1, <1>2 DEF TcpInv, TaskTrue
<1>8. TaskTrue'
  BY <1>1, <1>6, <1>7 DEF TaskTrue, Live
<1>9. Mine.used /\ Mine.state = "ESTABLISHED" => Mine.port \in 1 .. opens
  <2>1. ConnTrue(Mine)
    BY <1>2 DEF TcpInv, Mine
  <2> QED
    BY <1>2, <2>1 DEF ConnTrue
<1>10. Acks(answer, Mine.port) /\ (answer # {} => Mine.port \in 1 .. opens)
  <2>1. CASE Mine.used /\ Mine.state = "ESTABLISHED"
    BY <1>2, <1>9, <2>1, CarriedAcks
  <2>2. CASE ~(Mine.used /\ Mine.state = "ESTABLISHED")
    BY <2>2 DEF Acks
  <2> QED
    BY <2>1, <2>2
<1> HIDE DEF answer
<1>11. ASSUME NEW F \in 0 .. sent, SentTrue(F) PROVE NowTrue(F)'
  BY <1>6 DEF NowTrue, InStep, Live
<1>12. task'.owed <= MSS /\ task.at # "none"
  BY <1>1, <1>2, <1>6, <1>7
<1> QED
  BY <1>1, <1>3, <1>4, <1>5, <1>6, <1>8, <1>10, <1>11, <1>12, QuietStep

(* A chunk of tcp_send: its number counts the bytes before it, or, when a  *)
(* FIN was answered in the middle of the call, one more.                   *)
LEMMA ChunkKeeps ==
  ASSUME TcpInv, SendChunk
  PROVE  TcpInv'
<1> DEFINE chunk == Min({task.todo, MSS, Mine.snd_wnd})
           data  == [i \in 1 .. chunk |-> sent + i]
           seg   == Carried(Mine, {"ACK"}, data)
<1>1. /\ task.at = "sending" /\ task.owed = 0 /\ chunk > 0
      /\ out' = out \cup {seg} /\ sent' = sent + chunk
      /\ task' = [task EXCEPT !.todo = task.todo - chunk, !.owed = SeqSpace({}, data)]
      /\ conns' = conns /\ opens' = opens /\ in' = in /\ peer' = peer /\ limit' = limit
  BY DEF SendChunk
<1>2. /\ conns \in [Conns -> Connection(opens)] /\ opens \in Nat /\ sent \in Nat
      /\ task \in [sock : Conns \cup {0}, at : Ats, todo : Nat, owed : Nat]
      /\ task.sock \in Conns /\ Mine \in Connection(opens) /\ MSS \in Nat
      /\ out \subseteq Segment /\ limit.bytes \in Nat /\ opens <= limit.opens
  BY <1>1, TcpFacts
<1>3. Mine.snd_nxt \in Nat /\ Mine.snd_wnd \in Nat /\ task.todo \in Nat /\ Base \in Nat
  BY <1>2 DEF Connection, Base, Isn
<1>4. chunk \in Nat /\ chunk <= task.todo /\ chunk <= MSS /\ chunk > 0
  BY <1>1, <1>2, <1>3, MinThree
<1> HIDE DEF chunk
<1>5. data \in Seq(Nat) /\ Len(data) = chunk /\ data # <<>> /\ \A i \in 1 .. chunk : data[i] = sent + i
  <2>1. \A i \in 1 .. chunk : sent + i \in Nat
    BY <1>2, <1>4
  <2>2. data \in [1 .. chunk -> Nat] /\ data \in Seq(Nat)
    BY <1>4, <2>1
  <2>3. Len(data) = chunk
    BY <1>4, <2>2
  <2>4. \A i \in 1 .. chunk : data[i] = sent + i
    OBVIOUS
  <2>5. data # <<>>
    BY <1>4, <2>3
  <2> HIDE DEF data
  <2> QED
    BY <2>2, <2>3, <2>4, <2>5
<1> HIDE DEF data
<1>6. SeqSpace({}, data) = chunk
  BY <1>5, SpaceFacts
<1>7. Live /\ Mine.port = opens /\ opens > 0 /\ sent + task.todo <= limit.bytes
  BY <1>1 DEF TcpInv, TaskTrue, Live
<1>8. /\ seg \in Segment /\ seg.port = opens /\ seg.data = data /\ seg.flags = {"ACK"}
      /\ seg.seq = Mine.snd_nxt
  <2>1. {"ACK"} \in SUBSET {"SYN", "ACK", "FIN"}
    OBVIOUS
  <2> QED
    BY <1>2, <1>5, <1>7, <2>1, CarriedFacts
<1> HIDE DEF seg
<1>9. /\ task' \in [sock : Conns \cup {0}, at : Ats, todo : Nat, owed : Nat]
      /\ task'.sock = task.sock /\ task'.at = "sending" /\ task'.todo = task.todo - chunk
      /\ task'.owed = chunk
  <2>1. task.todo - chunk \in Nat
    BY <1>3, <1>4
  <2> QED
    BY <1>1, <1>2, <1>4, <1>6, <2>1
<1>10. Mine' = Mine
  BY <1>1, <1>9 DEF Mine
<1>11. sent' \in Nat /\ sent' + task'.todo <= limit.bytes /\ sent' <= limit.bytes /\ sent <= sent'
  BY <1>1, <1>2, <1>3, <1>4, <1>7, <1>9
<1>12. TaskTrue'
  BY <1>1, <1>7, <1>9, <1>10, <1>11 DEF TaskTrue, Live
<1>13. OutTrue'
  <2>1. opens \in 1 .. opens /\ "SYN" \notin seg.flags
    BY <1>2, <1>7, <1>8
  <2> QED
    BY <1>1, <1>8, <2>1 DEF TcpInv, OutTrue
<1>14. DataOut' = DataOut \cup {seg}
  BY <1>1, <1>5, <1>8 DEF DataOut
<1>15. InStep' <=> InStep
  BY <1>1, <1>9, <1>10 DEF InStep, Live
<1>16. Base' = Base
  BY <1>1 DEF Base
<1>17. \A s \in DataOut : s.seq \in Nat /\ Len(s.data) \in Nat
  BY <1>2 DEF DataOut, Segment
<1>18. ASSUME NEW F \in 0 .. sent, SentTrue(F) PROVE \E G \in 0 .. sent' : SentTrue(G)'
  <2>1. \A s \in DataOut : Regular(s, F) \/ s.seq > Base + F
    BY <1>18 DEF SentTrue, DataTrue
  <2>2. peer.port = opens => Len(peer.got) <= F /\ \A i \in 1 .. Len(peer.got) : peer.got[i] = i
    BY <1>18 DEF SentTrue, GotTrue
  <2>3. F \in Nat
    BY <1>2
  <2>4. CASE InStep
    <3>0. PICK G \in 0 .. sent' : G = sent + chunk
      BY <1>1, <1>2, <1>4
    <3>1. F = sent /\ Mine.snd_nxt = Base + sent /\ \A s \in DataOut : Regular(s, F)
      <4>1. F = sent /\ Mine.snd_nxt + task.owed = Base + sent /\ \A s \in DataOut : Regular(s, F)
        BY <1>18, <2>4 DEF SentTrue, NowTrue
      <4> QED
        BY <1>1, <1>3, <4>1
    <3>2. G \in Nat /\ F <= G /\ G \in 0 .. sent' /\ G = sent'
      BY <1>1, <1>2, <1>4, <3>0, <3>1
    <3>3. ASSUME NEW s \in DataOut PROVE Regular(s, G)
      <4>1. s.seq \in Nat /\ Len(s.data) \in Nat /\ Regular(s, F)
        BY <1>17, <3>1
      <4>2. s.seq - Base + Len(s.data) <= G
        BY <1>3, <2>3, <3>2, <4>1 DEF Regular
      <4> QED
        BY <4>1, <4>2 DEF Regular
    <3>4. Regular(seg, G)
      <4>1. seg.seq = Base + sent /\ Len(seg.data) = chunk
        BY <1>5, <1>8, <3>1
      <4>2. seg.seq >= Base /\ seg.seq - Base + Len(seg.data) <= G /\ seg.seq - Base = sent
        BY <1>2, <1>3, <1>4, <3>0, <4>1
      <4>3. \A i \in 1 .. Len(seg.data) : seg.data[i] = seg.seq - Base + i
        BY <1>5, <1>8, <4>1, <4>2
      <4> QED
        BY <4>2, <4>3 DEF Regular
    <3>5. \A s \in DataOut' : Regular(s, G)'
      BY <1>14, <1>16, <3>3, <3>4 DEF Regular
    <3>6. GotTrue(G)'
      <4>1. peer.port = opens => Len(peer.got) <= G
        <5>1. Len(peer.got) \in Nat
          BY DEF TcpInv, PeerTrue
        <5> QED
          BY <2>2, <2>3, <3>2, <5>1
      <4> QED
        BY <1>1, <2>2, <4>1 DEF GotTrue
    <3>7. NowTrue(G)'
      <4>0. G = sent'
        BY <1>1, <3>0
      <4>1. Mine'.snd_nxt + task'.owed = Base' + sent'
        BY <1>1, <1>2, <1>3, <1>4, <1>9, <1>10, <1>16, <3>1
      <4>2. InStep'
        BY <1>15, <2>4
      <4> QED
        BY <3>5, <4>0, <4>1, <4>2 DEF NowTrue
    <3> QED
      BY <3>2, <3>5, <3>6, <3>7 DEF SentTrue, DataTrue
  <2>5. CASE ~InStep
    <3>1. Mine.snd_nxt > Base + F
      <4>1. Mine.snd_nxt + task.owed > Base + F
        BY <1>1, <1>18, <2>5 DEF SentTrue, NowTrue
      <4> QED
        BY <1>1, <1>3, <4>1
    <3>2. DataTrue(F)'
      BY <1>8, <1>14, <1>16, <2>1, <3>1 DEF DataTrue, Regular
    <3>3. GotTrue(F)'
      BY <1>1, <2>2 DEF GotTrue
    <3>4. Mine'.snd_nxt + task'.owed > Base' + F
      BY <1>3, <1>4, <1>9, <1>10, <1>16, <2>3, <3>1
    <3>5. NowTrue(F)'
      BY <1>15, <2>5, <3>4 DEF NowTrue
    <3>6. F \in 0 .. sent'
      BY <1>2, <1>11
    <3> QED
      BY <3>2, <3>3, <3>5, <3>6 DEF SentTrue
  <2> QED
    BY <2>4, <2>5
<1>19. \E F \in 0 .. sent' : SentTrue(F)'
  BY <1>18 DEF TcpInv
<1>20. \A c \in Conns : ConnTrue(conns'[c])
  BY <1>1 DEF TcpInv
<1>21. out' \subseteq Segment /\ task'.owed <= MSS /\ task'.at # "none" /\ task'.sock \in Conns
       /\ opens' \in Nat /\ opens <= opens' /\ opens' <= limit.opens /\ conns' \in [Conns -> Connection(opens')]
  BY <1>1, <1>2, <1>4, <1>8, <1>9
<1> QED
  BY <1>1, <1>11, <1>12, <1>13, <1>19, <1>20, <1>21, OwnStep

-----------------------------------------------------------------------------
(* What a step of the peer has to show: it opens a new connection, or goes *)
(* on with the one it has, and sends at most one segment of it.            *)
LEMMA PeerStep ==
  ASSUME TcpInv, UNCHANGED <<conns, task, opens, sent, out, limit>>, PeerTrue', peer'.port \in 1 .. opens,
         \/ peer'.port > peer.port
         \/ /\ peer'.port = peer.port /\ peer'.base = peer.base /\ DataEnd' >= DataEnd
            /\ peer'.snd >= peer.snd /\ (peer.fin => peer'.fin),
         NEW a \in Segment, a.port = peer'.port, "SYN" \in a.flags => a.seq = PeerIsn(a.port),
         a.data # <<>> => a.seq + Len(a.data) <= DataEnd', "FIN" \in a.flags => peer'.fin,
         in' = in \cup {a},
         \A F \in 0 .. sent : SentTrue(F) => GotTrue(F)'
  PROVE  TcpInv'
<1>1. /\ conns' = conns /\ task' = task /\ opens' = opens /\ sent' = sent /\ out' = out /\ limit' = limit
  OBVIOUS
<1>2. /\ conns \in [Conns -> Connection(opens)] /\ opens \in Nat /\ sent \in Nat /\ in \subseteq Segment
      /\ peer.port \in 0 .. opens
  BY TcpFacts
<1>3. peer.port \in Nat /\ peer'.port \in Nat /\ peer.port <= peer'.port
  BY <1>2
<1>4. peer.snd \in Nat /\ peer'.snd \in Nat /\ DataEnd \in Int /\ DataEnd' \in Int
  BY DEF TcpInv, PeerTrue, DataEnd
<1>5. TcpTypeOK'
  <2>1. in' \subseteq Segment /\ peer'.port \in 0 .. opens
    BY <1>2
  <2>2. out \cup in' \subseteq Segment
    BY <2>1 DEF TcpInv, TcpTypeOK
  <2> QED
    BY <1>1, <2>1, <2>2 DEF TcpInv, TcpTypeOK
<1>6. TaskTrue' /\ OutTrue'
  BY <1>1 DEF TcpInv, TaskTrue, OutTrue, Live, Mine
<1>7. InTrue'
  <2>1. ASSUME NEW s \in in
        PROVE  /\ s.port \in 1 .. peer'.port
               /\ "SYN" \in s.flags => s.seq = PeerIsn(s.port)
               /\ s.port = peer'.port => /\ s.data # <<>> => s.seq + Len(s.data) <= DataEnd'
                                         /\ "FIN" \in s.flags => peer'.fin
    <3>1. /\ s.port \in 1 .. peer.port
          /\ "SYN" \in s.flags => s.seq = PeerIsn(s.port)
          /\ s.port = peer.port => /\ s.data # <<>> => s.seq + Len(s.data) <= DataEnd
                                   /\ "FIN" \in s.flags => peer.fin
      BY DEF TcpInv, InTrue
    <3>2. s.seq \in Nat /\ Len(s.data) \in Nat
      BY <1>2 DEF Segment
    <3>3. s.port \in 1 .. peer'.port
      BY <1>3, <3>1
    <3>4. CASE peer'.port > peer.port
      BY <1>3, <3>1, <3>3, <3>4
    <3>5. CASE peer'.port = peer.port /\ DataEnd' >= DataEnd /\ (peer.fin => peer'.fin)
      BY <1>4, <3>1, <3>2, <3>3, <3>5
    <3> QED
      BY <3>4, <3>5
  <2>2. a.port \in 1 .. peer'.port
    BY <1>3
  <2> QED
    BY <2>1, <2>2 DEF InTrue
<1>8. ASSUME NEW d \in Conns PROVE ConnTrue(conns[d])'
  <2> DEFINE c == conns[d]
  <2>1. ConnTrue(c)
    BY DEF TcpInv
  <2>2. conns'[d] = c /\ c.port \in Nat /\ c.rcv_nxt \in Nat
    BY <1>1, <1>2 DEF Connection
  <2> HIDE DEF c
  <2>3. c.used /\ c.state \in {"ESTABLISHED", "LAST_ACK"} => c.port \in 1 .. peer'.port
    BY <1>3, <2>1, <2>2 DEF ConnTrue
  <2>4. CASE peer'.port > peer.port
    <3>1. c.used /\ c.state \in {"ESTABLISHED", "LAST_ACK"} => c.port # peer'.port
      BY <1>3, <2>1, <2>2, <2>4 DEF ConnTrue
    <3> QED
      BY <2>1, <2>2, <2>3, <3>1 DEF ConnTrue
  <2>5. CASE /\ peer'.port = peer.port /\ peer'.base = peer.base /\ DataEnd' >= DataEnd
             /\ peer'.snd >= peer.snd
    <3>1. c.rcv_nxt <= DataEnd => c.rcv_nxt <= DataEnd'
      BY <1>4, <2>2, <2>5
    <3>2. c.rcv_nxt <= peer.snd => c.rcv_nxt <= peer'.snd
      BY <1>4, <2>2, <2>5
    <3> QED
      BY <2>1, <2>2, <2>3, <2>5, <3>1, <3>2 DEF ConnTrue
  <2> QED
    BY <2>4, <2>5
<1>9. \E F \in 0 .. sent' : SentTrue(F)'
  <2>1. ASSUME NEW F \in 0 .. sent, SentTrue(F) PROVE SentTrue(F)'
    <3>1. Base' = Base /\ DataOut' = DataOut /\ Mine' = Mine /\ (InStep' <=> InStep)
      BY <1>1 DEF Base, DataOut, Mine, InStep, Live
    <3>2. \A s : Regular(s, F)' <=> Regular(s, F)
      BY <3>1 DEF Regular
    <3>3. DataTrue(F)' /\ NowTrue(F)'
      BY <1>1, <2>1, <3>1, <3>2 DEF SentTrue, DataTrue, NowTrue
    <3> QED
      BY <2>1, <3>3 DEF SentTrue
  <2> QED
    BY <1>1, <2>1 DEF TcpInv
<1> QED
  BY <1>5, <1>6, <1>7, <1>8, <1>9 DEF TcpInv

(* The segments of the peer.                                               *)
LEMMA AnswerFacts ==
  ASSUME NEW p \in [port : Nat, next : Nat, got : Seq(Nat), snd : Nat, base : Nat, fin : BOOLEAN],
         NEW flags \in SUBSET {"SYN", "ACK", "FIN"}, NEW w \in Nat
  PROVE  /\ Answer(flags, p, w) \in Segment /\ Answer(flags, p, w).port = p.port
         /\ Answer(flags, p, w).seq = p.snd /\ Answer(flags, p, w).flags = flags
         /\ Answer(flags, p, w).data = <<>>
<1> QED
  BY DEF Answer, Segment

LEMMA AcceptKeeps ==
  ASSUME TcpInv, NEW s \in out, NEW w \in Windows, PeerAccept(s, w)
  PROVE  TcpInv'
<1> DEFINE p == [port |-> s.port, next |-> s.seq + 1, got |-> <<>>, snd |-> PeerIsn(s.port),
                 base |-> PeerIsn(s.port) + 1, fin |-> FALSE]
           a == Answer({"SYN", "ACK"}, p, w)
<1>1. /\ s.flags = {"SYN"} /\ s.port > peer.port /\ in' = in \cup {a}
      /\ peer' = [p EXCEPT !.snd = p.snd + 1]
      /\ UNCHANGED <<conns, task, opens, sent, out, limit>>
  BY DEF PeerAccept
<1>2. s.port \in 1 .. opens /\ s.seq = Isn(s.port)
  BY <1>1 DEF TcpInv, OutTrue
<1>3. opens \in Nat /\ peer.port \in 0 .. opens /\ w \in Nat /\ s.port \in Nat
  <2>1. opens \in Nat /\ peer.port \in 0 .. opens
    BY TcpFacts
  <2> QED
    BY <1>2, <2>1, TcpAssumption
<1>4. PeerIsn(s.port) \in Nat /\ Isn(s.port) \in Nat /\ s.seq + 1 \in Nat
  BY <1>2, <1>3 DEF PeerIsn, Isn
<1>5. p \in [port : Nat, next : Nat, got : Seq(Nat), snd : Nat, base : Nat, fin : BOOLEAN]
  BY <1>3, <1>4
<1>6. p.port = s.port /\ p.next = Isn(s.port) + 1 /\ p.got = <<>> /\ p.snd = PeerIsn(s.port)
      /\ p.base = PeerIsn(s.port) + 1 /\ p.fin = FALSE
  BY <1>2
<1> HIDE DEF p
<1>7. /\ peer' \in [port : Nat, next : Nat, got : Seq(Nat), snd : Nat, base : Nat, fin : BOOLEAN]
      /\ peer'.port = s.port /\ peer'.next = Isn(s.port) + 1 /\ peer'.got = <<>>
      /\ peer'.snd = PeerIsn(s.port) + 1 /\ peer'.base = PeerIsn(s.port) + 1 /\ peer'.fin = FALSE
  <2>1. p.snd + 1 \in Nat
    BY <1>4, <1>6
  <2> QED
    BY <1>1, <1>5, <1>6, <2>1
<1>8. DataEnd' = peer'.base
  BY <1>7 DEF DataEnd
<1>9. PeerTrue'
  <2>1. Len(peer'.got) = 0
    BY <1>7
  <2> QED
    BY <1>4, <1>7, <1>8, <2>1 DEF PeerTrue
<1>10. /\ a \in Segment /\ a.port = s.port /\ a.seq = PeerIsn(s.port) /\ a.flags = {"SYN", "ACK"}
       /\ a.data = <<>>
  <2>1. {"SYN", "ACK"} \in SUBSET {"SYN", "ACK", "FIN"}
    OBVIOUS
  <2> QED
    BY <1>3, <1>5, <1>6, <2>1, AnswerFacts
<1> HIDE DEF a
<1>11. ASSUME NEW F \in 0 .. sent PROVE GotTrue(F)'
  <2>1. Len(peer'.got) = 0 /\ F >= 0
    BY <1>7, TcpFacts
  <2> QED
    BY <2>1 DEF GotTrue
<1>12. "FIN" \notin a.flags
  BY <1>10
<1> QED
  BY <1>1, <1>2, <1>7, <1>9, <1>10, <1>11, <1>12, PeerStep

LEMMA TakeKeeps ==
  ASSUME TcpInv, NEW s \in out, NEW w \in Windows, PeerTake(s, w)
  PROVE  TcpInv'
<1> DEFINE a == Answer({"ACK"}, peer', w)
<1>1. /\ s.port = peer.port /\ s.data # <<>> /\ s.seq = peer.next
      /\ peer' = [peer EXCEPT !.got = peer.got \o s.data, !.next = peer.next + Len(s.data)]
      /\ in' = in \cup {a}
      /\ UNCHANGED <<conns, task, opens, sent, out, limit>>
  BY DEF PeerTake
<1>2. /\ peer \in [port : Nat, next : Nat, got : Seq(Nat), snd : Nat, base : Nat, fin : BOOLEAN]
      /\ s.port \in 1 .. opens /\ opens \in Nat /\ peer.port > 0 /\ s.data \in Seq(Nat) /\ w \in Nat
      /\ sent \in Nat /\ s.seq \in Nat
  <2>1. s.port \in 1 .. opens /\ s \in Segment /\ opens \in Nat /\ sent \in Nat
    BY TcpFacts DEF TcpInv, OutTrue
  <2> QED
    BY <1>1, <2>1, TcpAssumption DEF TcpInv, PeerTrue, Segment
<1>3. /\ DataEnd >= peer.base /\ peer.next = Isn(peer.port) + 1 + Len(peer.got)
      /\ peer.base = PeerIsn(peer.port) + 1
  BY <1>2 DEF TcpInv, PeerTrue
<1>4. /\ peer.got \o s.data \in Seq(Nat) /\ Len(peer.got \o s.data) = Len(peer.got) + Len(s.data)
      /\ Len(peer.got) \in Nat /\ Len(s.data) \in Nat /\ peer.next + Len(s.data) \in Nat
  BY <1>2
<1>11. Len(peer.got) \in Nat /\ Len(s.data) \in Nat
  BY <1>4
<1>5. /\ peer' \in [port : Nat, next : Nat, got : Seq(Nat), snd : Nat, base : Nat, fin : BOOLEAN]
      /\ peer'.port = peer.port /\ peer'.next = peer.next + Len(s.data)
      /\ peer'.got = peer.got \o s.data
      /\ peer'.snd = peer.snd /\ peer'.base = peer.base /\ peer'.fin = peer.fin
  BY <1>1, <1>2, <1>4
<1>6. DataEnd' = DataEnd /\ DataEnd \in Int
  BY <1>2, <1>5 DEF DataEnd
<1>7. PeerTrue'
  <2>1. Isn(peer.port) \in Nat /\ Isn(peer'.port) = Isn(peer.port)
    BY <1>2, <1>5 DEF Isn
  <2>2. peer'.next = Isn(peer'.port) + 1 + Len(peer'.got)
    <3> DEFINE g == Len(peer.got)
               m == Len(s.data)
               b == Isn(peer.port)
               l == Len(peer'.got)
    <3>1. l = g + m
      BY <1>4, <1>5
    <3>2. peer'.next = b + 1 + g + m /\ Isn(peer'.port) = b
      BY <1>3, <1>5, <2>1
    <3>3. g \in Int /\ m \in Int /\ b \in Int
      BY <1>11, <2>1
    <3>4. ASSUME NEW x, x = b + 1 + g + m PROVE x = b + 1 + l
      <4> HIDE DEF g, m, b, l
      <4> QED
        BY <3>1, <3>3, <3>4
    <3> QED
      BY <3>2, <3>4
  <2> QED
    BY <1>3, <1>5, <1>6, <2>2 DEF PeerTrue
<1>8. a \in Segment /\ a.port = peer'.port /\ a.flags = {"ACK"} /\ a.data = <<>>
  <2>1. {"ACK"} \in SUBSET {"SYN", "ACK", "FIN"}
    OBVIOUS
  <2>2. w \in Nat /\ peer' \in [port : Nat, next : Nat, got : Seq(Nat), snd : Nat, base : Nat, fin : BOOLEAN]
    BY <1>2, <1>5
  <2>3. PICK q : q = peer'
    OBVIOUS
  <2>4. /\ Answer({"ACK"}, q, w) \in Segment /\ Answer({"ACK"}, q, w).port = q.port
        /\ Answer({"ACK"}, q, w).flags = {"ACK"} /\ Answer({"ACK"}, q, w).data = <<>>
    BY <2>1, <2>2, <2>3, AnswerFacts
  <2> QED
    BY <2>3, <2>4
<1> HIDE DEF a
<1>9. ASSUME NEW F \in 0 .. sent, SentTrue(F) PROVE GotTrue(F)'
  <2> SUFFICES ASSUME peer.port = opens
               PROVE  /\ Len(peer'.got) <= F
                      /\ \A i \in 1 .. Len(peer'.got) : peer'.got[i] = i
    BY <1>1, <1>5 DEF GotTrue
  <2>1. Len(peer.got) <= F /\ \A i \in 1 .. Len(peer.got) : peer.got[i] = i
    BY <1>9 DEF SentTrue, GotTrue
  <2>2. s.seq = Base + Len(peer.got) /\ Base \in Nat /\ F \in Nat
    BY <1>1, <1>2, <1>3 DEF Base, Isn
  <2>3. Regular(s, F)
    <3>1. s \in DataOut
      BY <1>1 DEF DataOut
    <3>2. ~(s.seq > Base + F)
      BY <1>4, <2>1, <2>2
    <3> QED
      BY <1>9, <3>1, <3>2 DEF SentTrue, DataTrue
  <2>4. Len(peer'.got) <= F
    <3>1. s.seq - Base = Len(peer.got)
      BY <1>4, <2>2
    <3>2. Len(peer.got) + Len(s.data) <= F
      BY <2>3, <3>1 DEF Regular
    <3> QED
      BY <1>4, <1>5, <3>2
  <2>5. ASSUME NEW i \in 1 .. Len(peer'.got) PROVE peer'.got[i] = i
    <3>1. i \in 1 .. Len(peer.got) + Len(s.data)
      BY <1>4, <1>5
    <3>2. peer'.got[i] = IF i <= Len(peer.got) THEN peer.got[i] ELSE s.data[i - Len(peer.got)]
      BY <1>2, <1>5, <3>1
    <3>3. CASE i <= Len(peer.got)
      <4>1. i \in 1 .. Len(peer.got)
        BY <1>4, <3>1, <3>3
      <4> QED
        BY <2>1, <3>2, <3>3, <4>1
    <3>4. CASE i > Len(peer.got)
      <4> DEFINE n == Len(peer.got)
                 m == Len(s.data)
      <4>0. n \in Nat /\ m \in Nat
        BY <1>11
      <4>1. i \in Int /\ i <= n + m /\ n \in Int /\ m \in Int /\ i > n
        <5>1. i \in 1 .. n + m /\ i > n
          BY <3>1, <3>4, Zenon
        <5> HIDE DEF n, m
        <5> QED
          BY <4>0, <5>1
      <4>2. s.seq = Base + n /\ Base \in Int
        BY <2>2
      <4>3. ~(i <= n) /\ peer'.got[i] = s.data[i - n]
        BY <3>2, <4>1
      <4> HIDE DEF n, m
      <4>4. i - n \in 1 .. m
        BY <4>1
      <4>5. s.data[i - n] = s.seq - Base + (i - n)
        BY <2>3, <4>4 DEF Regular, m
      <4>6. s.seq - Base + (i - n) = i
        BY <4>1, <4>2
      <4> QED
        BY <4>3, <4>5, <4>6
    <3> QED
      BY <1>4, <3>1, <3>3, <3>4
  <2> QED
    BY <2>4, <2>5
<1>10. /\ peer'.port \in 1 .. opens /\ DataEnd' >= DataEnd /\ peer'.snd >= peer.snd
       /\ "SYN" \notin a.flags /\ "FIN" \notin a.flags
  BY <1>1, <1>2, <1>5, <1>6, <1>8, SMTT(40)
<1> QED
  BY <1>1, <1>5, <1>7, <1>8, <1>9, <1>10, PeerStep

LEMMA DataKeeps ==
  ASSUME TcpInv, NEW n \in 1 .. MSS, PeerSend(n)
  PROVE  TcpInv'
<1> DEFINE d == [i \in 1 .. n |-> peer.snd - peer.base + i]
           e == Answer({"ACK"}, peer, 0)
           a == [e EXCEPT !.data = d]
<1>1. /\ peer.port > 0 /\ ~peer.fin /\ in' = in \cup {a} /\ peer' = [peer EXCEPT !.snd = peer.snd + n]
      /\ UNCHANGED <<conns, task, opens, sent, out, limit>>
  BY DEF PeerSend
<1>2. /\ peer \in [port : Nat, next : Nat, got : Seq(Nat), snd : Nat, base : Nat, fin : BOOLEAN]
      /\ opens \in Nat /\ peer.port \in 0 .. opens /\ n \in Nat /\ 0 \in Nat
      /\ DataEnd >= peer.base /\ peer.next = Isn(peer.port) + 1 + Len(peer.got)
      /\ peer.base = PeerIsn(peer.port) + 1
  BY <1>1, TcpFacts DEF TcpInv, PeerTrue
<1>3. /\ peer' \in [port : Nat, next : Nat, got : Seq(Nat), snd : Nat, base : Nat, fin : BOOLEAN]
      /\ peer'.port = peer.port /\ peer'.next = peer.next /\ peer'.got = peer.got
      /\ peer'.snd = peer.snd + n /\ peer'.base = peer.base /\ peer'.fin = peer.fin
  BY <1>1, <1>2, SMTT(30)
<1>4. DataEnd' = peer.snd + n /\ DataEnd = peer.snd /\ peer.snd \in Nat /\ peer.base \in Nat
  BY <1>1, <1>2, <1>3 DEF DataEnd
<1>5. DataEnd' >= DataEnd /\ peer'.snd >= peer.snd /\ DataEnd' >= peer'.base
  BY <1>2, <1>3, <1>4
<1>6. PeerTrue'
  BY <1>2, <1>3, <1>5 DEF PeerTrue
<1>7. d \in Seq(Nat) /\ Len(d) = n
  <2>1. peer.snd - peer.base \in Nat
    BY <1>2, <1>4
  <2>2. \A i \in 1 .. n : peer.snd - peer.base + i \in Nat
    BY <1>2, <2>1
  <2>3. d \in [1 .. n -> Nat]
    BY <2>2
  <2> QED
    BY <1>2, <2>3
<1> HIDE DEF d
<1>8. e \in Segment /\ e.port = peer.port /\ e.seq = peer.snd /\ e.flags = {"ACK"}
  <2>1. {"ACK"} \in SUBSET {"SYN", "ACK", "FIN"}
    OBVIOUS
  <2>2. 0 \in Nat /\ peer \in [port : Nat, next : Nat, got : Seq(Nat), snd : Nat, base : Nat, fin : BOOLEAN]
    BY <1>2
  <2> QED
    BY <2>1, <2>2, AnswerFacts
<1> HIDE DEF e
<1>9. a \in Segment /\ a.port = peer.port /\ a.seq = peer.snd /\ a.flags = {"ACK"} /\ a.data = d
  BY <1>7, <1>8 DEF Segment
<1> HIDE DEF a
<1>10. ASSUME NEW F \in 0 .. sent, SentTrue(F) PROVE GotTrue(F)'
  BY <1>1, <1>3, <1>10 DEF SentTrue, GotTrue
<1>11. /\ peer'.port \in 1 .. opens /\ "SYN" \notin a.flags /\ "FIN" \notin a.flags
       /\ a.seq + Len(a.data) <= DataEnd'
  BY <1>1, <1>2, <1>3, <1>4, <1>7, <1>9
<1> QED
  BY <1>1, <1>3, <1>5, <1>6, <1>9, <1>10, <1>11, PeerStep

LEMMA FinKeeps ==
  ASSUME TcpInv, PeerFin
  PROVE  TcpInv'
<1> DEFINE a == Answer({"FIN", "ACK"}, peer, 1)
<1>1. /\ peer.port > 0 /\ ~peer.fin /\ in' = in \cup {a}
      /\ peer' = [peer EXCEPT !.snd = peer.snd + 1, !.fin = TRUE]
      /\ UNCHANGED <<conns, task, opens, sent, out, limit>>
  BY DEF PeerFin
<1>2. /\ peer \in [port : Nat, next : Nat, got : Seq(Nat), snd : Nat, base : Nat, fin : BOOLEAN]
      /\ opens \in Nat /\ peer.port \in 0 .. opens /\ 1 \in Nat
      /\ DataEnd >= peer.base /\ peer.next = Isn(peer.port) + 1 + Len(peer.got)
      /\ peer.base = PeerIsn(peer.port) + 1
  BY <1>1, TcpFacts DEF TcpInv, PeerTrue
<1>3. /\ peer' \in [port : Nat, next : Nat, got : Seq(Nat), snd : Nat, base : Nat, fin : BOOLEAN]
      /\ peer'.port = peer.port /\ peer'.next = peer.next /\ peer'.got = peer.got
      /\ peer'.snd = peer.snd + 1 /\ peer'.base = peer.base /\ peer'.fin = TRUE
  <2>1. peer.snd + 1 \in Nat
    BY <1>2
  <2>2. peer'.snd = peer.snd + 1 /\ peer'.fin = TRUE
    BY <1>1, <1>2
  <2>3. peer'.port = peer.port /\ peer'.next = peer.next /\ peer'.got = peer.got /\ peer'.base = peer.base
    BY <1>1, <1>2
  <2>4. peer' \in [port : Nat, next : Nat, got : Seq(Nat), snd : Nat, base : Nat, fin : BOOLEAN]
    BY <1>1, <1>2, <2>1
  <2> QED
    BY <2>2, <2>3, <2>4
<1>4. DataEnd' = peer.snd /\ DataEnd = peer.snd /\ peer.snd \in Nat
  BY <1>1, <1>2, <1>3 DEF DataEnd
<1>5. DataEnd' >= DataEnd /\ peer'.snd >= peer.snd /\ DataEnd' >= peer'.base
  BY <1>2, <1>3, <1>4
<1>6. PeerTrue'
  BY <1>2, <1>3, <1>5 DEF PeerTrue
<1>7. a \in Segment /\ a.port = peer.port /\ a.flags = {"FIN", "ACK"} /\ a.data = <<>>
  <2>1. {"FIN", "ACK"} \in SUBSET {"SYN", "ACK", "FIN"}
    OBVIOUS
  <2>2. 1 \in Nat /\ peer \in [port : Nat, next : Nat, got : Seq(Nat), snd : Nat, base : Nat, fin : BOOLEAN]
    BY <1>2
  <2> QED
    BY <2>1, <2>2, AnswerFacts
<1> HIDE DEF a
<1>8. ASSUME NEW F \in 0 .. sent, SentTrue(F) PROVE GotTrue(F)'
  BY <1>1, <1>3, <1>8 DEF SentTrue, GotTrue
<1>9. peer'.port \in 1 .. opens /\ "SYN" \notin a.flags
  BY <1>1, <1>2, <1>3, <1>7
<1> QED
  BY <1>1, <1>3, <1>5, <1>6, <1>7, <1>8, <1>9, PeerStep

LEMMA AckFinKeeps ==
  ASSUME TcpInv, NEW s \in out, PeerAckFin(s)
  PROVE  TcpInv'
<1> DEFINE e == Answer({"ACK"}, peer, 1)
           a == [e EXCEPT !.ack = e.ack + 1]
<1>1. /\ s.port = peer.port /\ peer' = peer /\ in' = in \cup {a}
      /\ UNCHANGED <<conns, task, opens, sent, out, limit>>
  BY DEF PeerAckFin
<1>2. /\ peer \in [port : Nat, next : Nat, got : Seq(Nat), snd : Nat, base : Nat, fin : BOOLEAN]
      /\ peer.port \in 1 .. opens /\ PeerTrue /\ 1 \in Nat
  BY <1>1 DEF TcpInv, PeerTrue, OutTrue
<1>3. PeerTrue' /\ DataEnd' = DataEnd /\ DataEnd \in Int /\ peer.snd \in Nat
  BY <1>1, <1>2 DEF PeerTrue, DataEnd
<1>4. e \in Segment /\ e.port = peer.port /\ e.flags = {"ACK"} /\ e.data = <<>>
  <2>1. {"ACK"} \in SUBSET {"SYN", "ACK", "FIN"}
    OBVIOUS
  <2>2. 1 \in Nat /\ peer \in [port : Nat, next : Nat, got : Seq(Nat), snd : Nat, base : Nat, fin : BOOLEAN]
    BY <1>2
  <2> QED
    BY <2>1, <2>2, AnswerFacts
<1> HIDE DEF e
<1>5. a \in Segment /\ a.port = peer.port /\ a.flags = {"ACK"} /\ a.data = <<>>
  <2>1. e.ack + 1 \in Nat
    BY <1>4 DEF Segment
  <2> QED
    BY <1>4, <2>1 DEF Segment
<1> HIDE DEF a
<1>6. ASSUME NEW F \in 0 .. sent, SentTrue(F) PROVE GotTrue(F)'
  BY <1>1, <1>6 DEF SentTrue, GotTrue
<1>7. DataEnd' >= DataEnd /\ peer'.snd >= peer.snd /\ "SYN" \notin a.flags /\ "FIN" \notin a.flags
  BY <1>1, <1>3, <1>5
<1> QED
  BY <1>1, <1>2, <1>3, <1>5, <1>6, <1>7, PeerStep

LEMMA TcpUnchanged ==
  ASSUME TcpInv, UNCHANGED tcpVars
  PROVE  TcpInv'
<1>1. /\ conns' = conns /\ task' = task /\ opens' = opens /\ sent' = sent /\ out' = out
      /\ in' = in /\ peer' = peer /\ limit' = limit
  BY DEF tcpVars
<1>2. TcpTypeOK' /\ TaskTrue' /\ PeerTrue' /\ OutTrue' /\ InTrue'
  BY <1>1 DEF TcpInv, TcpTypeOK, TaskTrue, PeerTrue, OutTrue, InTrue, Live, Mine, DataEnd
<1>3. \A c \in Conns : ConnTrue(conns[c])'
  BY <1>1 DEF TcpInv, ConnTrue, DataEnd
<1>4. ASSUME NEW F \in 0 .. sent, SentTrue(F) PROVE SentTrue(F)'
  <2>1. Base' = Base /\ DataOut' = DataOut /\ Mine' = Mine /\ (InStep' <=> InStep)
    BY <1>1 DEF Base, DataOut, Mine, InStep, Live
  <2>2. \A s : Regular(s, F)' <=> Regular(s, F)
    BY <2>1 DEF Regular
  <2>3. NowTrue(F)'
    BY <1>1, <1>4, <2>1, <2>2 DEF SentTrue, NowTrue
  <2> QED
    BY <1>1, <1>4, <2>1, <2>3, SentKeeps
<1> QED
  BY <1>1, <1>2, <1>3, <1>4 DEF TcpInv

LEMMA TcpStep ==
  ASSUME TcpInv, TcpNext \/ UNCHANGED tcpVars
  PROVE  TcpInv'
<1>1. CASE TcpTask
  <2>1. CASE Connected \/ (\E n \in 1 .. limit.bytes : SendCall(n)) \/ SendReturns
    BY <2>1, CallKeeps
  <2>2. CASE \E n \in 1 .. RXBUF : Recv(n)
    BY <2>2, RecvKeeps
  <2> QED
    BY <1>1, <2>1, <2>2, SocketKeeps, ConnectKeeps, TcpAdvanceKeeps, TimeoutKeeps, ChunkKeeps,
       CloseKeeps DEF TcpTask
<1>2. CASE \E s \in in : TcpReceive(s)
  BY <1>2, ReceiveKeeps
<1>3. CASE TcpPeer
  BY <1>3, AcceptKeeps, TakeKeeps, AckFinKeeps, DataKeeps, FinKeeps DEF TcpPeer
<1>4. CASE UNCHANGED tcpVars
  BY <1>4, TcpUnchanged
<1> QED
  BY <1>1, <1>2, <1>3, <1>4 DEF TcpNext

LEMMA TcpAlways == Spec => []TcpInv
<1>1. Init => TcpInv
  BY TcpInit0 DEF Init
<1>2. TcpInv /\ [Next]_vars => TcpInv'
  <2> SUFFICES ASSUME TcpInv, [Next]_vars PROVE TcpInv'
    OBVIOUS
  <2>1. TcpNext \/ UNCHANGED tcpVars
    BY DEF Next, Clients, vars
  <2> QED
    BY <2>1, TcpStep
<1> QED
  BY <1>1, <1>2, PTL DEF Spec

(* The numbers tcp_send puts on its segments count what it was given, and  *)
(* those tcp_receive acknowledges count what it has stored, for every      *)
(* number of connections, window and buffer and whatever the network       *)
(* loses, repeats and reorders.                                            *)
THEOREM TcpNumbersTrue == Spec => []SequenceNumbersTrue
<1>1. ASSUME TcpInv PROVE SequenceNumbersTrue
  <2>0. /\ conns \in [Conns -> Connection(opens)] /\ opens \in Nat /\ sent \in Nat
        /\ peer.port \in 0 .. opens
    BY <1>1, TcpFacts
  <2>1. PeerSeesPrefix
    <3>1. PICK F \in 0 .. sent : SentTrue(F)
      BY <1>1 DEF TcpInv
    <3>2. F <= sent /\ F \in Nat /\ Len(peer.got) \in Nat
      BY <1>1, <2>0 DEF TcpInv, PeerTrue
    <3> QED
      BY <2>0, <3>1, <3>2 DEF SentTrue, GotTrue, PeerSeesPrefix
  <2>2. ASSUME NEW c \in Conns, conns[c].used, conns[c].port = peer.port
        PROVE  /\ conns[c].state \in {"ESTABLISHED", "LAST_ACK"} => conns[c].rcv_nxt <= peer.snd
               /\ conns[c].state = "ESTABLISHED" => Used(conns[c]) = conns[c].rcv_nxt - peer.base
    <3>1. ConnTrue(conns[c]) /\ conns[c] \in Connection(opens)
      BY <1>1, <2>0 DEF TcpInv
    <3>2. DataEnd <= peer.snd /\ DataEnd \in Int /\ peer.snd \in Nat
      BY <1>1 DEF TcpInv, PeerTrue, DataEnd
    <3>3. conns[c].rcv_nxt \in Nat
      BY <3>1 DEF Connection
    <3>4. conns[c].state = "ESTABLISHED" => Used(conns[c]) = conns[c].rcv_nxt - peer.base
      BY <2>0, <2>2, <3>1, UsedFacts DEF ConnTrue
    <3>5. conns[c].state \in {"ESTABLISHED", "LAST_ACK"} => conns[c].rcv_nxt <= peer.snd
      BY <2>2, <3>1, <3>2, <3>3 DEF ConnTrue
    <3> QED
      BY <3>4, <3>5
  <2> QED
    BY <2>1, <2>2 DEF AcksWhatItHas, SequenceNumbersTrue
<1> QED
  BY <1>1, TcpAlways, PTL

(* The frames themselves: those from the wire, each in a buffer or kept.   *)
FramesIn == /\ fromWire \in 0 .. MaxFrames /\ kept \in Seq(Frames)
            /\ \A d \in Descs : ring[d].frame \in Frames \cup {0}

LEMMA FramesAlways == Spec => [](CardInv /\ FramesIn)
<1>1. Init => CardInv /\ FramesIn
  <2>1. E1000Init => FramesIn
    BY E1000Assumption DEF E1000Init, FramesIn
  <2> QED
    BY <2>1, CardInit DEF Init
<1>2. CardInv /\ FramesIn /\ [Next]_vars => (CardInv /\ FramesIn)'
  <2> SUFFICES ASSUME CardInv, FramesIn, [Next]_vars PROVE CardInv' /\ FramesIn'
    OBVIOUS
  <2>1. E1000Next \/ UNCHANGED e1000Vars
    BY DEF Next, Clients, vars
  <2>2. CardInv'
    BY <2>1, CardStep
  <2>3. ring \in [Descs -> [done : BOOLEAN, frame : Nat]] /\ rdh \in Descs /\ rx_tail \in Descs
    BY DEF CardInv, ReceiveInv, ReceiveType
  <2>4. ASSUME FrameArrives PROVE FramesIn'
    <3>1. /\ fromWire < MaxFrames /\ fromWire' = fromWire + 1
          /\ \/ ring' = ring /\ kept' = kept
             \/ /\ ring' = [ring EXCEPT ![rdh] = [done |-> TRUE, frame |-> fromWire']]
                /\ kept' = Append(kept, fromWire')
      BY <2>4 DEF FrameArrives
    <3>2. fromWire' \in 0 .. MaxFrames /\ fromWire' \in Frames
      BY <3>1, E1000Assumption DEF FramesIn, Frames
    <3>3. kept' \in Seq(Frames)
      BY <3>1, <3>2 DEF FramesIn
    <3>4. ASSUME NEW d \in Descs PROVE ring'[d].frame \in Frames \cup {0}
      <4>1. CASE ring' = ring
        BY <4>1 DEF FramesIn
      <4>2. CASE ring' = [ring EXCEPT ![rdh] = [done |-> TRUE, frame |-> fromWire']]
        <5>1. ring'[d] = IF d = rdh THEN [done |-> TRUE, frame |-> fromWire'] ELSE ring[d]
          BY <2>3, <4>2
        <5> QED
          BY <3>2, <5>1 DEF FramesIn
      <4> QED
        BY <3>1, <4>1, <4>2
    <3> QED
      BY <3>2, <3>3, <3>4 DEF FramesIn
  <2>5. ASSUME GiveBackDescriptor PROVE FramesIn'
    <3>1. /\ fromWire' = fromWire /\ kept' = kept
          /\ ring' = [ring EXCEPT ![rx_tail] = [ring[rx_tail] EXCEPT !.done = FALSE]]
      BY <2>3, <2>5 DEF GiveBackDescriptor
    <3>2. ASSUME NEW d \in Descs PROVE ring'[d].frame = ring[d].frame
      <4>1. ring'[d] = IF d = rx_tail THEN [ring[rx_tail] EXCEPT !.done = FALSE] ELSE ring[d]
        BY <2>3, <3>1
      <4>2. [ring[rx_tail] EXCEPT !.done = FALSE].frame = ring[rx_tail].frame
        BY <2>3
      <4> QED
        BY <4>1, <4>2
    <3> QED
      BY <3>1, <3>2 DEF FramesIn
  <2>6. ASSUME ring' = ring /\ kept' = kept /\ fromWire' = fromWire PROVE FramesIn'
    BY <2>6 DEF FramesIn
  <2>7. FrameArrives \/ GiveBackDescriptor \/ (ring' = ring /\ kept' = kept /\ fromWire' = fromWire)
    BY <2>1 DEF E1000Next, FrameLeaves, Interrupt, HandUp, Return, EndOfInterrupt, SendCopy,
       SendAdvance, SendTail, receiveVars, e1000Vars
  <2> QED
    BY <2>2, <2>4, <2>5, <2>6, <2>7
<1> QED
  BY <1>1, <1>2, PTL DEF Spec

LEMMA PartAlways == Spec => [](part \in Parts)
<1>1. Init => part \in Parts
  BY DEF Init
<1>2. part \in Parts /\ [Next]_vars => (part \in Parts)'
  BY DEF Next, Clients, vars
<1> QED
  BY <1>1, <1>2, PTL DEF Spec

(* Every position stays inside its ring, the ARP cache inside its table,   *)
(* the windows inside the receive buffer and what a call has polled inside *)
(* its limit, for every size of them.                                      *)
THEOREM NetworkTypes == Spec => []TypeOK
<1>1. ASSUME part \in Parts, StackInv, TcpInv, CardInv, FramesIn PROVE TypeOK
  <2>1. NetTypeOK
    <3>1. ASSUME NEW d \in Fds
          PROVE  /\ socks[d].used \in BOOLEAN /\ socks[d].head \in 0 .. RING - 1
                 /\ socks[d].tail \in 0 .. RING - 1
      <4>1. socks[d] \in SockSet
        BY <1>1 DEF StackInv, SocksTrue
      <4> QED
        BY <4>1 DEF SockSet, Places
    <3> QED
      BY <1>1, <3>1 DEF StackInv, ArpTrue, NetTypeOK
  <2>2. ClientTypeOK
    <3>1. Len(buf) <= DNSMAX \/ Len(buf) <= FULL
      BY <1>1 DEF StackInv, BufTrue, Wants
    <3> QED
      BY <1>1, <3>1 DEF StackInv, CallTrue, ClientTypeOK
  <2>3. TcpTypeOK
    BY <1>1 DEF TcpInv
  <2>4. E1000TypeOK
    <3>1. ring \in [Descs -> [done : BOOLEAN, frame : Frames \cup {0}]]
      <4>1. ring \in [Descs -> [done : BOOLEAN, frame : Nat]]
        BY <1>1 DEF CardInv, ReceiveInv, ReceiveType
      <4>2. \A d \in Descs : ring[d] \in [done : BOOLEAN, frame : Frames \cup {0}]
        BY <1>1, <4>1 DEF FramesIn
      <4> QED
        BY <4>1, <4>2
    <3> QED
      BY <1>1, <3>1 DEF CardInv, ReceiveInv, ReceiveType, SendInv, SendType, FramesIn, E1000TypeOK
  <2> QED
    BY <1>1, <2>1, <2>2, <2>3, <2>4 DEF TypeOK
<1> QED
  BY <1>1, PartAlways, StackAlways, TcpAlways, FramesAlways, PTL

=============================================================================
