----------------------------- MODULE FileProofs -----------------------------
(***************************************************************************)
(* Theorems about the file systems: the three on disks and the file system *)
(* layer with those in memory, each with an inductive invariant of its     *)
(* own.                                                                    *)
(***************************************************************************)
EXTENDS Vfs, Fat32, Ext2, Iso9660, StoreProofs

-----------------------------------------------------------------------------
(* ISO 9660                                                                *)

IsoFields == {"phase", "op", "lba", "size", "from", "ask", "sec", "left", "got", "seen", "failed"}

IsoTyped(j) ==
  /\ DOMAIN j = IsoFields
  /\ j.phase \in {"idle", "sector", "done"} /\ j.op \in {"none", "read", "list", "find"}
  /\ j.lba \in Nat /\ j.size \in Nat /\ j.from \in Nat /\ j.sec \in Nat /\ j.left \in Nat /\ j.seen \in Nat
  /\ j.failed \in BOOLEAN

(* A read: the bytes so far, and the sector of the next one.               *)
IsoByte(j, i) == <<j.lba + ((j.from + i - 1) \div ISOSECTOR), (j.from + i - 1) % ISOSECTOR>>
IsoReading(j) ==
  /\ j.got \in Seq(Nat \X Nat)
  /\ \A i \in 1 .. Len(j.got) : j.got[i] = IsoByte(j, i)
  /\ j.phase = "sector" =>
       /\ Len(j.got) = 0 => j.sec = j.from \div ISOSECTOR
       /\ Len(j.got) > 0 => (j.from + Len(j.got)) % ISOSECTOR = 0 /\ j.sec = (j.from + Len(j.got)) \div ISOSECTOR
  /\ j.phase = "done" => j.left = 0 \/ j.failed

(* A directory: a row of records for each of its sectors, and what was     *)
(* counted, or not found, in the rows that were read.                      *)
IsoRow(v, j, k) == Shown(v.records[j.lba + k])
IsoRows(v, j)   == [k \in 0 .. Sectors(j.size) - 1 |-> IsoRow(v, j, k)]
Reached(j)      == j.sec \in 0 .. Sectors(j.size) - 1 /\ j.got = <<>>

IsoListing(v, j) ==
  /\ OnDisc(v, j)
  /\ j.phase = "sector" =>
       Reached(j) /\ j.seen = Cardinality(PlaceRows(IsoRows(v, j), j.sec)) /\ j.seen <= j.from
  /\ j.phase = "done" =>
       IF j.got # <<>>
       THEN \E k \in 0 .. Sectors(j.size) - 1 : \E i \in IsoRow(v, j, k) :
              /\ j.got = <<v.records[j.lba + k][i]>>
              /\ j.from = Cardinality(PlaceRows(IsoRows(v, j), k)) + Cardinality({h \in IsoRow(v, j, k) : h < i})
       ELSE j.failed \/ j.from >= Cardinality(PlaceRows(IsoRows(v, j), Sectors(j.size)))

IsoNamed(v, j, k)  == {i \in IsoRow(v, j, k) : CleanName[v.records[j.lba + k][i].name] = j.ask}
IsoFinding(v, j) ==
  /\ OnDisc(v, j) /\ j.ask \in IsoNames
  /\ j.phase = "sector" => Reached(j) /\ (j.failed \/ \A k \in 0 .. j.sec - 1 : IsoNamed(v, j, k) = {})
  /\ j.phase = "done" =>
       IF j.got # <<>>
       THEN \E k \in 0 .. Sectors(j.size) - 1 : \E i \in IsoNamed(v, j, k) : j.got = <<v.records[j.lba + k][i]>>
       ELSE j.failed \/ \A k \in 0 .. Sectors(j.size) - 1 : IsoNamed(v, j, k) = {}

IsoJobTrue(v, j) ==
  /\ IsoTyped(j)
  /\ j.op = "none" => j.phase = "idle"
  /\ j.op = "read" => IsoReading(j)
  /\ j.op = "list" => IsoListing(v, j)
  /\ j.op = "find" => IsoFinding(v, j)

IsoInv == isoVol \in IsoVolumes /\ isoRoot \in BOOLEAN /\ IsoJobTrue(isoVol, isoJob)

LEMMA IsoBegins ==
  ASSUME IsoInit
  PROVE  IsoInv
<1>1. IsoTyped(IsoIdle) /\ IsoIdle.op = "none" /\ IsoIdle.phase = "idle"
  BY DEF IsoTyped, IsoIdle, IsoFields
<1>2. IsoJobTrue(isoVol, IsoIdle)
  BY <1>1 DEF IsoJobTrue
<1> QED
  BY <1>2 DEF IsoInit, IsoInv

(* The rows of a directory on the disc.                                    *)
LEMMA IsoRowFacts ==
  ASSUME NEW v \in IsoVolumes, NEW j, IsoTyped(j), OnDisc(v, j)
  PROVE  /\ Sectors(j.size) \in Nat
         /\ \A k \in 0 .. Sectors(j.size) - 1 :
              /\ IsoRows(v, j)[k] = IsoRow(v, j, k)
              /\ IsFiniteSet(IsoRow(v, j, k)) /\ IsoRow(v, j, k) \subseteq Nat
              /\ v.records[j.lba + k] \in Seq(Range(v.records[j.lba + k]))
              /\ \A i \in DOMAIN v.records[j.lba + k] : v.records[j.lba + k][i].name \in DOMAIN CleanName
<1>1. Sectors(j.size) \in Nat
  <2>1. PICK z \in Nat : z = j.size
    BY DEF IsoTyped
  <2>2. (z + ISOSECTOR - 1) \div ISOSECTOR \in Nat
    BY IsoAssumption
  <2> QED
    BY <2>1, <2>2 DEF Sectors
<1>2. ASSUME NEW k \in 0 .. Sectors(j.size) - 1
      PROVE  /\ IsoRows(v, j)[k] = IsoRow(v, j, k)
             /\ IsFiniteSet(IsoRow(v, j, k)) /\ IsoRow(v, j, k) \subseteq Nat
             /\ v.records[j.lba + k] \in Seq(Range(v.records[j.lba + k]))
             /\ \A i \in DOMAIN v.records[j.lba + k] : v.records[j.lba + k][i].name \in DOMAIN CleanName
  <2>1. j.lba + k \in DOMAIN v.records
    BY DEF OnDisc
  <2>2. PICK rec : rec = v.records[j.lba + k]
    OBVIOUS
  <2>3. rec \in Seq(Range(rec)) /\ \A r \in Range(rec) : Record(r)
    BY <2>1, <2>2, IsoAssumption
  <2>4. Len(rec) \in Nat /\ DOMAIN rec = 1 .. Len(rec)
    BY <2>3
  <2>5. IsFiniteSet(DOMAIN rec)
    BY <2>4, FS_Interval
  <2>6. IsoRow(v, j, k) \subseteq DOMAIN rec
    BY <2>2 DEF IsoRow, Shown
  <2>7. IsFiniteSet(IsoRow(v, j, k)) /\ IsoRow(v, j, k) \subseteq Nat
    BY <2>4, <2>5, <2>6, FS_Subset
  <2>8. \A i \in DOMAIN rec : rec[i].name \in DOMAIN CleanName
    BY <2>3 DEF Range, Record
  <2>9. IsoRows(v, j)[k] = IsoRow(v, j, k)
    BY DEF IsoRows
  <2> QED
    BY <2>2, <2>3, <2>7, <2>8, <2>9
<1> QED
  BY <1>1, <1>2


LEMMA MountKeepsIso ==
  ASSUME IsoInv, IsoMount
  PROVE  IsoInv'
BY DEF IsoInv, IsoMount

LEMMA CallKeepsIso ==
  ASSUME IsoInv, NEW op \in {"read", "list", "find"}, NEW e, e.lba \in Nat, e.size \in Nat,
         NEW from \in Nat, NEW len \in Nat, NEW ask,
         op = "read" => from < e.size, op # "read" => OnDisc(isoVol, e), op = "find" => ask \in IsoNames,
         IsoBegin(op, e, from, len, ask)
  PROVE  IsoInv'
<1> DEFINE left == IF op # "read" THEN 0 ELSE IF from + len > e.size THEN e.size - from ELSE len
           sec  == IF op = "read" THEN from \div ISOSECTOR ELSE 0
           phase == IF op # "read" /\ e.size = 0 THEN "done" ELSE "sector"
<1>1. left \in Nat /\ sec \in Nat /\ phase \in {"sector", "done"}
  BY IsoAssumption
<1>2. PICK j : j = isoJob'
  OBVIOUS
<1>3. /\ DOMAIN j = IsoFields
      /\ j.phase = phase /\ j.op = op /\ j.lba = e.lba /\ j.size = e.size /\ j.from = from /\ j.ask = ask
      /\ j.sec = sec /\ j.left = left /\ j.got = <<>> /\ j.seen = 0 /\ j.failed = FALSE
  BY <1>2 DEF IsoBegin, IsoIdle, IsoFields
<1>4. PICK v \in IsoVolumes : v = isoVol /\ isoVol' = v
  BY DEF IsoInv, IsoBegin
<1> HIDE DEF left, sec, phase
<1>5. IsoTyped(j)
  <2>1. j.failed \in BOOLEAN /\ j.op \in {"none", "read", "list", "find"} /\ j.phase \in {"idle", "sector", "done"}
    BY <1>1, <1>3, Zenon
  <2>2. j.lba \in Nat /\ j.size \in Nat /\ j.from \in Nat /\ j.seen \in Nat
    BY <1>3
  <2>3. j.sec \in Nat /\ j.left \in Nat
    BY <1>1, <1>3
  <2> QED
    BY <1>3, <2>1, <2>2, <2>3 DEF IsoTyped
<1> SUFFICES IsoJobTrue(v, j)
  BY <1>2, <1>4 DEF IsoInv, IsoBegin
<1>6. CASE op = "read"
  <2>1. j.got \in Seq(Nat \X Nat) /\ Len(j.got) = 0
    BY <1>3
  <2>2. j.phase = "sector" /\ j.sec = j.from \div ISOSECTOR
    BY <1>3, <1>6 DEF phase, sec
  <2>3. \A i \in 1 .. Len(j.got) : j.got[i] = IsoByte(j, i)
    BY <2>1
  <2>4. IsoReading(j)
    BY <2>1, <2>2, <2>3 DEF IsoReading
  <2> QED
    BY <1>3, <1>5, <1>6, <2>4 DEF IsoJobTrue
<1>7. CASE op # "read"
  <2>1. OnDisc(v, j)
    BY <1>3, <1>4, <1>7 DEF OnDisc
  <2>2. j.phase = IF j.size = 0 THEN "done" ELSE "sector"
    BY <1>3, <1>7 DEF phase
  <2>3. j.sec = 0
    BY <1>3, <1>7 DEF sec
  <2>4. PICK s \in Nat : s = j.size
    BY <1>3
  <2>5. Sectors(j.size) = (s + ISOSECTOR - 1) \div ISOSECTOR
    BY <2>4 DEF Sectors
  <2>6. s = 0 => Sectors(j.size) = 0
    <3>1. 0 + ISOSECTOR - 1 = ISOSECTOR * 0 + (ISOSECTOR - 1) /\ ISOSECTOR - 1 \in 0 .. ISOSECTOR - 1
      BY IsoAssumption
    <3>2. (ISOSECTOR * 0 + (ISOSECTOR - 1)) \div ISOSECTOR = 0
      BY <3>1, IsoAssumption, DivUnique
    <3> QED
      BY <2>5, <3>1, <3>2
  <2>7. s # 0 => Sectors(j.size) >= 1 /\ Sectors(j.size) \in Nat
    BY <2>5, IsoAssumption
  <2>8. j.phase = "sector" => Reached(j)
    BY <2>2, <2>3, <2>4, <2>7, <1>3 DEF Reached
  <2>9. j.phase = "done" => Sectors(j.size) = 0
    BY <2>2, <2>4, <2>6
  <2>10. PlaceRows(IsoRows(v, j), 0) = {} /\ Cardinality({}) = 0
    BY FS_EmptySet DEF PlaceRows
  <2>11. CASE op = "list"
    <3>0. Cardinality(PlaceRows(IsoRows(v, j), j.sec)) = 0
      BY <2>3, <2>10
    <3>1. j.phase = "sector" => Reached(j) /\ j.seen = Cardinality(PlaceRows(IsoRows(v, j), j.sec)) /\ j.seen <= j.from
      <4>1. j.seen = 0 /\ j.from \in Nat
        BY <1>3
      <4> QED
        BY <2>8, <3>0, <4>1
    <3>2. j.phase = "done" => j.got = <<>> /\ j.from >= Cardinality(PlaceRows(IsoRows(v, j), Sectors(j.size)))
      <4>1. j.got = <<>> /\ j.from \in Nat
        BY <1>3
      <4>2. j.phase = "done" => Cardinality(PlaceRows(IsoRows(v, j), Sectors(j.size))) = 0
        BY <2>9, <2>10
      <4> QED
        BY <4>1, <4>2
    <3>3. IsoListing(v, j)
      BY <2>1, <3>1, <3>2 DEF IsoListing
    <3> QED
      BY <1>3, <1>5, <2>11, <3>3 DEF IsoJobTrue
  <2>12. CASE op = "find"
    <3>1. j.ask \in IsoNames
      BY <1>3, <2>12
    <3>2. j.phase = "sector" => Reached(j) /\ \A k \in 0 .. j.sec - 1 : IsoNamed(v, j, k) = {}
      BY <2>3, <2>8
    <3>3. j.phase = "done" => j.got = <<>> /\ \A k \in 0 .. Sectors(j.size) - 1 : IsoNamed(v, j, k) = {}
      BY <2>9, <1>3
    <3>4. IsoFinding(v, j)
      BY <2>1, <3>1, <3>2, <3>3 DEF IsoFinding
    <3> QED
      BY <1>3, <1>5, <2>12, <3>4 DEF IsoJobTrue
  <2> QED
    BY <1>7, <2>11, <2>12
<1> QED
  BY <1>6, <1>7

LEMMA FailsKeepsIso ==
  ASSUME IsoInv, IsoFails
  PROVE  IsoInv'
<1>1. PICK j : j = isoJob
  OBVIOUS
<1>2. PICK k : k = [j EXCEPT !.phase = "done", !.failed = TRUE]
  OBVIOUS
<1>3. IsoTyped(j) /\ j.phase = "sector"
  BY <1>1 DEF IsoInv, IsoJobTrue, IsoFails
<1>4. /\ DOMAIN k = IsoFields
      /\ k.phase = "done" /\ k.op = j.op /\ k.lba = j.lba /\ k.size = j.size /\ k.from = j.from /\ k.ask = j.ask
      /\ k.sec = j.sec /\ k.left = j.left /\ k.got = j.got /\ k.seen = j.seen /\ k.failed = TRUE
  BY <1>2, <1>3 DEF IsoTyped, IsoFields
<1>5. IsoTyped(k)
  BY <1>3, <1>4 DEF IsoTyped
<1>6. PICK v \in IsoVolumes : v = isoVol /\ isoVol' = v
  BY DEF IsoInv, IsoFails
<1>7. IsoJobTrue(v, j)
  BY <1>1, <1>6 DEF IsoInv
<1>8. k.op = "read" => IsoReading(k)
  BY <1>3, <1>4, <1>7 DEF IsoJobTrue, IsoReading, IsoByte
<1>9. k.op = "list" => IsoListing(v, k)
  BY <1>3, <1>4, <1>7 DEF IsoJobTrue, IsoListing, OnDisc, Reached
<1>10. k.op = "find" => IsoFinding(v, k)
  BY <1>3, <1>4, <1>7 DEF IsoJobTrue, IsoFinding, OnDisc, Reached
<1>11. IsoJobTrue(v, k)
  BY <1>3, <1>4, <1>5, <1>7, <1>8, <1>9, <1>10 DEF IsoJobTrue
<1> QED
  BY <1>1, <1>2, <1>6, <1>11 DEF IsoInv, IsoFails

(* The bytes of one sector, up to its end or to that of the read.          *)
StartsIn(q, x, sec, intra) == intra \in 0 .. q - 1 /\ x = q * sec + intra
StaysIn(q, x, sec, intra, chunk) ==
  /\ \A m \in 0 .. chunk - 1 : (x + m) \div q = sec /\ (x + m) % q = intra + m
  /\ chunk = q - intra => (x + chunk) % q = 0 /\ (x + chunk) \div q = sec + 1
LEMMA SectorBytes ==
  ASSUME NEW q \in Nat \ {0}, NEW x \in Nat, NEW sec \in Nat, NEW intra, StartsIn(q, x, sec, intra),
         NEW chunk \in Nat, chunk <= q - intra
  PROVE  StaysIn(q, x, sec, intra, chunk)
<1> USE DEF StartsIn
<1>1. ASSUME NEW m \in 0 .. chunk - 1 PROVE (x + m) \div q = sec /\ (x + m) % q = intra + m
  <2>1. PICK r \in 0 .. q - 1 : r = intra + m
    OBVIOUS
  <2>2. x + m = q * sec + r
    BY <2>1
  <2> QED
    BY <2>1, <2>2, DivUnique
<1>2. ASSUME chunk = q - intra PROVE (x + chunk) % q = 0 /\ (x + chunk) \div q = sec + 1
  <2>1. x + chunk = q * sec + q
    BY <1>2
  <2>2. q * (sec + 1) + 0 = q * sec + q
    OBVIOUS
  <2>3. sec + 1 \in Int /\ 0 \in 0 .. q - 1
    OBVIOUS
  <2>4. (q * (sec + 1) + 0) % q = 0 /\ (q * (sec + 1) + 0) \div q = sec + 1
    BY <2>3, DivUnique
  <2> QED
    BY <2>1, <2>2, <2>4
<1> QED
  BY <1>1, <1>2 DEF StaysIn

LEMMA ReadSectorKeepsIso ==
  ASSUME IsoInv, IsoReadSector
  PROVE  IsoInv'
<1>1. PICK j : j = isoJob
  OBVIOUS
<1>2. PICK v \in IsoVolumes : v = isoVol /\ isoVol' = v
  BY DEF IsoInv, IsoReadSector
<1>3. IsoTyped(j) /\ j.phase = "sector" /\ j.op = "read" /\ IsoReading(j)
  BY <1>1 DEF IsoInv, IsoJobTrue, IsoReadSector
<1>4. PICK S \in Nat \ {0} : S = ISOSECTOR
  BY IsoAssumption
<1>5. PICK f, sec, left, lba \in Nat : f = j.from /\ sec = j.sec /\ left = j.left /\ lba = j.lba
  BY <1>3 DEF IsoTyped
<1>6. PICK g \in Seq(Nat \X Nat) : g = j.got
  BY <1>3 DEF IsoReading
<1>7. PICK n \in Nat : n = Len(g)
  BY <1>6
<1>8. PICK x \in Nat : x = f + n
  OBVIOUS
<1>9. PICK intra \in 0 .. S - 1 : intra = (IF g = <<>> THEN f % S ELSE 0)
  <2>1. f % S \in 0 .. S - 1
    OBVIOUS
  <2> QED
    BY <2>1
<1>10. x = S * sec + intra
  <2>1. CASE g = <<>>
    <3>1. n = 0
      BY <1>7, <2>1
    <3>2. sec = f \div S
      BY <1>3, <1>4, <1>5, <1>6, <1>7, <3>1 DEF IsoReading
    <3> QED
      BY <1>8, <1>9, <2>1, <3>1, <3>2
  <2>2. CASE g # <<>>
    <3>1. n > 0
      BY <1>6, <1>7, <2>2
    <3>2. x % S = 0 /\ sec = x \div S
      BY <1>3, <1>4, <1>5, <1>6, <1>7, <1>8, <3>1 DEF IsoReading
    <3> QED
      BY <1>9, <2>2, <3>2
  <2> QED
    BY <2>1, <2>2
<1>11. PICK chunk : chunk = Min({left, S - intra})
  OBVIOUS
<1>12. chunk \in Nat /\ chunk <= left /\ chunk <= S - intra /\ (chunk = left \/ chunk = S - intra)
  <2>1. {left, S - intra} \subseteq Nat /\ {left, S - intra} # {}
    OBVIOUS
  <2>2. chunk \in {left, S - intra} /\ \A y \in {left, S - intra} : chunk <= y
    BY <1>11, <2>1, MinFacts
  <2> QED
    BY <2>1, <2>2
<1>13. /\ \A m \in 0 .. chunk - 1 : (x + m) \div S = sec /\ (x + m) % S = intra + m
       /\ chunk = S - intra => (x + chunk) % S = 0 /\ (x + chunk) \div S = sec + 1
  <2>1. chunk \in Nat /\ chunk <= S - intra
    BY <1>12
  <2>2. StartsIn(S, x, sec, intra)
    BY <1>10 DEF StartsIn
  <2>3. StaysIn(S, x, sec, intra, chunk)
    BY <2>1, <2>2, SectorBytes
  <2> QED
    BY <2>3 DEF StaysIn
<1>14. PICK more : more = [i \in 1 .. chunk |-> <<lba + sec, intra + i - 1>>]
  OBVIOUS
<1>15. more \in Seq(Nat \X Nat) /\ Len(more) = chunk
  <2>1. \A i \in 1 .. chunk : <<lba + sec, intra + i - 1>> \in Nat \X Nat
    BY <1>12
  <2> QED
    BY <1>12, <1>14, <2>1
<1>16. PICK h : h = g \o more
  OBVIOUS
<1>17. /\ h \in Seq(Nat \X Nat) /\ Len(h) = n + chunk
       /\ \A i \in 1 .. n + chunk : h[i] = IF i <= n THEN g[i] ELSE more[i - n]
  BY <1>7, <1>15, <1>16, ConcatProperties
<1>18. PICK k : k = [j EXCEPT !.got = h, !.left = left - chunk, !.sec = sec + 1,
                              !.phase = IF left = chunk THEN "done" ELSE "sector"]
  OBVIOUS
<1>19. isoJob' = k
  <2>1. (IF j.got = <<>> THEN j.from % ISOSECTOR ELSE 0) = intra
    BY <1>4, <1>5, <1>6, <1>9
  <2>2. isoJob' = [j EXCEPT
          !.got = j.got \o [i \in 1 .. chunk |-> <<j.lba + j.sec, intra + i - 1>>],
          !.left = j.left - chunk, !.sec = j.sec + 1,
          !.phase = IF j.left = chunk THEN "done" ELSE "sector"]
    BY <1>1, <1>4, <1>5, <1>11, <2>1 DEF IsoReadSector
  <2> QED
    BY <1>5, <1>6, <1>14, <1>16, <1>18, <2>2
<1>20. /\ DOMAIN k = IsoFields
       /\ k.phase = (IF left = chunk THEN "done" ELSE "sector") /\ k.op = "read" /\ k.lba = lba /\ k.size = j.size /\ k.from = f
       /\ k.sec = sec + 1 /\ k.left = left - chunk /\ k.got = h /\ k.seen = j.seen /\ k.failed = j.failed
  BY <1>3, <1>5, <1>18 DEF IsoTyped, IsoFields
<1>21. IsoTyped(k)
  <2>1. k.phase \in {"sector", "done"} /\ k.left \in Nat
    BY <1>12, <1>20
  <2> QED
    BY <1>3, <1>20, <2>1 DEF IsoTyped
<1>22. ASSUME NEW i \in 1 .. n + chunk PROVE h[i] = IsoByte(k, i)
  <2>0. IsoByte(k, i) = <<lba + ((f + i - 1) \div S), (f + i - 1) % S>>
    BY <1>4, <1>20 DEF IsoByte
  <2>1. CASE i <= n
    <3>1. h[i] = g[i]
      BY <1>17, <2>1
    <3>2. g[i] = IsoByte(j, i)
      BY <1>3, <1>6, <1>7, <2>1 DEF IsoReading
    <3>3. IsoByte(j, i) = <<lba + ((f + i - 1) \div S), (f + i - 1) % S>>
      BY <1>4, <1>5 DEF IsoByte
    <3> QED
      BY <2>0, <3>1, <3>2, <3>3
  <2>2. CASE i > n
    <3>1. PICK m \in 0 .. chunk - 1 : m = i - n - 1
      BY <1>12, <2>2
    <3>2. h[i] = more[m + 1]
      BY <1>17, <2>2, <3>1
    <3>3. more[m + 1] = <<lba + sec, intra + m>>
      BY <1>14, <1>12, <3>1
    <3>4. f + i - 1 = x + m
      BY <1>8, <3>1
    <3>5. (x + m) \div S = sec /\ (x + m) % S = intra + m
      BY <1>13
    <3> QED
      BY <2>0, <3>2, <3>3, <3>4, <3>5
  <2> QED
    BY <2>1, <2>2
<1>23. IsoReading(k)
  <2>1. k.got \in Seq(Nat \X Nat) /\ Len(k.got) = n + chunk /\ \A i \in 1 .. Len(k.got) : k.got[i] = IsoByte(k, i)
    BY <1>17, <1>20, <1>22
  <2>2. ASSUME k.phase = "sector"
        PROVE  Len(k.got) > 0 /\ (k.from + Len(k.got)) % ISOSECTOR = 0 /\ k.sec = (k.from + Len(k.got)) \div ISOSECTOR
    <3>1. chunk = S - intra
      BY <1>12, <1>20, <2>2
    <3>2. k.from + Len(k.got) = x + chunk
      BY <1>8, <1>12, <1>20, <2>1
    <3>3. n + chunk > 0
      BY <3>1
    <3>4. (x + chunk) % S = 0 /\ (x + chunk) \div S = sec + 1
      BY <1>13, <3>1
    <3> QED
      BY <1>4, <1>20, <2>1, <3>2, <3>3, <3>4
  <2>3. k.phase = "done" => k.left = 0
    BY <1>12, <1>20
  <2>4. Len(k.got) \in Nat
    BY <2>1, <1>12
  <2> QED
    BY <2>1, <2>2, <2>3, <2>4 DEF IsoReading
<1>24. IsoJobTrue(v, k)
  BY <1>20, <1>21, <1>23 DEF IsoJobTrue
<1> QED
  BY <1>2, <1>19, <1>24 DEF IsoInv, IsoReadSector

(* In a row there is a place with any smaller number of others before it.  *)
Lower(T, i) == {j \in T : j < i}
LEMMA RankExists ==
  ASSUME NEW b \in Nat
  PROVE  \A n \in Nat : \A T \in SUBSET (1 .. b) : Cardinality(T) = n =>
           \A m \in 0 .. n - 1 : \E i \in T : Cardinality(Lower(T, i)) = m
<1> DEFINE Ranked(T, n) == \A m \in 0 .. n - 1 : \E i \in T : Cardinality(Lower(T, i)) = m
           Sizes == {n \in Nat : \A T \in SUBSET (1 .. b) : Cardinality(T) = n => Ranked(T, n)}
<1>0. ASSUME NEW T \in SUBSET (1 .. b) PROVE IsFiniteSet(T) /\ Cardinality(T) \in Nat
  <2>1. IsFiniteSet(1 .. b)
    BY FS_Interval
  <2>2. IsFiniteSet(T)
    BY <2>1, FS_Subset
  <2> QED
    BY <2>2, FS_CardinalityType
<1>1. 0 \in Sizes
  OBVIOUS
<1>2. ASSUME NEW n \in Nat, n \in Sizes PROVE n + 1 \in Sizes
  <2> SUFFICES ASSUME NEW T \in SUBSET (1 .. b), Cardinality(T) = n + 1 PROVE Ranked(T, n + 1)
    OBVIOUS
  <2>1. T # {}
    BY FS_EmptySet
  <2>2. PICK x : x = Max(T)
    OBVIOUS
  <2>3. x \in T /\ \A y \in T : x >= y
    BY <2>1, <2>2, MaxFacts
  <2>4. PICK U \in SUBSET (1 .. b) : U = T \ {x}
    OBVIOUS
  <2>5. Cardinality(U) = n
    <3>1. Cardinality(T \ {x}) = Cardinality(T) - 1
      BY <1>0, <2>3, FS_RemoveElement
    <3> QED
      BY <2>4, <3>1
  <2>6. Ranked(U, n)
    BY <1>2, <2>5
  <2>7. Lower(T, x) = U
    <3>1. \A y \in T : y < x <=> y # x
      BY <2>3
    <3> QED
      BY <2>4, <3>1 DEF Lower
  <2>8. ASSUME NEW i \in U PROVE Lower(T, i) = Lower(U, i)
    <3>1. x >= i /\ x \in Nat /\ i \in Nat
      BY <2>3, <2>4
    <3>2. ~(x < i)
      BY <3>1
    <3> QED
      BY <2>4, <3>2 DEF Lower
  <2>9. ASSUME NEW m \in 0 .. (n + 1) - 1 PROVE \E i \in T : Cardinality(Lower(T, i)) = m
    <3>1. CASE m = n
      BY <2>3, <2>5, <2>7, <3>1
    <3>2. CASE m # n
      <4>1. m \in 0 .. n - 1
        BY <3>2
      <4>2. PICK i \in U : Cardinality(Lower(U, i)) = m
        BY <2>6, <4>1
      <4> QED
        BY <2>4, <2>8, <4>2
    <3> QED
      BY <3>1, <3>2
  <2> QED
    BY <2>9
<1>3. \A n \in Nat : n \in Sizes
  <2> HIDE DEF Sizes
  <2> QED
    BY <1>1, <1>2, Induction
<1> QED
  BY <1>3

Ranks(T, c) == \A m \in 0 .. c - 1 : \E i \in T : Cardinality(Lower(T, i)) = m
LEMMA Ranked ==
  ASSUME NEW t \in Nat, NEW T \in SUBSET (1 .. t), NEW c \in Nat, c = Cardinality(T)
  PROVE  Ranks(T, c)
<1>1. \A z \in Nat : \A U \in SUBSET (1 .. t) : Cardinality(U) = z =>
        \A l \in 0 .. z - 1 : \E i \in U : Cardinality(Lower(U, i)) = l
  BY RankExists
<1>2. \A U \in SUBSET (1 .. t) : Cardinality(U) = c =>
        \A l \in 0 .. c - 1 : \E i \in U : Cardinality(Lower(U, i)) = l
  BY <1>1
<1>3. \A l \in 0 .. c - 1 : \E i \in T : Cardinality(Lower(T, i)) = l
  BY <1>2
<1> QED
  BY <1>3 DEF Ranks

(* What one sector of a directory adds to the call.                        *)
IsoScanned(j, k, hit, failed, count) ==
  k = [j EXCEPT
         !.got = hit, !.failed = failed, !.sec = j.sec + 1, !.seen = j.seen + count,
         !.phase = IF hit # <<>> \/ j.sec + 1 = Sectors(j.size) THEN "done" ELSE "sector"]

LEMMA ScannedFields ==
  ASSUME NEW j, NEW k, NEW hit, NEW failed \in BOOLEAN, NEW count \in Nat,
         IsoTyped(j), IsoScanned(j, k, hit, failed, count)
  PROVE  /\ IsoTyped(k)
         /\ k.op = j.op /\ k.lba = j.lba /\ k.size = j.size /\ k.from = j.from /\ k.ask = j.ask
         /\ k.got = hit /\ k.failed = failed /\ k.sec = j.sec + 1 /\ k.seen = j.seen + count
         /\ k.phase = IF hit # <<>> \/ j.sec + 1 = Sectors(j.size) THEN "done" ELSE "sector"
<1>1. DOMAIN j = IsoFields
  BY DEF IsoTyped
<1>2. /\ DOMAIN k = IsoFields /\ k.left = j.left
      /\ k.op = j.op /\ k.lba = j.lba /\ k.size = j.size /\ k.from = j.from /\ k.ask = j.ask
      /\ k.got = hit /\ k.failed = failed /\ k.sec = j.sec + 1 /\ k.seen = j.seen + count
      /\ k.phase = IF hit # <<>> \/ j.sec + 1 = Sectors(j.size) THEN "done" ELSE "sector"
  BY <1>1 DEF IsoScanned, IsoFields
<1>3. k.sec \in Nat /\ k.seen \in Nat
  BY <1>2 DEF IsoTyped
<1>4. k.failed \in BOOLEAN
  BY <1>2, Zenon
<1>5. k.phase \in {"idle", "sector", "done"}
  BY <1>2
<1>6. IsoTyped(k)
  BY <1>2, <1>3, <1>4, <1>5 DEF IsoTyped
<1> QED
  BY <1>2, <1>6

LEMMA ListKeepsIso ==
  ASSUME NEW v \in IsoVolumes, NEW j, NEW k, IsoTyped(j), IsoListing(v, j), j.op = "list", j.phase = "sector",
         NEW shown, shown = IsoRow(v, j, j.sec),
         NEW indexed, indexed = {i \in shown : j.seen + Cardinality(Lower(shown, i)) = j.from},
         IsoScanned(j, k, IF indexed = {} THEN <<>> ELSE <<v.records[j.lba + j.sec][Min(indexed)]>>, j.failed, Cardinality(shown))
  PROVE  IsoJobTrue(v, k)
<1>1. PICK hit : hit = IF indexed = {} THEN <<>> ELSE <<v.records[j.lba + j.sec][Min(indexed)]>>
  OBVIOUS
<1>2. PICK n \in Nat : n = Sectors(j.size)
  BY IsoRowFacts DEF IsoListing
<1>3. PICK s \in 0 .. n - 1 : s = j.sec
  BY <1>2 DEF IsoListing, Reached
<1>4. PICK rows : rows = IsoRows(v, j)
  OBVIOUS
<1>5. \A m \in 0 .. n - 1 : rows[m] = IsoRow(v, j, m) /\ IsFiniteSet(rows[m]) /\ rows[m] \subseteq Nat
  BY <1>2, <1>4, IsoRowFacts DEF IsoListing
<1>6. PICK here : here = v.records[j.lba + j.sec]
  OBVIOUS
<1>7. here \in Seq(Range(here)) /\ shown \subseteq DOMAIN here /\ rows[s] = shown /\ IsFiniteSet(shown) /\ shown \subseteq Nat
  <2>1. here \in Seq(Range(here))
    BY <1>2, <1>3, <1>6, IsoRowFacts DEF IsoListing
  <2>2. shown \subseteq DOMAIN here
    BY <1>6 DEF IsoRow, Shown
  <2>3. rows[s] = shown /\ IsFiniteSet(shown) /\ shown \subseteq Nat
    BY <1>3, <1>5
  <2> QED
    BY <2>1, <2>2, <2>3
<1>8. PICK b \in Nat : shown \in SUBSET (1 .. b)
  <2>1. Len(here) \in Nat /\ DOMAIN here = 1 .. Len(here)
    BY <1>7
  <2> QED
    BY <1>7, <2>1
<1>9. PICK c \in Nat : c = Cardinality(shown)
  BY <1>7, FS_CardinalityType
<1>10. PICK before \in Nat : before = Cardinality(PlaceRows(rows, s)) /\ Cardinality(PlaceRows(rows, s + 1)) = before + c
  <2>1. \A m \in 0 .. n - 1 : IsFiniteSet(rows[m])
    BY <1>5
  <2>2. /\ Cardinality(PlaceRows(rows, s)) \in Nat
        /\ Cardinality(PlaceRows(rows, s + 1)) = Cardinality(PlaceRows(rows, s)) + Cardinality(rows[s])
    BY <2>1, RowsCount
  <2> QED
    BY <2>2, <1>7, <1>9
<1>11. j.seen = before /\ before <= j.from /\ j.from \in Nat
  BY <1>3, <1>4, <1>10 DEF IsoListing, IsoTyped
<1>12. /\ IsoTyped(k)
       /\ k.op = j.op /\ k.lba = j.lba /\ k.size = j.size /\ k.from = j.from
       /\ k.got = hit /\ k.sec = s + 1 /\ k.seen = before + c
       /\ k.phase = IF hit # <<>> \/ s + 1 = n THEN "done" ELSE "sector"
  <2>1. j.failed \in BOOLEAN
    BY DEF IsoTyped
  <2>2. IsoScanned(j, k, hit, j.failed, c)
    BY <1>1, <1>9
  <2> QED
    BY <1>2, <1>3, <1>11, <2>1, <2>2, ScannedFields
<1>13. OnDisc(v, k)
  BY <1>12 DEF IsoListing, OnDisc
<1>14. /\ \A m : IsoRow(v, k, m) = IsoRow(v, j, m)
       /\ IsoRows(v, k) = rows /\ Sectors(k.size) = n
  BY <1>2, <1>4, <1>12 DEF IsoRow, IsoRows
<1>15. CASE indexed = {}
  <2>1. hit = <<>>
    BY <1>1, <1>15
  <2>2. before + c <= j.from
    <3> SUFFICES ASSUME j.from < before + c PROVE FALSE
      BY <1>11
    <3>1. j.from - before \in 0 .. c - 1
      BY <1>11
    <3>2. PICK i \in shown : Cardinality(Lower(shown, i)) = j.from - before
      <4>1. PICK m \in 0 .. c - 1 : m = j.from - before
        BY <3>1
      <4>2. Ranks(shown, c)
        BY <1>8, <1>9, Ranked
      <4> QED
        BY <4>1, <4>2 DEF Ranks
    <3>3. j.seen + Cardinality(Lower(shown, i)) = j.from
      BY <1>11, <3>2
    <3> QED
      BY <1>15, <3>3
  <2>3. k.phase = "sector" =>
          Reached(k) /\ k.seen = Cardinality(PlaceRows(IsoRows(v, k), k.sec)) /\ k.seen <= k.from
    <3> SUFFICES ASSUME s + 1 # n PROVE Reached(k) /\ k.seen = Cardinality(PlaceRows(rows, s + 1)) /\ k.seen <= k.from
      BY <1>12, <1>14
    <3>1. s + 1 \in 0 .. n - 1
      OBVIOUS
    <3>2. Reached(k)
      BY <1>12, <1>14, <2>1, <3>1 DEF Reached
    <3> QED
      BY <1>10, <1>12, <2>2, <3>2
  <2>4. k.phase = "done" => k.got = <<>> /\ k.from >= Cardinality(PlaceRows(IsoRows(v, k), Sectors(k.size)))
    <3> SUFFICES ASSUME s + 1 = n PROVE k.got = <<>> /\ k.from >= Cardinality(PlaceRows(rows, n))
      BY <1>12, <1>14, <2>1
    <3> QED
      BY <1>10, <1>11, <1>12, <2>1, <2>2
  <2>5. IsoListing(v, k)
    BY <1>13, <2>3, <2>4 DEF IsoListing
  <2> QED
    BY <1>12, <2>5 DEF IsoJobTrue
<1>16. CASE indexed # {}
  <2>1. PICK i : i = Min(indexed)
    OBVIOUS
  <2>2. i \in indexed
    <3>1. indexed \subseteq Nat
      BY <1>7
    <3> QED
      BY <2>1, <3>1, <1>16, MinFacts
  <2>3. hit = <<here[i]>> /\ hit # <<>>
    BY <1>1, <1>6, <1>16, <2>1
  <2>4. k.phase = "done" /\ k.got = <<v.records[k.lba + s][i]>> /\ k.got # <<>>
    BY <1>3, <1>6, <1>12, <2>3
  <2>5. i \in IsoRow(v, k, s) /\ {h \in IsoRow(v, k, s) : h < i} = Lower(shown, i)
    BY <1>3, <1>14, <2>2 DEF Lower
  <2>6. k.from = before + Cardinality(Lower(shown, i))
    BY <1>11, <1>12, <2>2
  <2>7. k.from = Cardinality(PlaceRows(IsoRows(v, k), s)) + Cardinality({h \in IsoRow(v, k, s) : h < i})
    BY <1>10, <1>14, <2>5, <2>6
  <2>8. IsoListing(v, k)
    BY <1>13, <1>14, <2>4, <2>5, <2>7 DEF IsoListing
  <2> QED
    BY <1>12, <2>8 DEF IsoJobTrue
<1> QED
  BY <1>15, <1>16

(* What a sector gives a search, and that an error stays one.              *)
FindOutcome(j, here, same, hit, failed) ==
  /\ j.failed => failed
  /\ \/ hit = <<>> /\ (failed \/ same = {})
     \/ \E i \in same : hit = <<here[i]>>

LEMMA FindKeepsIso ==
  ASSUME NEW v \in IsoVolumes, NEW j, NEW k, IsoTyped(j), IsoFinding(v, j), j.op = "find", j.phase = "sector",
         NEW here, here = v.records[j.lba + j.sec],
         NEW same, same = {i \in DOMAIN here : CleanName[here[i].name] = j.ask},
         NEW hit, NEW failed \in BOOLEAN, NEW count \in Nat, IsoScanned(j, k, hit, failed, count),
         FindOutcome(j, here, same, hit, failed)
  PROVE  IsoJobTrue(v, k)
<1>2. PICK n \in Nat : n = Sectors(j.size)
  BY IsoRowFacts DEF IsoFinding
<1>3. PICK s \in 0 .. n - 1 : s = j.sec
  BY <1>2 DEF IsoFinding, Reached
<1>4. /\ IsoTyped(k)
      /\ k.op = j.op /\ k.lba = j.lba /\ k.size = j.size /\ k.ask = j.ask
      /\ k.got = hit /\ k.failed = failed /\ k.sec = s + 1
      /\ k.phase = IF hit # <<>> \/ s + 1 = n THEN "done" ELSE "sector"
  BY <1>2, <1>3, ScannedFields
<1>5. OnDisc(v, k) /\ k.ask \in IsoNames
  BY <1>4 DEF IsoFinding, OnDisc
<1>6. /\ \A m : IsoNamed(v, k, m) = IsoNamed(v, j, m)
      /\ Sectors(k.size) = n
  BY <1>2, <1>4 DEF IsoNamed, IsoRow
<1>7. same = IsoNamed(v, j, s)
  <2>1. ASSUME NEW i \in same PROVE Proper(here[i].name)
    <3>1. here[i].name \in DOMAIN CleanName
      BY <1>2, <1>3, IsoRowFacts DEF IsoFinding
    <3>2. CleanName[here[i].name] \in IsoNames
      BY <1>4, <1>5
    <3> QED
      BY <3>1, <3>2, IsoAssumption
  <2> QED
    BY <1>3, <2>1 DEF IsoNamed, IsoRow, Shown
<1>10. /\ s \in Nat /\ n \in Nat /\ s < n
       /\ s + 1 # n => s + 1 \in 0 .. n - 1
       /\ \A m \in 0 .. s : m = s \/ m \in 0 .. s - 1
       /\ (s + 1) - 1 = s
  OBVIOUS
<1>8. CASE \E i \in same : hit = <<here[i]>>
  <2>1. PICK i \in same : hit = <<here[i]>>
    BY <1>8
  <2>2. hit # <<>>
    BY <2>1
  <2>3. k.phase = "done" /\ k.got = <<v.records[k.lba + s][i]>> /\ k.got # <<>>
    BY <1>3, <1>4, <2>1, <2>2
  <2>4. i \in IsoNamed(v, k, s)
    BY <1>6, <1>7
  <2>5. IsoFinding(v, k)
    BY <1>5, <1>6, <2>3, <2>4 DEF IsoFinding
  <2> QED
    BY <1>4, <2>5 DEF IsoJobTrue
<1>9. CASE hit = <<>> /\ (failed \/ same = {})
  <2>1. failed \/ \A m \in 0 .. s : IsoNamed(v, j, m) = {}
    <3>1. failed \/ \A m \in 0 .. s - 1 : IsoNamed(v, j, m) = {}
      BY <1>3 DEF IsoFinding, FindOutcome
    <3>2. failed \/ IsoNamed(v, j, s) = {}
      BY <1>7, <1>9
    <3>3. \A m \in 0 .. s : m = s \/ m \in 0 .. s - 1
      BY <1>10
    <3> QED
      BY <3>1, <3>2, <3>3, Zenon
  <2>2. k.phase = "sector" => Reached(k) /\ (k.failed \/ \A m \in 0 .. k.sec - 1 : IsoNamed(v, k, m) = {})
    <3>1. k.phase = "sector" => Reached(k)
      BY <1>4, <1>6, <1>9, <1>10 DEF Reached
    <3>2. 0 .. k.sec - 1 = 0 .. s
      BY <1>4, <1>10
    <3> QED
      BY <1>4, <1>6, <2>1, <3>1, <3>2, Zenon
  <2>3. k.phase = "done" => k.got = <<>> /\ (k.failed \/ \A m \in 0 .. Sectors(k.size) - 1 : IsoNamed(v, k, m) = {})
    <3>1. k.phase = "done" => k.got = <<>> /\ s + 1 = n
      BY <1>4, <1>9
    <3>2. s + 1 = n => 0 .. Sectors(k.size) - 1 = 0 .. s
      BY <1>6, <1>10
    <3> QED
      BY <1>4, <1>6, <2>1, <3>1, <3>2, Zenon
  <2>4. IsoFinding(v, k)
    BY <1>5, <2>2, <2>3 DEF IsoFinding
  <2> QED
    BY <1>4, <2>4 DEF IsoJobTrue
<1> QED
  BY <1>8, <1>9 DEF FindOutcome

(* The three outcomes of a sector.                                         *)
ScanOf(j, here, shown, indexed, same, k) ==
  \/ /\ j.op = "list"
     /\ IsoScanned(j, k, IF indexed = {} THEN <<>> ELSE <<here[Min(indexed)]>>, j.failed, Cardinality(shown))
  \/ /\ j.op = "find"
     /\ IsoScanned(j, k, IF same = {} THEN <<>> ELSE <<here[Max(same)]>>, j.failed, Cardinality(shown))
  \/ /\ j.op = "find"
     /\ \E i \in (same \cup {0}) \ {Max(same \cup {0})} :
          IsoScanned(j, k, IF i = 0 THEN <<>> ELSE <<here[i]>>, TRUE, Cardinality(shown))

LEMMA ScanKeepsIso ==
  ASSUME IsoInv, IsoScan
  PROVE  IsoInv'
<1>1. PICK j : j = isoJob
  OBVIOUS
<1>2. PICK v \in IsoVolumes : v = isoVol /\ isoVol' = v
  BY DEF IsoInv, IsoScan
<1>3. IsoTyped(j) /\ j.phase = "sector" /\ j.op \in {"list", "find"} /\ IsoJobTrue(v, j)
  BY <1>1, <1>2 DEF IsoInv, IsoJobTrue, IsoScan
<1>4. PICK here : here = v.records[j.lba + j.sec]
  OBVIOUS
<1>5. PICK shown : shown = Shown(here)
  OBVIOUS
<1>6. shown = IsoRow(v, j, j.sec)
  BY <1>4, <1>5 DEF IsoRow
<1>7. OnDisc(v, j) /\ j.sec \in 0 .. Sectors(j.size) - 1
  BY <1>3 DEF IsoJobTrue, IsoListing, IsoFinding, Reached
<1>8. Cardinality(shown) \in Nat
  BY <1>3, <1>6, <1>7, IsoRowFacts, FS_CardinalityType
<1>9. PICK indexed : indexed = {i \in shown : j.seen + Cardinality({h \in shown : h < i}) = j.from}
  OBVIOUS
<1>10. PICK same : same = {i \in DOMAIN here : CleanName[here[i].name] = j.ask}
  OBVIOUS
<1>11. PICK k : k = isoJob'
  OBVIOUS
<1>12. ScanOf(j, here, shown, indexed, same, k)
  <2>1. ScanOf(isoJob, isoVol.records[isoJob.lba + isoJob.sec], Shown(isoVol.records[isoJob.lba + isoJob.sec]),
               {i \in Shown(isoVol.records[isoJob.lba + isoJob.sec]) :
                  isoJob.seen + Cardinality({h \in Shown(isoVol.records[isoJob.lba + isoJob.sec]) : h < i}) = isoJob.from},
               {i \in DOMAIN isoVol.records[isoJob.lba + isoJob.sec] :
                  CleanName[isoVol.records[isoJob.lba + isoJob.sec][i].name] = isoJob.ask},
               isoJob')
    BY DEF IsoScan, ScanOf, IsoScanned
  <2> QED
    BY <1>1, <1>2, <1>4, <1>5, <1>9, <1>10, <1>11, <2>1
<1> SUFFICES IsoJobTrue(v, k)
  BY <1>2, <1>11 DEF IsoInv, IsoScan
<1>13. CASE j.op = "list"
  <2>1. indexed = {i \in shown : j.seen + Cardinality(Lower(shown, i)) = j.from}
    BY <1>9 DEF Lower
  <2>2. IsoListing(v, j)
    BY <1>3, <1>13 DEF IsoJobTrue
  <2>3. IsoScanned(j, k, IF indexed = {} THEN <<>> ELSE <<v.records[j.lba + j.sec][Min(indexed)]>>, j.failed, Cardinality(shown))
    BY <1>4, <1>12, <1>13 DEF ScanOf
  <2> QED
    BY <1>3, <1>6, <1>13, <2>1, <2>2, <2>3, ListKeepsIso
<1>14. CASE j.op = "find"
  <2>1. IsoFinding(v, j)
    BY <1>3, <1>14 DEF IsoJobTrue
  <2>2. j.failed \in BOOLEAN
    BY <1>3 DEF IsoTyped
  <2>3. PICK hit, failed :
          /\ failed \in BOOLEAN /\ IsoScanned(j, k, hit, failed, Cardinality(shown)) /\ (j.failed => failed)
          /\ \/ hit = <<>> /\ (failed \/ same = {})
             \/ \E i \in same : hit = <<here[i]>>
    <3>1. CASE IsoScanned(j, k, IF same = {} THEN <<>> ELSE <<here[Max(same)]>>, j.failed, Cardinality(shown))
      <4>1. CASE same = {}
        BY <2>2, <3>1, <4>1
      <4>2. CASE same # {}
        <5>1. PICK b \in Nat : same \in SUBSET (1 .. b)
          <6>1. here \in Seq(Range(here))
            BY <1>3, <1>4, <1>7, IsoRowFacts
          <6>2. Len(here) \in Nat /\ DOMAIN here = 1 .. Len(here)
            BY <6>1
          <6> QED
            BY <1>10, <6>2
        <5>2. Max(same) \in same
          BY <4>2, <5>1, MaxFacts
        <5> QED
          BY <2>2, <3>1, <4>2, <5>2
      <4> QED
        BY <4>1, <4>2
    <3>2. CASE \E i \in (same \cup {0}) \ {Max(same \cup {0})} :
                 IsoScanned(j, k, IF i = 0 THEN <<>> ELSE <<here[i]>>, TRUE, Cardinality(shown))
      <4>1. PICK i \in same \cup {0} : IsoScanned(j, k, IF i = 0 THEN <<>> ELSE <<here[i]>>, TRUE, Cardinality(shown))
        BY <3>2
      <4>2. CASE i = 0
        BY <4>1, <4>2
      <4>3. CASE i # 0
        BY <4>1, <4>3
      <4> QED
        BY <4>2, <4>3
    <3> QED
      BY <1>12, <1>14, <3>1, <3>2 DEF ScanOf
  <2>4. FindOutcome(j, here, same, hit, failed)
    BY <2>3 DEF FindOutcome
  <2>5. IsoTyped(j) /\ j.phase = "sector" /\ Cardinality(shown) \in Nat
    BY <1>3, <1>8
  <2> QED
    BY <1>3, <1>4, <1>10, <1>14, <2>1, <2>3, <2>4, <2>5, FindKeepsIso
<1> QED
  BY <1>3, <1>13, <1>14

LEMMA IsoGoesOn ==
  ASSUME IsoInv, [IsoNext]_isoVars
  PROVE  IsoInv'
<1>1. isoVol \in IsoVolumes
  BY DEF IsoInv
<1>2. ASSUME NEW r \in Records PROVE r.lba \in Nat /\ r.size \in Nat /\ (r.dir => OnDisc(isoVol, r))
  <2>1. PICK s \in DOMAIN isoVol.records : r \in Range(isoVol.records[s])
    BY DEF Records
  <2> QED
    BY <1>1, <2>1, IsoAssumption DEF Record
<1>3. ASSUME NEW d \in IsoDirs PROVE d.lba \in Nat /\ d.size \in Nat /\ OnDisc(isoVol, d)
  <2>1. CASE d = [lba |-> isoVol.lba, size |-> isoVol.size]
    <3>1. isoVol.lba \in Nat /\ isoVol.size \in Nat /\ OnDisc(isoVol, isoVol)
      BY <1>1, IsoAssumption DEF Descriptor
    <3> QED
      BY <2>1, <3>1 DEF OnDisc
  <2>2. CASE \E r \in {q \in Records : q.dir} : d = [lba |-> r.lba, size |-> r.size]
    <3>1. PICK r \in Records : r.dir /\ d = [lba |-> r.lba, size |-> r.size]
      BY <2>2
    <3> QED
      BY <1>2, <3>1 DEF OnDisc
  <2> QED
    BY <2>1, <2>2 DEF IsoDirs
<1>4. CASE UNCHANGED isoVars
  BY <1>4 DEF isoVars, IsoInv
<1>5. CASE IsoMount
  BY <1>5, MountKeepsIso
<1>6. CASE IsoReadSector
  BY <1>6, ReadSectorKeepsIso
<1>7. CASE IsoFails
  BY <1>7, FailsKeepsIso
<1>8. CASE IsoScan
  BY <1>8, ScanKeepsIso
<1>9. ASSUME NEW f \in {q \in Records : ~q.dir}, NEW r \in IsoReads, IsoRead(f, r) PROVE IsoInv'
  <2>1. f.lba \in Nat /\ f.size \in Nat
    BY <1>2
  <2>2. r.at \in Nat /\ r.len \in Nat
    BY IsoAssumption
  <2>3. r.at < f.size /\ IsoBegin("read", f, r.at, r.len, "")
    BY <1>9 DEF IsoRead
  <2> QED
    BY <2>1, <2>2, <2>3, CallKeepsIso
<1>10. ASSUME NEW d \in IsoDirs, NEW n \in IsoNames, IsoFind(d, n) PROVE IsoInv'
  <2>1. IsoBegin("find", d, 0, 0, n)
    BY <1>10 DEF IsoFind
  <2>2. d.lba \in Nat /\ d.size \in Nat /\ OnDisc(isoVol, d)
    BY <1>3
  <2> QED
    BY <2>1, <2>2, CallKeepsIso
<1>11. ASSUME NEW d \in IsoDirs, NEW i \in 0 .. 3, IsoReaddir(d, i) PROVE IsoInv'
  <2>1. IsoBegin("list", d, i, 0, "")
    BY <1>11 DEF IsoReaddir
  <2>2. d.lba \in Nat /\ d.size \in Nat /\ OnDisc(isoVol, d)
    BY <1>3
  <2>3. i \in Nat
    OBVIOUS
  <2> QED
    BY <2>1, <2>2, <2>3, CallKeepsIso
<1> QED
  BY <1>4, <1>5, <1>6, <1>7, <1>8, <1>9, <1>10, <1>11 DEF IsoNext

LEMMA IsoPromises == IsoInv => IsoTypeOK /\ IsoTrue
<1> SUFFICES ASSUME IsoInv PROVE IsoTypeOK /\ IsoTrue
  OBVIOUS
<1>1. PICK v \in IsoVolumes : v = isoVol
  BY DEF IsoInv
<1>2. PICK j : j = isoJob
  OBVIOUS
<1>3. IsoTyped(j) /\ IsoJobTrue(v, j)
  BY <1>1, <1>2 DEF IsoInv, IsoJobTrue
<1>4. IsoTypeOK
  <2>1. j.left >= 0
    BY <1>3 DEF IsoTyped
  <2>2. isoVol \in IsoVolumes /\ isoRoot \in BOOLEAN
    BY DEF IsoInv
  <2> QED
    BY <1>2, <1>3, <2>1, <2>2 DEF IsoTypeOK, IsoTyped
<1>5. ASSUME j.phase = "done", j.op = "read"
      PROVE  /\ j.got = [i \in 1 .. Len(j.got) |->
                           <<j.lba + ((j.from + i - 1) \div ISOSECTOR), (j.from + i - 1) % ISOSECTOR>>]
             /\ j.left = 0 \/ j.failed
  <2>1. IsoReading(j)
    BY <1>3, <1>5 DEF IsoJobTrue
  <2>2. PICK g \in Seq(Nat \X Nat) : g = j.got
    BY <2>1 DEF IsoReading
  <2>3. \A i \in 1 .. Len(g) : g[i] = <<j.lba + ((j.from + i - 1) \div ISOSECTOR), (j.from + i - 1) % ISOSECTOR>>
    BY <2>1, <2>2 DEF IsoReading, IsoByte
  <2>4. g = [i \in 1 .. Len(g) |-> g[i]]
    BY <2>2
  <2>5. g = [i \in 1 .. Len(g) |-> <<j.lba + ((j.from + i - 1) \div ISOSECTOR), (j.from + i - 1) % ISOSECTOR>>]
    BY <2>3, <2>4
  <2>6. j.left = 0 \/ j.failed
    BY <2>1, <1>5 DEF IsoReading
  <2> QED
    BY <2>2, <2>5, <2>6
<1>6. ASSUME OnDisc(v, j)
      PROVE  /\ Sectors(j.size) \in Nat
             /\ IsoPlaces(j) = PlaceRows(IsoRows(v, j), Sectors(j.size))
             /\ \A k \in 0 .. Sectors(j.size) - 1 : IsoRows(v, j)[k] = IsoRow(v, j, k) /\ IsFiniteSet(IsoRow(v, j, k)) /\ IsoRow(v, j, k) \subseteq Nat
             /\ \A k \in 0 .. Sectors(j.size) - 1 : \A i \in IsoRow(v, j, k) :
                  <<k, i>> \in IsoPlaces(j) /\ IsoAt(j, <<k, i>>) = v.records[j.lba + k][i]
  <2>1. /\ Sectors(j.size) \in Nat
        /\ \A k \in 0 .. Sectors(j.size) - 1 : IsoRows(v, j)[k] = IsoRow(v, j, k) /\ IsFiniteSet(IsoRow(v, j, k)) /\ IsoRow(v, j, k) \subseteq Nat
    BY <1>3, <1>6, IsoRowFacts
  <2>2. IsoPlaces(j) = PlaceRows(IsoRows(v, j), Sectors(j.size))
    BY <1>1, <2>1 DEF IsoPlaces, PlaceRows, IsoRow
  <2>3. \A k \in 0 .. Sectors(j.size) - 1 : \A i \in IsoRow(v, j, k) :
          <<k, i>> \in IsoPlaces(j) /\ IsoAt(j, <<k, i>>) = v.records[j.lba + k][i]
    BY <1>1, <2>1 DEF IsoPlaces, IsoAt, IsoRow
  <2> QED
    BY <2>1, <2>2, <2>3
<1>7. ASSUME j.phase = "done", j.op = "list"
      PROVE  IF j.got # <<>>
             THEN \E p \in IsoPlaces(j) : j.got = <<IsoAt(j, p)>> /\ Cardinality(IsoBefore(j, p)) = j.from
             ELSE j.failed \/ j.from >= Cardinality(IsoPlaces(j))
  <2>1. IsoListing(v, j) /\ OnDisc(v, j)
    BY <1>3, <1>7 DEF IsoJobTrue, IsoListing
  <2>2. CASE j.got = <<>>
    BY <1>6, <1>7, <2>1, <2>2 DEF IsoListing
  <2>3. CASE j.got # <<>>
    <3>1. PICK k \in 0 .. Sectors(j.size) - 1 : \E i \in IsoRow(v, j, k) :
              /\ j.got = <<v.records[j.lba + k][i]>>
              /\ j.from = Cardinality(PlaceRows(IsoRows(v, j), k)) + Cardinality({h \in IsoRow(v, j, k) : h < i})
      BY <1>7, <2>1, <2>3 DEF IsoListing
    <3>2. PICK i \in IsoRow(v, j, k) :
              /\ j.got = <<v.records[j.lba + k][i]>>
              /\ j.from = Cardinality(PlaceRows(IsoRows(v, j), k)) + Cardinality({h \in IsoRow(v, j, k) : h < i})
      BY <3>1
    <3>3. PICK p : p = <<k, i>>
      OBVIOUS
    <3>4. p \in IsoPlaces(j) /\ j.got = <<IsoAt(j, p)>>
      BY <1>6, <2>1, <3>2, <3>3
    <3>5. PICK n \in Nat : n = Sectors(j.size)
      BY <1>6, <2>1
    <3>6. PICK rows : rows = IsoRows(v, j)
      OBVIOUS
    <3>7. PICK before : before = {q \in PlaceRows(rows, n) : q[1] < k \/ (q[1] = k /\ q[2] < i)}
      OBVIOUS
    <3>8. IsoBefore(j, p) = before
      BY <1>6, <2>1, <3>3, <3>5, <3>6, <3>7 DEF IsoBefore
    <3>9. (\A m \in 0 .. n - 1 : IsFiniteSet(rows[m]) /\ rows[m] \subseteq Nat) /\ k \in 0 .. n - 1 /\ i \in rows[k] /\ rows[k] = IsoRow(v, j, k)
      BY <1>6, <2>1, <3>5, <3>6
    <3>10. Cardinality(before) = Cardinality(PlaceRows(rows, k)) + Cardinality({h \in rows[k] : h < i})
      BY <3>7, <3>9, PlacesBefore
    <3>11. Cardinality(IsoBefore(j, p)) = j.from
      BY <3>2, <3>6, <3>8, <3>9, <3>10
    <3> QED
      BY <2>3, <3>4, <3>11
  <2> QED
    BY <2>2, <2>3
<1>8. ASSUME j.phase = "done", j.op = "find", NEW same, same = {p \in IsoPlaces(j) : CleanName[IsoAt(j, p).name] = j.ask}
      PROVE  IF j.got # <<>> THEN \E p \in same : j.got = <<IsoAt(j, p)>> ELSE j.failed \/ same = {}
  <2>1. IsoFinding(v, j) /\ OnDisc(v, j)
    BY <1>3, <1>8 DEF IsoJobTrue, IsoFinding
  <2>2. CASE j.got = <<>>
    <3>1. j.failed \/ \A k \in 0 .. Sectors(j.size) - 1 : IsoNamed(v, j, k) = {}
      BY <1>8, <2>1, <2>2 DEF IsoFinding
    <3>2. ASSUME NEW p \in same PROVE \E k \in 0 .. Sectors(j.size) - 1 : IsoNamed(v, j, k) # {}
      <4>1. p \in IsoPlaces(j) /\ CleanName[IsoAt(j, p).name] = j.ask
        BY <1>8
      <4>2. PICK k \in 0 .. Sectors(j.size) - 1 : p \in {<<k, i>> : i \in Shown(isoVol.records[j.lba + k])}
        BY <4>1 DEF IsoPlaces
      <4>3. PICK i \in IsoRow(v, j, k) : p = <<k, i>>
        BY <1>1, <4>2 DEF IsoRow
      <4>4. i \in IsoNamed(v, j, k)
        BY <1>1, <4>1, <4>3 DEF IsoNamed, IsoAt
      <4> QED
        BY <4>4
    <3> QED
      BY <2>2, <3>1, <3>2
  <2>3. CASE j.got # <<>>
    <3>1. PICK k \in 0 .. Sectors(j.size) - 1 : \E i \in IsoNamed(v, j, k) : j.got = <<v.records[j.lba + k][i]>>
      BY <1>8, <2>1, <2>3 DEF IsoFinding
    <3>2. PICK i \in IsoNamed(v, j, k) : j.got = <<v.records[j.lba + k][i]>>
      BY <3>1
    <3>3. i \in IsoRow(v, j, k) /\ CleanName[v.records[j.lba + k][i].name] = j.ask
      BY <3>2 DEF IsoNamed
    <3>4. PICK p : p = <<k, i>>
      OBVIOUS
    <3>5. p \in IsoPlaces(j) /\ IsoAt(j, p) = v.records[j.lba + k][i]
      BY <1>6, <2>1, <3>3, <3>4
    <3> QED
      BY <1>8, <2>3, <3>2, <3>3, <3>5
  <2> QED
    BY <2>2, <2>3
<1>9. j.phase = "done" => j.op \in {"read", "list", "find"}
  BY <1>3 DEF IsoJobTrue, IsoTyped
<1>10. IsoTrue
  <2> SUFFICES ASSUME j.phase = "done" PROVE IsoTrue
    BY <1>2 DEF IsoTrue
  <2>1. CASE j.op = "read"
    BY <1>2, <1>5, <2>1 DEF IsoTrue
  <2>2. CASE j.op = "list"
    BY <1>2, <1>7, <2>2 DEF IsoTrue
  <2>3. CASE j.op = "find"
    <3>1. PICK same : same = {p \in IsoPlaces(j) : CleanName[IsoAt(j, p).name] = j.ask}
      OBVIOUS
    <3>2. IF j.got # <<>> THEN \E p \in same : j.got = <<IsoAt(j, p)>> ELSE j.failed \/ same = {}
      BY <1>8, <2>3, <3>1
    <3> QED
      BY <1>2, <2>3, <3>1, <3>2 DEF IsoTrue
  <2> QED
    BY <1>9, <2>1, <2>2, <2>3
<1> QED
  BY <1>4, <1>10
-----------------------------------------------------------------------------
(* ext2                                                                    *)

ExtFields == {"phase", "op", "ino", "from", "len", "ask", "slot", "bi", "child", "got", "seen", "failed"}

ExtTyped(j) ==
  /\ DOMAIN j = ExtFields
  /\ j.phase \in {"idle", "root", "inode", "block", "child", "done"} /\ j.op \in {"none", "read", "list", "find"}
  /\ j.from \in Nat /\ j.len \in Nat /\ j.bi \in 0 .. DIRECT /\ j.failed \in BOOLEAN
  /\ j.ino \in Inodes \cup {0}
  /\ j.op = "none" => j.phase \in {"idle", "root"}
  /\ j.phase = "root" => j.slot \in ExtSlotIds
  /\ j.op # "none" => j.phase \notin {"idle", "root"} /\ j.ino \in Inodes
  /\ j.phase \in {"block", "child"} => j.bi \in 0 .. DIRECT - 1
  /\ j.phase = "child" => j.op = "find"
  /\ j.phase = "inode" => j.bi = 0

(* A read: the bytes so far, and that the next one is in the file.         *)
ExtTree          == DIRECT + PTRS + PTRS * PTRS
ExtByte(file, at) == RealBlock(file, at \div BLOCK) * BLOCK + (at % BLOCK)
ExtReading(file, j) ==
  /\ j.got \in Seq(Nat) /\ Len(j.got) <= j.len
  /\ \A i \in 1 .. Len(j.got) :
       (j.from + i - 1) \div BLOCK < ExtTree /\ j.got[i] = ExtByte(file, j.from + i - 1)
  /\ j.phase = "inode" => Len(j.got) = 0
  /\ j.phase = "block" => j.from + j.len <= file.size /\ Len(j.got) < j.len
  /\ j.phase = "done" => Len(j.got) = j.len \/ j.failed

(* A directory: a row of entries for each of its blocks.                   *)
ExtRow(file, k) == IF file.ptr[k + 1] = 0 THEN {} ELSE Used(file.ptr[k + 1])
ExtRows(file)   == [k \in 0 .. DIRECT - 1 |-> ExtRow(file, k)]
ExtAt(file, k, i) == ExtVolume.entries[file.ptr[k + 1]][i]
ExtListing(file, j) ==
  /\ j.phase = "inode" => j.bi = 0 /\ j.seen = 0 /\ j.got = <<>>
  /\ j.phase = "block" =>
       /\ file.ptr[j.bi + 1] # 0 /\ j.got = <<>>
       /\ j.seen = Cardinality(PlaceRows(ExtRows(file), j.bi)) /\ j.seen <= j.from
  /\ j.phase = "done" =>
       IF j.got # <<>>
       THEN \E k \in 0 .. DIRECT - 1 : \E i \in ExtRow(file, k) :
              /\ j.got = <<ExtAt(file, k, i)>>
              /\ j.from = Cardinality(PlaceRows(ExtRows(file), k)) + Cardinality(Lower(ExtRow(file, k), i))
       ELSE j.failed \/ j.from >= Cardinality(PlaceRows(ExtRows(file), DIRECT))

ExtNamed(file, j, k)    == {i \in ExtRow(file, k) : ExtAt(file, k, i).name = j.ask}
ExtNoneBelow(file, j, k) == j.failed \/ \A m \in 0 .. k - 1 : ExtNamed(file, j, m) = {}
ExtFirst(file, j, k, i) ==
  i \in ExtNamed(file, j, k) /\ ExtNoneBelow(file, j, k) /\ (j.failed \/ Lower(ExtNamed(file, j, k), i) = {})
ExtFinding(file, j) ==
  /\ j.phase = "inode" => j.bi = 0 /\ j.got = <<>>
  /\ j.phase = "block" => file.ptr[j.bi + 1] # 0 /\ j.got = <<>> /\ ExtNoneBelow(file, j, j.bi)
  /\ j.phase = "child" =>
       /\ file.ptr[j.bi + 1] # 0 /\ j.got = <<>>
       /\ \E i \in ExtRow(file, j.bi) : ExtFirst(file, j, j.bi, i) /\ j.child = ExtAt(file, j.bi, i).inode
  /\ j.phase = "done" =>
       IF j.got # <<>>
       THEN \E k \in 0 .. DIRECT - 1 : \E i \in ExtRow(file, k) :
              ExtFirst(file, j, k, i) /\ j.got[1].inode = ExtAt(file, k, i).inode
       ELSE ExtNoneBelow(file, j, DIRECT)

ExtJobTrue(j) ==
  /\ ExtTyped(j)
  /\ j.op = "read" => ExtReading(ExtVolume.inodes[j.ino], j)
  /\ j.op = "list" /\ ExtVolume.inodes[j.ino].dir => ExtListing(ExtVolume.inodes[j.ino], j)
  /\ j.op = "find" /\ ExtVolume.inodes[j.ino].dir => ExtFinding(ExtVolume.inodes[j.ino], j)

(* A table of descriptors for each mount in use.                           *)
MountsTrue(m) ==
  /\ m \in [ExtSlotIds -> [used : BOOLEAN, bgdt : BOOLEAN]]
  /\ \A i \in ExtSlotIds : m[i].used <=> m[i].bgdt

ExtInv == MountsTrue(mounts) /\ ExtJobTrue(extJob)

LEMMA ExtIdleTrue == ExtJobTrue(ExtIdle)
<1>1. /\ DOMAIN ExtIdle = ExtFields
      /\ ExtIdle.phase = "idle" /\ ExtIdle.op = "none" /\ ExtIdle.from = 0 /\ ExtIdle.len = 0 /\ ExtIdle.bi = 0
      /\ ExtIdle.failed = FALSE /\ ExtIdle.ino = 0
  BY DEF ExtIdle, ExtFields
<1>2. 0 \in 0 .. DIRECT
  BY ExtAssumption
<1>3. ExtTyped(ExtIdle)
  <2>1. PICK j : j = ExtIdle
    OBVIOUS
  <2>2. j.failed \in BOOLEAN /\ j.ino \in Inodes \cup {0}
    BY <1>1, <2>1, Zenon
  <2>3. j.from \in Nat /\ j.len \in Nat /\ j.bi \in 0 .. DIRECT
    BY <1>1, <1>2, <2>1
  <2>4. DOMAIN j = ExtFields /\ j.phase = "idle" /\ j.op = "none"
    BY <1>1, <2>1
  <2>5. ExtTyped(j)
    BY <2>2, <2>3, <2>4 DEF ExtTyped
  <2> QED
    BY <2>1, <2>5
<1> QED
  BY <1>1, <1>3 DEF ExtJobTrue

LEMMA ExtBegins ==
  ASSUME ExtInit
  PROVE  ExtInv
<1>1. PICK m : m = mounts
  OBVIOUS
<1>2. m = [i \in ExtSlotIds |-> [used |-> FALSE, bgdt |-> FALSE]]
  BY <1>1 DEF ExtInit
<1>3. MountsTrue(m)
  BY <1>2 DEF MountsTrue
<1> QED
  BY <1>1, <1>3, ExtIdleTrue DEF ExtInit, ExtInv

(* Mounts come and go with their tables.                                   *)
LEMMA MountsKept ==
  ASSUME NEW m, MountsTrue(m), NEW i \in ExtSlotIds, NEW b \in BOOLEAN
  PROVE  MountsTrue([m EXCEPT ![i] = [used |-> b, bgdt |-> b]])
<1>1. PICK n : n = [m EXCEPT ![i] = [used |-> b, bgdt |-> b]]
  OBVIOUS
<1>2. [used |-> b, bgdt |-> b] \in [used : BOOLEAN, bgdt : BOOLEAN]
  OBVIOUS
<1>3. n \in [ExtSlotIds -> [used : BOOLEAN, bgdt : BOOLEAN]]
  BY <1>1, <1>2 DEF MountsTrue
<1>4. ASSUME NEW k \in ExtSlotIds PROVE n[k].used <=> n[k].bgdt
  <2>1. CASE k = i
    BY <1>1, <2>1 DEF MountsTrue
  <2>2. CASE k # i
    BY <1>1, <2>2 DEF MountsTrue
  <2> QED
    BY <2>1, <2>2
<1> QED
  BY <1>1, <1>3, <1>4 DEF MountsTrue

(* The rows of a directory; behind its last block they are empty.          *)
LEMMA ExtRowFacts ==
  ASSUME NEW n \in Inodes, NEW file, file = ExtVolume.inodes[n], file.dir
  PROVE  /\ DIRECT \in Nat \ {0}
         /\ \A k \in 0 .. DIRECT - 1 :
              /\ ExtRows(file)[k] = ExtRow(file, k)
              /\ IsFiniteSet(ExtRow(file, k)) /\ ExtRow(file, k) \subseteq Nat
              /\ \E b \in Nat : ExtRow(file, k) \in SUBSET (1 .. b)
              /\ file.ptr[k + 1] = 0 => \A m \in k .. DIRECT - 1 : ExtRow(file, m) = {}
<1>1. DIRECT \in Nat \ {0} /\ Directory(file)
  BY ExtAssumption DEF Inodes
<1>2. ASSUME NEW k \in 0 .. DIRECT - 1
      PROVE  \E b \in Nat : ExtRow(file, k) \in SUBSET (1 .. b)
  <2>1. CASE file.ptr[k + 1] = 0
    BY <2>1 DEF ExtRow
  <2>2. CASE file.ptr[k + 1] # 0
    <3>1. k + 1 \in 1 .. DIRECT
      BY <1>1
    <3>2. PICK b : b = file.ptr[k + 1]
      OBVIOUS
    <3>3. b \in DOMAIN ExtVolume.entries
      BY <1>1, <2>2, <3>1, <3>2 DEF Directory
    <3>4. PICK list : list = ExtVolume.entries[b]
      OBVIOUS
    <3>5. list \in Seq(Range(list))
      BY <3>3, <3>4, ExtAssumption
    <3>6. DOMAIN list = 1 .. Len(list) /\ Len(list) \in Nat
      BY <3>5
    <3>7. ExtRow(file, k) \subseteq DOMAIN list
      BY <2>2, <3>2, <3>4 DEF ExtRow, Used
    <3> QED
      BY <3>6, <3>7
  <2> QED
    BY <2>1, <2>2
<1>3. ASSUME NEW k \in 0 .. DIRECT - 1
      PROVE  /\ ExtRows(file)[k] = ExtRow(file, k)
             /\ IsFiniteSet(ExtRow(file, k)) /\ ExtRow(file, k) \subseteq Nat
  <2>1. PICK b \in Nat : ExtRow(file, k) \in SUBSET (1 .. b)
    BY <1>2
  <2>2. IsFiniteSet(1 .. b)
    BY FS_Interval
  <2>3. IsFiniteSet(ExtRow(file, k))
    BY <2>1, <2>2, FS_Subset
  <2>4. ExtRow(file, k) \subseteq Nat
    BY <2>1
  <2>5. ExtRows(file)[k] = ExtRow(file, k)
    BY DEF ExtRows
  <2> QED
    BY <2>3, <2>4, <2>5
<1>4. ASSUME NEW k \in 0 .. DIRECT - 1, file.ptr[k + 1] = 0, NEW m \in k .. DIRECT - 1
      PROVE  ExtRow(file, m) = {}
  <2>1. k + 1 \in 1 .. DIRECT /\ m + 1 \in k + 1 .. DIRECT
    BY <1>1
  <2>2. file.ptr[m + 1] = 0
    BY <1>1, <1>4, <2>1 DEF Directory
  <2> QED
    BY <2>2 DEF ExtRow
<1> QED
  BY <1>1, <1>2, <1>3, <1>4

(* Rows that are empty add no places.                                      *)
LEMMA EmptyRows ==
  ASSUME NEW rows, NEW m \in Nat, NEW n \in Nat, m <= n, \A k \in m .. n - 1 : rows[k] = {}
  PROVE  PlaceRows(rows, n) = PlaceRows(rows, m)
<1>1. \A k \in 0 .. n - 1 : k \in 0 .. m - 1 \/ rows[k] = {}
  OBVIOUS
<1>2. \A k \in 0 .. m - 1 : k \in 0 .. n - 1
  OBVIOUS
<1>3. \A p : p \in PlaceRows(rows, n) <=> p \in PlaceRows(rows, m)
  BY <1>1, <1>2 DEF PlaceRows
<1> QED
  BY <1>3

LEMMA MountKeepsExt ==
  ASSUME ExtInv, ExtMount \/ ExtRoot \/ ExtRootFails \/ ExtUnmount
  PROVE  ExtInv'
<1>1. PICK m : m = mounts
  OBVIOUS
<1>2. MountsTrue(m)
  BY <1>1 DEF ExtInv
<1>3. CASE ExtMount
  <2>1. PICK i \in ExtSlotIds :
          /\ mounts' = [m EXCEPT ![i] = [used |-> TRUE, bgdt |-> TRUE]]
          /\ extJob' = [ExtIdle EXCEPT !.phase = "root", !.slot = i]
    BY <1>1, <1>3 DEF ExtMount
  <2>2. MountsTrue([m EXCEPT ![i] = [used |-> TRUE, bgdt |-> TRUE]])
    BY <1>2, MountsKept
  <2>3. PICK j : j = ExtIdle
    OBVIOUS
  <2>4. ExtJobTrue(j)
    BY <2>3, ExtIdleTrue
  <2>5. j.op = "none"
    BY <2>3 DEF ExtIdle
  <2>6. PICK k : k = [j EXCEPT !.phase = "root", !.slot = i]
    OBVIOUS
  <2>7. /\ DOMAIN k = ExtFields /\ k.phase = "root" /\ k.slot = i
        /\ k.op = j.op /\ k.from = j.from /\ k.len = j.len /\ k.bi = j.bi /\ k.failed = j.failed /\ k.ino = j.ino
    BY <2>4, <2>6 DEF ExtJobTrue, ExtTyped, ExtFields
  <2>8. ExtTyped(k)
    BY <2>4, <2>5, <2>7 DEF ExtJobTrue, ExtTyped
  <2>9. ExtJobTrue(k)
    BY <2>5, <2>7, <2>8 DEF ExtJobTrue
  <2> QED
    BY <2>1, <2>2, <2>3, <2>6, <2>9 DEF ExtInv
<1>4. CASE ExtRoot
  BY <1>4, ExtIdleTrue DEF ExtInv, ExtRoot
<1>5. CASE ExtRootFails
  <2>1. PICK s : s = extJob.slot
    OBVIOUS
  <2>2. s \in ExtSlotIds
    BY <1>5, <2>1 DEF ExtRootFails, ExtInv, ExtJobTrue, ExtTyped
  <2>3. MountsTrue([m EXCEPT ![s] = [used |-> FALSE, bgdt |-> FALSE]])
    BY <1>2, <2>2, MountsKept
  <2> QED
    BY <1>1, <1>5, <2>1, <2>3, ExtIdleTrue DEF ExtInv, ExtRootFails
<1>6. CASE ExtUnmount
  <2>1. PICK i \in ExtSlotIds : mounts' = [m EXCEPT ![i] = [used |-> FALSE, bgdt |-> FALSE]] /\ extJob' = extJob
    BY <1>1, <1>6 DEF ExtUnmount
  <2>2. MountsTrue([m EXCEPT ![i] = [used |-> FALSE, bgdt |-> FALSE]])
    BY <1>2, MountsKept
  <2> QED
    BY <2>1, <2>2 DEF ExtInv
<1> QED
  BY <1>3, <1>4, <1>5, <1>6

LEMMA CallKeepsExt ==
  ASSUME ExtInv, NEW op \in {"read", "list", "find"}, NEW ino \in Inodes, NEW from \in Nat, NEW len \in Nat, NEW ask,
         ExtBegin(op, ino, from, len, ask)
  PROVE  ExtInv'
<1>1. PICK i : i = ExtIdle
  OBVIOUS
<1>2. DOMAIN i = ExtFields /\ i.bi = 0 /\ i.got = <<>> /\ i.seen = 0 /\ i.failed = FALSE
  BY <1>1 DEF ExtIdle, ExtFields
<1>3. PICK j : j = [i EXCEPT !.phase = "inode", !.op = op, !.ino = ino, !.from = from, !.len = len, !.ask = ask]
  OBVIOUS
<1>4. /\ DOMAIN j = ExtFields /\ j.phase = "inode" /\ j.op = op /\ j.ino = ino /\ j.from = from /\ j.len = len
      /\ j.bi = 0 /\ j.got = <<>> /\ j.seen = 0 /\ j.failed = FALSE
  BY <1>2, <1>3 DEF ExtFields
<1>5. ExtTyped(j)
  <2>1. j.failed \in BOOLEAN /\ j.ino \in Inodes \cup {0} /\ j.ino \in Inodes
    BY <1>4, Zenon
  <2>2. j.from \in Nat /\ j.len \in Nat /\ j.bi \in 0 .. DIRECT /\ j.bi = 0
    BY <1>4, ExtAssumption
  <2>3. DOMAIN j = ExtFields /\ j.phase = "inode" /\ j.op \in {"read", "list", "find"}
    BY <1>4
  <2> QED
    BY <2>1, <2>2, <2>3 DEF ExtTyped
<1>6. ExtReading(ExtVolume.inodes[ino], j)
  <2>1. j.got \in Seq(Nat) /\ Len(j.got) = 0 /\ j.len \in Nat
    BY <1>4
  <2> QED
    BY <1>4, <2>1 DEF ExtReading
<1>7. ExtListing(ExtVolume.inodes[ino], j) /\ ExtFinding(ExtVolume.inodes[ino], j)
  BY <1>4 DEF ExtListing, ExtFinding
<1>8. ExtJobTrue(j)
  BY <1>4, <1>5, <1>6, <1>7 DEF ExtJobTrue
<1> QED
  BY <1>1, <1>3, <1>8 DEF ExtInv, ExtBegin

LEMMA FailsKeepsExt ==
  ASSUME ExtInv, ExtFails
  PROVE  ExtInv'
<1>1. PICK j : j = extJob
  OBVIOUS
<1>2. PICK k : k = [j EXCEPT !.phase = "done", !.failed = TRUE]
  OBVIOUS
<1>3. ExtTyped(j) /\ j.phase \in {"inode", "block"} /\ ExtJobTrue(j)
  BY <1>1 DEF ExtInv, ExtJobTrue, ExtFails
<1>4. /\ DOMAIN k = ExtFields /\ k.phase = "done" /\ k.failed = TRUE
      /\ k.op = j.op /\ k.ino = j.ino /\ k.from = j.from /\ k.len = j.len /\ k.bi = j.bi /\ k.got = j.got
      /\ k.seen = j.seen /\ k.ask = j.ask
  BY <1>2, <1>3 DEF ExtTyped, ExtFields
<1>5. ExtTyped(k)
  BY <1>3, <1>4 DEF ExtTyped
<1>6. PICK file : file = ExtVolume.inodes[j.ino]
  OBVIOUS
<1>7. k.op = "read" => ExtReading(file, k)
  BY <1>3, <1>4, <1>6 DEF ExtJobTrue, ExtReading
<1>8. k.op = "list" /\ file.dir => ExtListing(file, k)
  BY <1>3, <1>4, <1>6 DEF ExtJobTrue, ExtListing
<1>9. k.op = "find" /\ file.dir => ExtFinding(file, k)
  <2>1. k.op = "find" /\ file.dir => k.got = <<>>
    BY <1>3, <1>4, <1>6 DEF ExtJobTrue, ExtFinding
  <2> QED
    BY <1>4, <2>1 DEF ExtFinding, ExtNoneBelow
<1>10. ExtJobTrue(k)
  BY <1>4, <1>5, <1>6, <1>7, <1>8, <1>9 DEF ExtJobTrue
<1> QED
  BY <1>1, <1>2, <1>10 DEF ExtInv, ExtFails

LEMMA InodeKeepsExt ==
  ASSUME ExtInv, ExtInode
  PROVE  ExtInv'
<1>1. PICK j : j = extJob
  OBVIOUS
<1>2. ExtTyped(j) /\ j.phase = "inode" /\ j.op # "none" /\ ExtJobTrue(j)
  BY <1>1 DEF ExtInv, ExtJobTrue, ExtTyped, ExtInode
<1>3. PICK n \in Inodes : n = j.ino
  BY <1>2 DEF ExtTyped
<1>4. PICK file : file = ExtVolume.inodes[n]
  OBVIOUS
<1>5. PICK from, len, size \in Nat : from = j.from /\ len = j.len /\ size = file.size
  BY <1>2, <1>4, ExtAssumption DEF ExtTyped, InodeRecord, Inodes
<1>6. PICK clipped : clipped = IF from >= size THEN 0 ELSE IF from + len > size THEN size - from ELSE len
  OBVIOUS
<1>7. clipped \in Nat /\ (clipped # 0 => from + clipped <= size)
  BY <1>6
<1>8. PICK nothing \in BOOLEAN :
         nothing <=> IF j.op = "read" THEN clipped = 0 ELSE (j.op = "list" /\ ~file.dir) \/ file.ptr[1] = 0
  OBVIOUS
<1>9. PICK k : k = [j EXCEPT !.len = IF j.op = "read" THEN clipped ELSE 0, !.phase = IF nothing THEN "done" ELSE "block"]
  OBVIOUS
<1>10. extJob' = k /\ mounts' = mounts
  BY <1>1, <1>3, <1>4, <1>5, <1>6, <1>8, <1>9 DEF ExtInode, Inode
<1>11. /\ DOMAIN k = ExtFields /\ k.phase = (IF nothing THEN "done" ELSE "block") /\ k.failed = j.failed
       /\ k.len = (IF j.op = "read" THEN clipped ELSE 0)
       /\ k.op = j.op /\ k.ino = j.ino /\ k.from = from /\ k.bi = j.bi /\ k.got = j.got
       /\ k.seen = j.seen /\ k.ask = j.ask
  BY <1>2, <1>5, <1>9 DEF ExtTyped, ExtFields
<1>12. 0 \in 0 .. DIRECT - 1
  BY ExtAssumption
<1>13. ExtTyped(k)
  <2>1. k.len \in Nat
    BY <1>7, <1>11
  <2>2. k.phase \in {"done", "block"}
    BY <1>11
  <2> QED
    BY <1>2, <1>11, <1>12, <2>1, <2>2 DEF ExtTyped
<1>14. k.op = "read" => ExtReading(file, k)
  <2> SUFFICES ASSUME k.op = "read" PROVE ExtReading(file, k)
    OBVIOUS
  <2>1. ExtReading(file, j)
    BY <1>2, <1>3, <1>4, <1>11 DEF ExtJobTrue
  <2>2. k.got \in Seq(Nat) /\ Len(k.got) = 0
    BY <1>2, <1>11, <2>1 DEF ExtReading
  <2>3. k.len = clipped /\ (k.phase = "done" <=> clipped = 0) /\ k.phase \in {"done", "block"}
    BY <1>8, <1>11
  <2>4. k.phase = "block" => k.from + k.len <= file.size /\ Len(k.got) < k.len
    BY <1>5, <1>7, <1>11, <2>2, <2>3
  <2>5. \A i \in 1 .. Len(k.got) : FALSE
    BY <2>2
  <2> QED
    BY <1>7, <2>2, <2>3, <2>4, <2>5 DEF ExtReading
<1>15. /\ PlaceRows(ExtRows(file), 0) = {} /\ Cardinality({}) = 0
  BY FS_EmptySet DEF PlaceRows
<1>16. ASSUME file.dir, file.ptr[1] = 0
       PROVE  /\ \A m \in 0 .. DIRECT - 1 : ExtRow(file, m) = {}
              /\ Cardinality(PlaceRows(ExtRows(file), DIRECT)) = 0
  <2>1. \A m \in 0 .. DIRECT - 1 : ExtRow(file, m) = {} /\ ExtRows(file)[m] = ExtRow(file, m)
    <3>1. \A m \in 0 .. DIRECT - 1 :
            /\ ExtRows(file)[m] = ExtRow(file, m)
            /\ file.ptr[m + 1] = 0 => \A l \in m .. DIRECT - 1 : ExtRow(file, l) = {}
      BY <1>3, <1>4, <1>16, ExtRowFacts, ZenonT(30)
    <3>2. file.ptr[0 + 1] = 0
      BY <1>16
    <3>3. \A l \in 0 .. DIRECT - 1 : ExtRow(file, l) = {}
      BY <1>12, <3>1, <3>2
    <3> QED
      BY <3>1, <3>3
  <2>2. \A p : p \notin PlaceRows(ExtRows(file), DIRECT)
    BY <2>1 DEF PlaceRows
  <2>3. PlaceRows(ExtRows(file), DIRECT) = {}
    BY <2>2
  <2> QED
    BY <2>1, <2>3, <1>15
<1>17. k.op = "list" /\ file.dir => ExtListing(file, k)
  <2> SUFFICES ASSUME k.op = "list", file.dir PROVE ExtListing(file, k)
    OBVIOUS
  <2>1. j.bi = 0 /\ j.seen = 0 /\ j.got = <<>>
    BY <1>2, <1>3, <1>4, <1>11 DEF ExtJobTrue, ExtListing
  <2>2. nothing <=> file.ptr[1] = 0
    BY <1>8, <1>11
  <2>3. k.phase = "block" => file.ptr[k.bi + 1] # 0
    BY <1>11, <2>1, <2>2
  <2>4. k.phase = "block" => k.got = <<>> /\ k.seen = Cardinality(PlaceRows(ExtRows(file), k.bi)) /\ k.seen <= k.from
    <3>1. k.got = <<>> /\ k.seen = 0 /\ k.bi = 0 /\ k.from \in Nat
      BY <1>11, <2>1
    <3>2. Cardinality(PlaceRows(ExtRows(file), k.bi)) = 0
      BY <1>15, <3>1
    <3> QED
      BY <3>1, <3>2
  <2>5. k.phase = "done" => k.got = <<>> /\ k.from >= Cardinality(PlaceRows(ExtRows(file), DIRECT))
    BY <1>11, <1>16, <2>1, <2>2
  <2> QED
    BY <1>11, <2>3, <2>4, <2>5 DEF ExtListing
<1>18. k.op = "find" /\ file.dir => ExtFinding(file, k)
  <2> SUFFICES ASSUME k.op = "find", file.dir PROVE ExtFinding(file, k)
    OBVIOUS
  <2>1. j.bi = 0 /\ j.got = <<>>
    BY <1>2, <1>3, <1>4, <1>11 DEF ExtJobTrue, ExtFinding
  <2>2. nothing <=> file.ptr[1] = 0
    BY <1>8, <1>11
  <2>3. k.phase = "block" => file.ptr[k.bi + 1] # 0 /\ k.got = <<>> /\ ExtNoneBelow(file, k, k.bi)
    BY <1>11, <2>1, <2>2 DEF ExtNoneBelow
  <2>4. k.phase = "done" => k.got = <<>> /\ ExtNoneBelow(file, k, DIRECT)
    <3> SUFFICES ASSUME file.ptr[1] = 0 PROVE k.got = <<>> /\ \A m \in 0 .. DIRECT - 1 : ExtNamed(file, k, m) = {}
      BY <1>11, <2>2 DEF ExtNoneBelow
    <3> QED
      BY <1>11, <1>16, <2>1 DEF ExtNamed
  <2> QED
    BY <1>11, <2>3, <2>4 DEF ExtFinding
<1>19. ExtJobTrue(k)
  BY <1>3, <1>4, <1>11, <1>13, <1>14, <1>17, <1>18 DEF ExtJobTrue
<1> QED
  BY <1>10, <1>19 DEF ExtInv

LEMMA ReadBlockKeepsExt ==
  ASSUME ExtInv, ExtReadBlock
  PROVE  ExtInv'
<1>1. PICK j : j = extJob
  OBVIOUS
<1>2. ExtTyped(j) /\ j.phase = "block" /\ j.op = "read" /\ ExtJobTrue(j)
  BY <1>1 DEF ExtInv, ExtJobTrue, ExtTyped, ExtReadBlock
<1>3. PICK n \in Inodes : n = j.ino
  BY <1>2 DEF ExtTyped
<1>4. PICK file : file = ExtVolume.inodes[n]
  OBVIOUS
<1>5. PICK from, len, size \in Nat : from = j.from /\ len = j.len /\ size = file.size
  BY <1>2, <1>4, ExtAssumption DEF ExtTyped, InodeRecord, Inodes
<1>6. ExtReading(file, j)
  BY <1>2, <1>3, <1>4 DEF ExtJobTrue
<1>7. PICK g \in Seq(Nat) : g = j.got
  BY <1>6 DEF ExtReading
<1>8. PICK c \in Nat : c = Len(g) /\ c < len /\ from + len <= size
  BY <1>2, <1>5, <1>6, <1>7 DEF ExtReading
<1>9. PICK B \in Nat \ {0} : B = BLOCK
  BY ExtAssumption DEF Superblock
<1>10. PICK off \in Nat : off = from + c
  OBVIOUS
<1>11. PICK q \in Nat, r \in 0 .. B - 1 : q = off \div B /\ r = off % B /\ off = B * q + r
  <2>1. off \div B \in Nat /\ off % B \in 0 .. B - 1 /\ off = B * (off \div B) + (off % B)
    OBVIOUS
  <2> QED
    BY <2>1
<1>12. PICK real : real = RealBlock(file, q)
  OBVIOUS
<1>13. PICK count : count = Min({B - r, len - c})
  OBVIOUS
<1>14. count \in Nat /\ count <= B - r /\ count <= len - c /\ count > 0 /\ (count = len - c \/ count = B - r)
  <2>1. {B - r, len - c} \subseteq Nat /\ {B - r, len - c} # {}
    BY <1>8
  <2>2. count \in {B - r, len - c} /\ \A y \in {B - r, len - c} : count <= y
    BY <1>13, <2>1, MinFacts
  <2> QED
    BY <1>8, <2>2
<1>15. PICK more : more = [i \in 1 .. count |-> BlockAt(real) + r + i - 1]
  OBVIOUS
<1>16. PICK k : k = [j EXCEPT !.got = g \o more, !.phase = IF c + count = len THEN "done" ELSE "block"]
  OBVIOUS
<1>17. real # -1 /\ extJob' = k /\ mounts' = mounts
  BY <1>1, <1>3, <1>4, <1>5, <1>7, <1>8, <1>9, <1>10, <1>11, <1>12, <1>13, <1>15, <1>16 DEF ExtReadBlock, Inode
<1>18. q < ExtTree
  <2>1. DIRECT \in Nat /\ PTRS \in Nat
    BY ExtAssumption
  <2> QED
    BY <1>12, <1>17, <2>1 DEF RealBlock, ExtTree
<1>19. real \in Nat /\ (real + 1) * B <= OFFSETS
  <2>1. off \in 0 .. size - 1
    BY <1>8, <1>10
  <2>2. OnDrive(file)
    BY <1>4, ExtAssumption DEF Inodes
  <2> QED
    BY <1>5, <1>9, <1>11, <1>12, <1>17, <2>1, <2>2 DEF OnDrive
<1>20. BlockAt(real) = real * B
  <2>1. PICK x \in Nat : x = real * B
    BY <1>19
  <2>2. (real + 1) * B = x + B
    BY <1>19, <2>1
  <2>3. x < OFFSETS /\ OFFSETS \in Nat
    BY <1>19, <2>2, ExtAssumption
  <2>4. x % OFFSETS = x
    BY <2>3
  <2> QED
    BY <1>9, <2>1, <2>4 DEF BlockAt
<1>21. PICK base \in Nat : base = real * B
  BY <1>19
<1>22. more \in Seq(Nat) /\ Len(more) = count
  <2>1. \A i \in 1 .. count : BlockAt(real) + r + i - 1 \in Nat
    BY <1>14, <1>20, <1>21
  <2> QED
    BY <1>14, <1>15, <2>1
<1>23. PICK h : h = g \o more
  OBVIOUS
<1>24. /\ h \in Seq(Nat) /\ Len(h) = c + count
       /\ \A i \in 1 .. c + count : h[i] = IF i <= c THEN g[i] ELSE more[i - c]
  BY <1>8, <1>22, <1>23, ConcatProperties
<1>25. StaysIn(B, off, q, r, count)
  <2>1. StartsIn(B, off, q, r)
    BY <1>11 DEF StartsIn
  <2> QED
    BY <1>14, <2>1, SectorBytes
<1>26. ASSUME NEW i \in 1 .. c + count
       PROVE  (from + i - 1) \div B < ExtTree /\ h[i] = RealBlock(file, (from + i - 1) \div B) * B + ((from + i - 1) % B)
  <2>1. CASE i <= c
    <3>1. i \in 1 .. Len(j.got)
      BY <1>7, <1>8, <2>1
    <3>2. (j.from + i - 1) \div BLOCK < ExtTree /\ j.got[i] = ExtByte(file, j.from + i - 1)
      BY <1>6, <3>1 DEF ExtReading
    <3>3. h[i] = j.got[i]
      BY <1>7, <1>24, <2>1
    <3> QED
      BY <1>5, <1>9, <3>2, <3>3 DEF ExtByte
  <2>2. CASE i > c
    <3>1. PICK m \in 0 .. count - 1 : m = i - c - 1
      BY <1>14, <2>2
    <3>2. h[i] = more[m + 1]
      BY <1>24, <2>2, <3>1
    <3>3. more[m + 1] = base + r + m
      BY <1>14, <1>15, <1>20, <1>21, <3>1
    <3>4. from + i - 1 = off + m
      BY <1>10, <3>1
    <3>5. (off + m) \div B = q /\ (off + m) % B = r + m
      BY <1>25 DEF StaysIn
    <3>6. base + r + m = base + (r + m)
      BY <3>1
    <3> QED
      BY <1>12, <1>18, <1>21, <3>2, <3>3, <3>4, <3>5, <3>6
  <2> QED
    BY <2>1, <2>2
<1>27. /\ DOMAIN k = ExtFields /\ k.phase = (IF c + count = len THEN "done" ELSE "block") /\ k.failed = j.failed
       /\ k.len = len /\ k.op = "read" /\ k.ino = n /\ k.from = from /\ k.bi = j.bi /\ k.got = h
  BY <1>2, <1>3, <1>5, <1>16, <1>23 DEF ExtTyped, ExtFields
<1>28. ExtTyped(k)
  <2>1. k.phase \in {"done", "block"}
    BY <1>27
  <2> QED
    BY <1>2, <1>27, <2>1 DEF ExtTyped
<1>29. ExtReading(file, k)
  <2>1. k.got \in Seq(Nat) /\ Len(k.got) = c + count /\ Len(k.got) <= k.len
    BY <1>8, <1>14, <1>24, <1>27
  <2>2. \A i \in 1 .. Len(k.got) : (k.from + i - 1) \div BLOCK < ExtTree /\ k.got[i] = ExtByte(file, k.from + i - 1)
    BY <1>9, <1>24, <1>26, <1>27 DEF ExtByte
  <2>3. k.phase = "block" => k.from + k.len <= file.size /\ Len(k.got) < k.len
    BY <1>5, <1>8, <1>14, <1>27, <2>1
  <2>4. k.phase = "done" => Len(k.got) = k.len
    BY <1>27, <2>1
  <2>5. k.phase \in {"done", "block"}
    BY <1>27
  <2> QED
    BY <2>1, <2>2, <2>3, <2>4, <2>5 DEF ExtReading
<1>30. ExtJobTrue(k)
  BY <1>4, <1>27, <1>28, <1>29 DEF ExtJobTrue
<1> QED
  BY <1>17, <1>30 DEF ExtInv

(* The next block of a directory, and where there is none the end.         *)
AfterBlock(file, job) == [job EXCEPT !.bi = @ + 1,
  !.phase = IF job.bi + 1 = DIRECT \/ file.ptr[job.bi + 2] = 0 THEN "done" ELSE "block"]

LEMMA AfterBlockFields ==
  ASSUME NEW file, NEW j, ExtTyped(j), j.op # "none", j.bi \in 0 .. DIRECT - 1, NEW k, k = AfterBlock(file, j)
  PROVE  /\ ExtTyped(k) /\ k.bi = j.bi + 1
         /\ k.op = j.op /\ k.ino = j.ino /\ k.from = j.from /\ k.got = j.got /\ k.seen = j.seen
         /\ k.ask = j.ask /\ k.failed = j.failed
         /\ k.phase \in {"block", "done"}
         /\ k.phase = "block" => k.bi \in 0 .. DIRECT - 1 /\ file.ptr[k.bi + 1] # 0
         /\ k.phase = "done" => k.bi = DIRECT \/ (k.bi \in 0 .. DIRECT - 1 /\ file.ptr[k.bi + 1] = 0)
<1>1. DIRECT \in Nat \ {0}
  BY ExtAssumption
<1>2. PICK b \in 0 .. DIRECT - 1 : b = j.bi
  OBVIOUS
<1>3. /\ DOMAIN k = ExtFields /\ k.bi = b + 1 /\ k.len = j.len /\ k.slot = j.slot
      /\ k.op = j.op /\ k.ino = j.ino /\ k.from = j.from /\ k.got = j.got /\ k.seen = j.seen
      /\ k.ask = j.ask /\ k.failed = j.failed
      /\ k.phase = IF b + 1 = DIRECT \/ file.ptr[b + 2] = 0 THEN "done" ELSE "block"
  BY <1>2 DEF ExtTyped, ExtFields, AfterBlock
<1>4. (b + 1) + 1 = b + 2 /\ b + 1 \in 0 .. DIRECT /\ (b + 1 # DIRECT => b + 1 \in 0 .. DIRECT - 1)
  BY <1>1
<1>5. k.phase \in {"block", "done"}
  BY <1>3
<1>6. k.phase = "block" => k.bi \in 0 .. DIRECT - 1 /\ file.ptr[k.bi + 1] # 0
  BY <1>3, <1>4
<1>7. k.phase = "done" => k.bi = DIRECT \/ (k.bi \in 0 .. DIRECT - 1 /\ file.ptr[k.bi + 1] = 0)
  BY <1>3, <1>4
<1>8. ExtTyped(k)
  BY <1>3, <1>4, <1>5, <1>6 DEF ExtTyped
<1> QED
  BY <1>2, <1>3, <1>5, <1>6, <1>7, <1>8

(* What a search that ends behind a block has passed are all the rows.     *)
LEMMA ExtRowsEnd ==
  ASSUME NEW n \in Inodes, NEW file, file = ExtVolume.inodes[n], file.dir, NEW b \in 0 .. DIRECT,
         b = DIRECT \/ (b \in 0 .. DIRECT - 1 /\ file.ptr[b + 1] = 0)
  PROVE  /\ \A m \in b .. DIRECT - 1 : ExtRow(file, m) = {}
         /\ PlaceRows(ExtRows(file), DIRECT) = PlaceRows(ExtRows(file), b)
<1>1. /\ DIRECT \in Nat
      /\ \A k \in 0 .. DIRECT - 1 :
           /\ ExtRows(file)[k] = ExtRow(file, k)
           /\ file.ptr[k + 1] = 0 => \A m \in k .. DIRECT - 1 : ExtRow(file, m) = {}
  BY ExtRowFacts, ZenonT(30)
<1>2. \A m \in b .. DIRECT - 1 : ExtRow(file, m) = {}
  <2>1. CASE b = DIRECT
    <3>1. b .. DIRECT - 1 = {}
      BY <1>1, <2>1
    <3> QED
      BY <3>1, Zenon
  <2>2. CASE b \in 0 .. DIRECT - 1 /\ file.ptr[b + 1] = 0
    BY <1>1, <2>2, Zenon
  <2> QED
    BY <2>1, <2>2, Zenon
<1>3. \A m \in b .. DIRECT - 1 : ExtRows(file)[m] = {}
  BY <1>1, <1>2
<1>4. b \in Nat /\ b <= DIRECT
  BY <1>1
<1>5. PICK rows : rows = ExtRows(file)
  OBVIOUS
<1>6. PlaceRows(rows, DIRECT) = PlaceRows(rows, b)
  BY <1>1, <1>3, <1>4, <1>5, EmptyRows
<1> QED
  BY <1>2, <1>5, <1>6

LEMMA ExtListNext ==
  ASSUME NEW n \in Inodes, NEW file, file = ExtVolume.inodes[n], file.dir,
         NEW j, ExtTyped(j), j.phase = "block", j.op = "list", ExtListing(file, j),
         NEW used, used = ExtRow(file, j.bi),
         {i \in used : j.seen + Cardinality(Lower(used, i)) = j.from} = {},
         NEW k, ExtTyped(k), k.bi = j.bi + 1, k.op = j.op, k.from = j.from, k.got = j.got, k.seen = j.seen + Cardinality(used),
         k.phase \in {"block", "done"},
         k.phase = "block" => k.bi \in 0 .. DIRECT - 1 /\ file.ptr[k.bi + 1] # 0,
         k.phase = "done" => k.bi = DIRECT \/ (k.bi \in 0 .. DIRECT - 1 /\ file.ptr[k.bi + 1] = 0)
  PROVE  ExtListing(file, k)
<1>1. DIRECT \in Nat \ {0}
  BY ExtAssumption
<1>2. PICK b \in 0 .. DIRECT - 1 : b = j.bi
  BY DEF ExtTyped
<1>3. PICK rows : rows = ExtRows(file)
  OBVIOUS
<1>4. \A m \in 0 .. DIRECT - 1 : rows[m] = ExtRow(file, m) /\ IsFiniteSet(rows[m])
  BY <1>3, ExtRowFacts
<1>5. PICK t \in Nat : used \in SUBSET (1 .. t)
  BY <1>2, ExtRowFacts
<1>6. PICK c \in Nat : c = Cardinality(used)
  BY <1>2, <1>4, FS_CardinalityType
<1>7. PICK before \in Nat : before = Cardinality(PlaceRows(rows, b)) /\ Cardinality(PlaceRows(rows, b + 1)) = before + c
  <2>1. \A m \in 0 .. DIRECT - 1 : IsFiniteSet(rows[m])
    BY <1>4
  <2>2. /\ Cardinality(PlaceRows(rows, b)) \in Nat
        /\ Cardinality(PlaceRows(rows, b + 1)) = Cardinality(PlaceRows(rows, b)) + Cardinality(rows[b])
    BY <1>1, <2>1, RowsCount
  <2>3. rows[b] = used
    BY <1>2, <1>4
  <2> QED
    BY <2>2, <2>3, <1>6
<1>8. PICK from \in Nat : from = j.from
  BY DEF ExtTyped
<1>9. j.seen = before /\ before <= from /\ j.got = <<>>
  BY <1>2, <1>3, <1>7, <1>8 DEF ExtListing
<1>10. before + c <= from
  <2> SUFFICES ASSUME from < before + c PROVE FALSE
    OBVIOUS
  <2>1. PICK m \in 0 .. c - 1 : m = from - before
    BY <1>9
  <2>4. PICK i \in used : Cardinality(Lower(used, i)) = m
    <3>1. Ranks(used, c)
      BY <1>5, <1>6, Ranked
    <3> QED
      BY <3>1 DEF Ranks
  <2>5. j.seen + Cardinality(Lower(used, i)) = j.from
    BY <1>8, <1>9, <2>1, <2>4
  <2> QED
    BY <2>5
<1>11. k.bi = b + 1 /\ k.from = from /\ k.got = <<>> /\ k.seen = before + c
  BY <1>2, <1>6, <1>8, <1>9
<1>12. k.phase = "block" =>
         /\ file.ptr[k.bi + 1] # 0 /\ k.got = <<>>
         /\ k.seen = Cardinality(PlaceRows(ExtRows(file), k.bi)) /\ k.seen <= k.from
  BY <1>3, <1>7, <1>10, <1>11
<1>13. k.phase = "done" => k.got = <<>> /\ k.from >= Cardinality(PlaceRows(ExtRows(file), DIRECT))
  <2> SUFFICES ASSUME k.phase = "done" PROVE k.from >= Cardinality(PlaceRows(ExtRows(file), DIRECT))
    BY <1>11
  <2>1. PICK e \in 0 .. DIRECT : e = k.bi
    BY DEF ExtTyped
  <2>2. PlaceRows(ExtRows(file), DIRECT) = PlaceRows(ExtRows(file), e)
    BY <2>1, ExtRowsEnd
  <2> QED
    BY <1>3, <1>7, <1>10, <1>11, <2>1, <2>2
<1> QED
  BY <1>12, <1>13 DEF ExtListing

LEMMA ExtFindNext ==
  ASSUME NEW n \in Inodes, NEW file, file = ExtVolume.inodes[n], file.dir,
         NEW j, j.bi \in 0 .. DIRECT - 1, j.got = <<>>, ExtNoneBelow(file, j, j.bi),
         NEW k, ExtTyped(k), k.bi = j.bi + 1, k.ask = j.ask, k.got = j.got, j.failed => k.failed,
         k.failed \/ ExtNamed(file, j, j.bi) = {},
         k.phase \in {"block", "done"},
         k.phase = "block" => k.bi \in 0 .. DIRECT - 1 /\ file.ptr[k.bi + 1] # 0,
         k.phase = "done" => k.bi = DIRECT \/ (k.bi \in 0 .. DIRECT - 1 /\ file.ptr[k.bi + 1] = 0)
  PROVE  ExtFinding(file, k)
<1>1. PICK b \in 0 .. DIRECT - 1 : b = j.bi
  OBVIOUS
<1>2. \A m : ExtNamed(file, k, m) = ExtNamed(file, j, m)
  BY DEF ExtNamed
<1>3. k.failed \/ \A m \in 0 .. b : ExtNamed(file, k, m) = {}
  <2> SUFFICES ASSUME ~k.failed, NEW m \in 0 .. b PROVE ExtNamed(file, j, m) = {}
    BY <1>2
  <2>1. m \in 0 .. b - 1 \/ m = b
    OBVIOUS
  <2> QED
    BY <1>1, <2>1 DEF ExtNoneBelow
<1>4. ExtNoneBelow(file, k, k.bi)
  <2>1. k.bi = b + 1
    BY <1>1
  <2>2. 0 .. (b + 1) - 1 = 0 .. b
    OBVIOUS
  <2> QED
    BY <1>3, <2>1, <2>2 DEF ExtNoneBelow
<1>5. k.phase = "done" => ExtNoneBelow(file, k, DIRECT)
  <2> SUFFICES ASSUME k.phase = "done", ~k.failed PROVE \A m \in 0 .. DIRECT - 1 : ExtNamed(file, k, m) = {}
    BY DEF ExtNoneBelow
  <2>1. PICK e \in 0 .. DIRECT : e = k.bi
    BY DEF ExtTyped
  <2>2. \A m \in e .. DIRECT - 1 : ExtRow(file, m) = {}
    BY <2>1, ExtRowsEnd
  <2>3. \A m \in e .. DIRECT - 1 : ExtNamed(file, k, m) = {}
    BY <2>2 DEF ExtNamed
  <2>4. \A m \in 0 .. e - 1 : ExtNamed(file, k, m) = {}
    BY <1>4, <2>1 DEF ExtNoneBelow
  <2>5. \A m \in 0 .. DIRECT - 1 : m \in 0 .. e - 1 \/ m \in e .. DIRECT - 1
    OBVIOUS
  <2> QED
    BY <2>3, <2>4, <2>5
<1> QED
  BY <1>4, <1>5 DEF ExtFinding

(* The outcomes of a block of a directory.                                 *)
ExtScanOf(file, j, here, used, hits, k) ==
  k = IF hits = {} THEN AfterBlock(file, [j EXCEPT !.seen = j.seen + Cardinality(used)])
      ELSE IF j.op = "list" THEN [j EXCEPT !.got = <<here[Min(hits)]>>, !.phase = "done"]
      ELSE [j EXCEPT !.child = here[Min(hits)].inode, !.phase = "child"]

LEMMA ScanKeepsExt ==
  ASSUME ExtInv, ExtScan
  PROVE  ExtInv'
<1>1. PICK j : j = extJob
  OBVIOUS
<1>2. ExtTyped(j) /\ j.phase = "block" /\ j.op \in {"list", "find"} /\ ExtJobTrue(j)
  BY <1>1 DEF ExtInv, ExtJobTrue, ExtTyped, ExtScan
<1>3. PICK n \in Inodes : n = j.ino
  BY <1>2 DEF ExtTyped
<1>4. PICK file : file = ExtVolume.inodes[n]
  OBVIOUS
<1>5. Inode = file
  BY <1>1, <1>3, <1>4 DEF Inode
<1>6. PICK b \in 0 .. DIRECT - 1 : b = j.bi
  BY <1>2 DEF ExtTyped
<1>7. PICK here : here = ExtVolume.entries[file.ptr[b + 1]]
  OBVIOUS
<1>8. PICK used : used = Used(file.ptr[b + 1])
  OBVIOUS
<1>9. PICK hits : hits = {i \in used : IF j.op = "list" THEN j.seen + Cardinality({h \in used : h < i}) = j.from
                                      ELSE here[i].name = j.ask}
  OBVIOUS
<1>10. PICK k : k = extJob'
  OBVIOUS
<1>11. ExtScanOf(file, j, here, used, hits, k)
  <2>1. ExtScanOf(Inode, extJob, ExtVolume.entries[Inode.ptr[extJob.bi + 1]], Used(Inode.ptr[extJob.bi + 1]),
          {i \in Used(Inode.ptr[extJob.bi + 1]) :
             IF extJob.op = "list" THEN extJob.seen + Cardinality({h \in Used(Inode.ptr[extJob.bi + 1]) : h < i}) = extJob.from
             ELSE ExtVolume.entries[Inode.ptr[extJob.bi + 1]][i].name = extJob.ask},
          extJob')
    BY DEF ExtScan, ExtScanOf, NextBlock, AfterBlock
  <2> QED
    BY <1>1, <1>5, <1>6, <1>7, <1>8, <1>9, <1>10, <2>1
<1> SUFFICES ExtJobTrue(k)
  BY <1>10 DEF ExtInv, ExtScan
<1>12. file.dir => file.ptr[b + 1] # 0
  BY <1>2, <1>3, <1>4, <1>6 DEF ExtJobTrue, ExtListing, ExtFinding
<1>13. file.dir => used = ExtRow(file, b)
  BY <1>8, <1>12 DEF ExtRow
<1>14. CASE hits = {}
  <2>1. PICK l : l = [j EXCEPT !.seen = j.seen + Cardinality(used)]
    OBVIOUS
  <2>2. /\ DOMAIN l = ExtFields /\ l.phase = j.phase /\ l.bi = j.bi /\ l.len = j.len /\ l.slot = j.slot /\ l.op = j.op /\ l.ino = j.ino
        /\ l.from = j.from /\ l.got = j.got /\ l.ask = j.ask /\ l.failed = j.failed /\ l.seen = j.seen + Cardinality(used)
    BY <1>2, <2>1 DEF ExtTyped, ExtFields
  <2>3. ExtTyped(l)
    BY <1>2, <2>2 DEF ExtTyped
  <2>4. k = AfterBlock(file, l)
    BY <1>11, <1>14, <2>1 DEF ExtScanOf
  <2>5. l.op # "none" /\ l.bi \in 0 .. DIRECT - 1
    BY <1>2, <1>6, <2>2
  <2>6. /\ ExtTyped(k) /\ k.bi = j.bi + 1
        /\ k.op = j.op /\ k.ino = j.ino /\ k.from = j.from /\ k.got = j.got /\ k.seen = j.seen + Cardinality(used)
        /\ k.ask = j.ask /\ k.failed = j.failed
        /\ k.phase \in {"block", "done"}
        /\ k.phase = "block" => k.bi \in 0 .. DIRECT - 1 /\ file.ptr[k.bi + 1] # 0
        /\ k.phase = "done" => k.bi = DIRECT \/ (k.bi \in 0 .. DIRECT - 1 /\ file.ptr[k.bi + 1] = 0)
    BY <2>2, <2>3, <2>4, <2>5, AfterBlockFields
  <2>7. k.op = "list" /\ file.dir => ExtListing(file, k)
    <3> SUFFICES ASSUME k.op = "list", file.dir PROVE ExtListing(file, k)
      OBVIOUS
    <3>1. ExtListing(file, j)
      BY <1>2, <1>3, <1>4, <2>6 DEF ExtJobTrue
    <3>2. {i \in used : j.seen + Cardinality(Lower(used, i)) = j.from} = {}
      BY <1>9, <1>14, <2>6 DEF Lower
    <3>3. used = ExtRow(file, j.bi)
      BY <1>6, <1>13
    <3> QED
      BY <1>2, <1>4, <2>6, <3>1, <3>2, <3>3, ExtListNext
  <2>8. k.op = "find" /\ file.dir => ExtFinding(file, k)
    <3> SUFFICES ASSUME k.op = "find", file.dir PROVE ExtFinding(file, k)
      OBVIOUS
    <3>1. ExtFinding(file, j)
      BY <1>2, <1>3, <1>4, <2>6 DEF ExtJobTrue
    <3>2. j.got = <<>> /\ ExtNoneBelow(file, j, j.bi) /\ j.bi \in 0 .. DIRECT - 1
      BY <1>2, <1>6, <3>1 DEF ExtFinding
    <3>3. ExtNamed(file, j, j.bi) = {}
      BY <1>6, <1>7, <1>9, <1>13, <1>14, <2>6 DEF ExtNamed, ExtAt
    <3>4. j.failed => k.failed
      BY <2>6
    <3> QED
      BY <1>4, <2>6, <3>2, <3>3, <3>4, ExtFindNext
  <2>9. k.op # "read"
    BY <1>2, <2>6
  <2> QED
    BY <1>3, <1>4, <2>6, <2>7, <2>8, <2>9 DEF ExtJobTrue
<1>15. ASSUME hits # {}, file.dir
       PROVE  Min(hits) \in hits /\ \A x \in hits : Min(hits) <= x
  <2>1. ExtRow(file, b) \subseteq Nat
    BY <1>4, <1>15, ExtRowFacts
  <2>2. hits \subseteq Nat
    BY <1>9, <1>13, <1>15, <2>1
  <2> QED
    BY <1>15, <2>2, MinFacts
<1>16. PICK i : i = Min(hits)
  OBVIOUS
<1>17. CASE hits # {} /\ j.op = "list"
  <2>1. k = [j EXCEPT !.got = <<here[i]>>, !.phase = "done"]
    BY <1>11, <1>16, <1>17 DEF ExtScanOf
  <2>2. /\ DOMAIN k = ExtFields /\ k.phase = "done" /\ k.bi = j.bi /\ k.len = j.len /\ k.slot = j.slot /\ k.op = "list" /\ k.ino = j.ino
        /\ k.from = j.from /\ k.got = <<here[i]>> /\ k.failed = j.failed
    BY <1>2, <1>17, <2>1 DEF ExtTyped, ExtFields
  <2>3. ExtTyped(k)
    BY <1>2, <2>2 DEF ExtTyped
  <2>4. ASSUME file.dir PROVE ExtListing(file, k)
    <3>1. ExtListing(file, j)
      BY <1>2, <1>3, <1>4, <1>17, <2>4 DEF ExtJobTrue
    <3>2. i \in used /\ j.seen + Cardinality(Lower(used, i)) = j.from
      BY <1>9, <1>15, <1>16, <1>17, <2>4 DEF Lower
    <3>3. j.seen = Cardinality(PlaceRows(ExtRows(file), b))
      BY <1>2, <1>6, <3>1 DEF ExtListing
    <3>4. k.got = <<ExtAt(file, b, i)>> /\ k.got # <<>>
      BY <1>7, <2>2 DEF ExtAt
    <3>5. i \in ExtRow(file, b) /\ k.from = Cardinality(PlaceRows(ExtRows(file), b)) + Cardinality(Lower(ExtRow(file, b), i))
      BY <1>13, <2>2, <2>4, <3>2, <3>3
    <3> QED
      BY <2>2, <3>4, <3>5 DEF ExtListing
  <2> QED
    BY <1>3, <1>4, <2>2, <2>3, <2>4 DEF ExtJobTrue
<1>18. CASE hits # {} /\ j.op = "find"
  <2>1. k = [j EXCEPT !.child = here[i].inode, !.phase = "child"]
    BY <1>11, <1>16, <1>18 DEF ExtScanOf
  <2>2. /\ DOMAIN k = ExtFields /\ k.phase = "child" /\ k.bi = j.bi /\ k.len = j.len /\ k.slot = j.slot /\ k.op = "find" /\ k.ino = j.ino
        /\ k.from = j.from /\ k.got = j.got /\ k.failed = j.failed /\ k.child = here[i].inode /\ k.ask = j.ask
    BY <1>2, <1>18, <2>1 DEF ExtTyped, ExtFields
  <2>3. ExtTyped(k)
    BY <1>2, <1>6, <2>2 DEF ExtTyped
  <2>4. ASSUME file.dir PROVE ExtFinding(file, k)
    <3>1. ExtFinding(file, j)
      BY <1>2, <1>3, <1>4, <1>18, <2>4 DEF ExtJobTrue
    <3>2. k.got = <<>> /\ ExtNoneBelow(file, k, b)
      BY <1>2, <1>6, <2>2, <3>1 DEF ExtFinding, ExtNoneBelow, ExtNamed
    <3>3. hits = ExtNamed(file, k, b)
      BY <1>7, <1>9, <1>13, <1>18, <2>2, <2>4 DEF ExtNamed, ExtAt
    <3>4. i \in ExtNamed(file, k, b) /\ \A x \in ExtNamed(file, k, b) : i <= x
      BY <1>15, <1>16, <1>18, <2>4, <3>3
    <3>5. ExtNamed(file, k, b) \subseteq Nat
      BY <1>4, <2>4, ExtRowFacts DEF ExtNamed
    <3>6. Lower(ExtNamed(file, k, b), i) = {}
      BY <3>4, <3>5 DEF Lower
    <3>7. ExtFirst(file, k, b, i) /\ i \in ExtRow(file, b)
      BY <3>2, <3>4, <3>6 DEF ExtFirst, ExtNamed
    <3>8. k.child = ExtAt(file, b, i).inode
      BY <1>7, <2>2 DEF ExtAt
    <3>9. k.bi = b /\ file.ptr[b + 1] # 0
      BY <1>6, <1>12, <2>2, <2>4
    <3> QED
      BY <2>2, <3>2, <3>7, <3>8, <3>9 DEF ExtFinding
  <2> QED
    BY <1>3, <1>4, <2>2, <2>3, <2>4 DEF ExtJobTrue
<1> QED
  BY <1>2, <1>14, <1>17, <1>18

LEMMA ChildKeepsExt ==
  ASSUME ExtInv, ExtChild
  PROVE  ExtInv'
<1>1. PICK j : j = extJob
  OBVIOUS
<1>2. ExtTyped(j) /\ j.phase = "child" /\ j.op = "find" /\ ExtJobTrue(j)
  BY <1>1 DEF ExtInv, ExtJobTrue, ExtTyped, ExtChild
<1>3. PICK file : file = ExtVolume.inodes[j.ino]
  OBVIOUS
<1>4. PICK k : k = [j EXCEPT !.got = <<[name |-> j.ask, inode |-> j.child]>>, !.phase = "done"]
  OBVIOUS
<1>5. /\ DOMAIN k = ExtFields /\ k.phase = "done" /\ k.bi = j.bi /\ k.len = j.len /\ k.slot = j.slot /\ k.op = "find" /\ k.ino = j.ino
      /\ k.from = j.from /\ k.got = <<[name |-> j.ask, inode |-> j.child]>> /\ k.failed = j.failed /\ k.ask = j.ask
  BY <1>2, <1>4 DEF ExtTyped, ExtFields
<1>6. ExtTyped(k)
  BY <1>2, <1>5 DEF ExtTyped
<1>7. ASSUME file.dir PROVE ExtFinding(file, k)
  <2>1. PICK b \in 0 .. DIRECT - 1 : b = j.bi
    BY <1>2 DEF ExtTyped
  <2>2. PICK i \in ExtRow(file, b) : ExtFirst(file, j, b, i) /\ j.child = ExtAt(file, b, i).inode
    BY <1>2, <1>3, <1>7, <2>1 DEF ExtJobTrue, ExtFinding
  <2>3. ExtFirst(file, k, b, i)
    BY <1>5, <2>2 DEF ExtFirst, ExtNamed, ExtNoneBelow
  <2>4. k.got # <<>> /\ k.got[1].inode = j.child
    BY <1>5
  <2> QED
    BY <1>5, <2>2, <2>3, <2>4 DEF ExtFinding
<1>8. ExtJobTrue(k)
  BY <1>3, <1>5, <1>6, <1>7 DEF ExtJobTrue
<1> QED
  BY <1>1, <1>4, <1>8 DEF ExtInv, ExtChild

LEMMA ChildFailsKeepsExt ==
  ASSUME ExtInv, ExtChildFails
  PROVE  ExtInv'
<1>1. PICK j : j = extJob
  OBVIOUS
<1>2. ExtTyped(j) /\ j.phase = "child" /\ j.op = "find" /\ ExtJobTrue(j)
  BY <1>1 DEF ExtInv, ExtJobTrue, ExtTyped, ExtChildFails
<1>3. PICK n \in Inodes : n = j.ino
  BY <1>2 DEF ExtTyped
<1>4. PICK file : file = ExtVolume.inodes[n]
  OBVIOUS
<1>5. Inode = file
  BY <1>1, <1>3, <1>4 DEF Inode
<1>6. PICK l : l = [j EXCEPT !.failed = TRUE, !.child = 0]
  OBVIOUS
<1>7. /\ DOMAIN l = ExtFields /\ l.phase = "child" /\ l.bi = j.bi /\ l.len = j.len /\ l.slot = j.slot /\ l.op = "find" /\ l.ino = n
      /\ l.from = j.from /\ l.got = j.got /\ l.ask = j.ask /\ l.failed = TRUE
  BY <1>2, <1>3, <1>6 DEF ExtTyped, ExtFields
<1>8. ExtTyped(l) /\ l.bi \in 0 .. DIRECT - 1
  BY <1>2, <1>3, <1>7 DEF ExtTyped
<1>9. PICK k : k = AfterBlock(file, l)
  OBVIOUS
<1>10. extJob' = k /\ mounts' = mounts
  <2>1. extJob' = AfterBlock(Inode, [extJob EXCEPT !.failed = TRUE, !.child = 0]) /\ mounts' = mounts
    BY DEF ExtChildFails, NextBlock, AfterBlock
  <2> QED
    BY <1>1, <1>5, <1>6, <1>9, <2>1
<1>11. /\ ExtTyped(k) /\ k.bi = l.bi + 1
       /\ k.op = "find" /\ k.ino = n /\ k.got = l.got /\ k.ask = l.ask /\ k.failed = TRUE
       /\ k.phase \in {"block", "done"}
       /\ k.phase = "block" => k.bi \in 0 .. DIRECT - 1 /\ file.ptr[k.bi + 1] # 0
       /\ k.phase = "done" => k.bi = DIRECT \/ (k.bi \in 0 .. DIRECT - 1 /\ file.ptr[k.bi + 1] = 0)
  BY <1>7, <1>8, <1>9, AfterBlockFields
<1>12. ASSUME file.dir PROVE ExtFinding(file, k)
  <2>1. l.got = <<>>
    BY <1>2, <1>3, <1>4, <1>7, <1>12 DEF ExtJobTrue, ExtFinding
  <2>2. ExtNoneBelow(file, l, l.bi)
    BY <1>7 DEF ExtNoneBelow
  <2>3. k.failed
    BY <1>11
  <2> QED
    BY <1>4, <1>8, <1>11, <1>12, <2>1, <2>2, <2>3, ExtFindNext
<1>13. ExtJobTrue(k)
  BY <1>4, <1>11, <1>12 DEF ExtJobTrue
<1> QED
  BY <1>10, <1>13 DEF ExtInv

LEMMA ExtGoesOn ==
  ASSUME ExtInv, [ExtNext]_extVars
  PROVE  ExtInv'
<1>1. CASE UNCHANGED extVars
  BY <1>1 DEF extVars, ExtInv
<1>2. CASE ExtMount \/ ExtRoot \/ ExtRootFails \/ ExtUnmount
  BY <1>2, MountKeepsExt
<1>3. CASE ExtInode
  BY <1>3, InodeKeepsExt
<1>4. CASE ExtReadBlock
  BY <1>4, ReadBlockKeepsExt
<1>5. CASE ExtFails
  BY <1>5, FailsKeepsExt
<1>6. CASE ExtScan
  BY <1>6, ScanKeepsExt
<1>7. CASE ExtChild
  BY <1>7, ChildKeepsExt
<1>8. CASE ExtChildFails
  BY <1>8, ChildFailsKeepsExt
<1>9. ASSUME NEW ino \in Inodes, NEW r \in ExtReads, ExtBegin("read", ino, r.at, r.len, "") PROVE ExtInv'
  <2>1. r.at \in Nat /\ r.len \in Nat
    BY ExtAssumption
  <2> QED
    BY <1>9, <2>1, CallKeepsExt
<1>10. ASSUME NEW ino \in Inodes, NEW index \in 0 .. 3, ExtBegin("list", ino, index, 0, "") PROVE ExtInv'
  <2>1. index \in Nat /\ 0 \in Nat
    OBVIOUS
  <2> QED
    BY <1>10, <2>1, CallKeepsExt
<1>11. ASSUME NEW ino \in Inodes, NEW name \in ExtNames, ExtBegin("find", ino, 0, 0, name) PROVE ExtInv'
  <2>1. 0 \in Nat
    OBVIOUS
  <2> QED
    BY <1>11, <2>1, CallKeepsExt
<1> QED
  BY <1>1, <1>2, <1>3, <1>4, <1>5, <1>6, <1>7, <1>8, <1>9, <1>10, <1>11 DEF ExtNext

(* The order of the blocks of a file is that of its pointers.              *)
LeafRows == [k \in 0 .. PTRS + 1 |-> IF k = 0 THEN 1 .. DIRECT ELSE 1 .. PTRS]
LeavesBelow(m) == IF m = 0 THEN 0 ELSE DIRECT + PTRS * (m - 1)

LEMMA LeafRowsCount ==
  /\ \A k \in 0 .. (PTRS + 2) - 1 : IsFiniteSet(LeafRows[k]) /\ LeafRows[k] \subseteq Nat
  /\ \A m \in 0 .. PTRS + 1 : Cardinality(PlaceRows(LeafRows, m)) = LeavesBelow(m)
<1>1. DIRECT \in Nat \ {0} /\ PTRS \in Nat \ {0}
  BY ExtAssumption
<1>2. PICK rows : rows = LeafRows
  OBVIOUS
<1>3. /\ rows[0] = 1 .. DIRECT
      /\ \A k \in 1 .. PTRS + 1 : rows[k] = 1 .. PTRS
  BY <1>1, <1>2 DEF LeafRows
<1>4. IsFiniteSet(1 .. DIRECT) /\ Cardinality(1 .. DIRECT) = DIRECT /\ IsFiniteSet(1 .. PTRS) /\ Cardinality(1 .. PTRS) = PTRS
  BY <1>1, FS_Interval
<1>5. \A k \in 0 .. (PTRS + 2) - 1 : k = 0 \/ k \in 1 .. PTRS + 1
  BY <1>1
<1>6. \A k \in 0 .. (PTRS + 2) - 1 : IsFiniteSet(rows[k])
  BY <1>3, <1>4, <1>5
<1>7. \A k \in 0 .. (PTRS + 2) - 1 : rows[k] \subseteq Nat
  BY <1>1, <1>3, <1>5
<1> DEFINE T == {m \in Nat : m <= PTRS + 1 => Cardinality(PlaceRows(rows, m)) = LeavesBelow(m)}
<1>8. 0 \in T
  <2>1. PlaceRows(rows, 0) = {}
    BY DEF PlaceRows
  <2> QED
    BY <2>1, FS_EmptySet DEF LeavesBelow
<1>9. ASSUME NEW m \in Nat, m \in T PROVE m + 1 \in T
  <2> SUFFICES ASSUME m + 1 <= PTRS + 1 PROVE Cardinality(PlaceRows(rows, m + 1)) = LeavesBelow(m + 1)
    OBVIOUS
  <2>1. m \in 0 .. (PTRS + 2) - 1 /\ m <= PTRS + 1
    BY <1>1
  <2>2. Cardinality(PlaceRows(rows, m)) = LeavesBelow(m)
    BY <1>9, <2>1
  <2>3. PTRS + 2 \in Nat
    BY <1>1
  <2>4. Cardinality(PlaceRows(rows, m + 1)) = Cardinality(PlaceRows(rows, m)) + Cardinality(rows[m])
    BY <1>6, <2>1, <2>3, RowsCount
  <2>5. CASE m = 0
    <3>1. Cardinality(rows[m]) = DIRECT
      BY <1>3, <1>4, <2>5
    <3>2. LeavesBelow(m) = 0 /\ LeavesBelow(m + 1) = DIRECT
      BY <1>1, <2>5 DEF LeavesBelow
    <3> QED
      BY <1>1, <2>2, <2>4, <3>1, <3>2
  <2>6. CASE m # 0
    <3>1. Cardinality(rows[m]) = PTRS
      BY <1>3, <1>4, <1>5, <2>1, <2>6
    <3>2. LeavesBelow(m) = DIRECT + PTRS * (m - 1) /\ LeavesBelow(m + 1) = DIRECT + PTRS * m
      BY <1>1, <2>6 DEF LeavesBelow
    <3>3. PTRS * (m - 1) + PTRS = PTRS * m
      BY <1>1
    <3>4. PTRS * (m - 1) \in Int /\ PTRS * m \in Int
      BY <1>1
    <3> QED
      BY <1>1, <2>2, <2>4, <3>1, <3>2, <3>3, <3>4
  <2> QED
    BY <2>5, <2>6
<1>10. \A m \in Nat : m \in T
  <2> HIDE DEF T
  <2> QED
    BY <1>8, <1>9, Induction
<1>11. \A m \in 0 .. PTRS + 1 : Cardinality(PlaceRows(rows, m)) = LeavesBelow(m)
  BY <1>1, <1>10
<1> QED
  BY <1>2, <1>6, <1>7, <1>11

LEMMA LeafPlace ==
  ASSUME NEW m \in 0 .. PTRS + 1, NEW i, i \in (IF m = 0 THEN 1 .. DIRECT ELSE 1 .. PTRS), NEW p, p = <<m, i>>
  PROVE  p \in Leaves /\ Cardinality(Ahead(Leaves, p)) = LeavesBelow(m) + (i - 1)
<1>1. DIRECT \in Nat \ {0} /\ PTRS \in Nat \ {0}
  BY ExtAssumption
<1>2. PICK rows : rows = LeafRows
  OBVIOUS
<1>3. i \in rows[m] /\ rows[m] = IF m = 0 THEN 1 .. DIRECT ELSE 1 .. PTRS
  BY <1>1, <1>2 DEF LeafRows
<1>4. PICK n \in Nat : n = PTRS + 2
  BY <1>1
<1>5. PlaceRows(rows, n) = Leaves
  <2>1. \A k \in 0 .. n - 1 : k = 0 \/ k \in 1 .. PTRS + 1
    BY <1>1, <1>4
  <2>2. 0 \in 0 .. n - 1 /\ \A k \in 1 .. PTRS + 1 : k \in 0 .. n - 1
    BY <1>1, <1>4
  <2>3. rows[0] = 1 .. DIRECT /\ \A k \in 1 .. PTRS + 1 : rows[k] = 1 .. PTRS
    BY <1>1, <1>2 DEF LeafRows
  <2>4. \A q : q \in PlaceRows(rows, n) <=> \E k \in 0 .. n - 1 : \E h \in rows[k] : q = <<k, h>>
    BY DEF PlaceRows
  <2>5. \A q : q \in Leaves <=> (\E h \in 1 .. DIRECT : q = <<0, h>>) \/ (\E k \in 1 .. PTRS + 1 : \E h \in 1 .. PTRS : q = <<k, h>>)
    BY DEF Leaves
  <2>6. ASSUME NEW q \in PlaceRows(rows, n) PROVE q \in Leaves
    <3>1. PICK k \in 0 .. n - 1 : \E h \in rows[k] : q = <<k, h>>
      BY <2>4
    <3> QED
      BY <2>1, <2>3, <2>5, <3>1
  <2>7. ASSUME NEW q \in Leaves PROVE q \in PlaceRows(rows, n)
    BY <2>2, <2>3, <2>4, <2>5
  <2> QED
    BY <2>6, <2>7
<1>6. PICK before : before = {q \in PlaceRows(rows, n) : q[1] < m \/ (q[1] = m /\ q[2] < i)}
  OBVIOUS
<1>7. Ahead(Leaves, p) = before
  BY <1>5, <1>6 DEF Ahead
<1>8. Cardinality(before) = Cardinality(PlaceRows(rows, m)) + Cardinality({h \in rows[m] : h < i})
  <2>1. \A k \in 0 .. n - 1 : IsFiniteSet(rows[k]) /\ rows[k] \subseteq Nat
    BY <1>2, <1>4, LeafRowsCount
  <2>2. m \in 0 .. n - 1
    BY <1>1, <1>4
  <2>3. i \in rows[m]
    BY <1>3
  <2> QED
    BY <1>6, <2>1, <2>2, <2>3, PlacesBefore
<1>9. {h \in rows[m] : h < i} = 1 .. i - 1
  BY <1>1, <1>3
<1>10. i \in Nat \ {0} /\ Cardinality(1 .. i - 1) = i - 1
  <2>1. i \in Nat \ {0}
    BY <1>1, <1>3
  <2> QED
    BY <2>1, FS_Interval
<1>11. Cardinality(PlaceRows(rows, m)) = LeavesBelow(m)
  BY <1>2, LeafRowsCount
<1>12. p \in Leaves
  <2>1. p \in PlaceRows(rows, n)
    BY <1>1, <1>3, <1>4 DEF PlaceRows
  <2> QED
    BY <1>5, <2>1
<1> QED
  BY <1>7, <1>8, <1>9, <1>10, <1>11, <1>12

LEMMA LeafOrder ==
  ASSUME NEW inode, NEW q \in Nat, q < ExtTree
  PROVE  \E p \in Leaves : Cardinality(Ahead(Leaves, p)) = q /\ Leaf(inode, p) = RealBlock(inode, q)
<1>1. DIRECT \in Nat \ {0} /\ PTRS \in Nat \ {0}
  BY ExtAssumption
<1>2. CASE q < DIRECT
  <2>1. PICK p : p = <<0, q + 1>>
    OBVIOUS
  <2>2. 0 \in 0 .. PTRS + 1 /\ q + 1 \in 1 .. DIRECT
    BY <1>1, <1>2
  <2>3. p \in Leaves /\ Cardinality(Ahead(Leaves, p)) = LeavesBelow(0) + (q + 1 - 1)
    BY <2>1, <2>2, LeafPlace
  <2>4. LeavesBelow(0) = 0
    BY DEF LeavesBelow
  <2>5. Leaf(inode, p) = inode.ptr[q + 1] /\ RealBlock(inode, q) = inode.ptr[q + 1]
    BY <1>2, <2>1 DEF Leaf, RealBlock
  <2> QED
    BY <2>3, <2>4, <2>5
<1>3. CASE q >= DIRECT /\ q < DIRECT + PTRS
  <2>0. PICK i \in 1 .. PTRS : i = q - DIRECT + 1
    BY <1>1, <1>3
  <2>1. PICK p : p = <<1, i>>
    OBVIOUS
  <2>2. 1 \in 0 .. PTRS + 1
    BY <1>1
  <2>3. p \in Leaves /\ Cardinality(Ahead(Leaves, p)) = LeavesBelow(1) + (i - 1)
    BY <2>0, <2>1, <2>2, LeafPlace
  <2>4. LeavesBelow(1) = DIRECT
    BY <1>1 DEF LeavesBelow
  <2>5. Leaf(inode, p) = ExtVolume.pointers[inode.ptr[DIRECT + 1]][i] /\ RealBlock(inode, q) = ExtVolume.pointers[inode.ptr[DIRECT + 1]][i]
    BY <1>1, <1>3, <2>0, <2>1 DEF Leaf, RealBlock, Pointer
  <2> QED
    BY <1>1, <2>0, <2>3, <2>4, <2>5
<1>4. CASE q >= DIRECT + PTRS
  <2>1. PICK rel \in Nat : rel = q - DIRECT - PTRS
    BY <1>1, <1>4
  <2>2. PICK d \in Nat, r \in 0 .. PTRS - 1 : d = rel \div PTRS /\ r = rel % PTRS /\ rel = PTRS * d + r
    <3>1. rel \div PTRS \in Nat /\ rel % PTRS \in 0 .. PTRS - 1 /\ rel = PTRS * (rel \div PTRS) + (rel % PTRS)
      BY <1>1
    <3> QED
      BY <3>1
  <2>3. d < PTRS
    <3>1. PICK e \in Nat : e = PTRS * PTRS
      BY <1>1
    <3>2. rel < e
      BY <1>1, <1>4, <2>1, <3>1 DEF ExtTree
    <3>3. PTRS * d < PTRS * PTRS
      BY <1>1, <2>2, <3>1, <3>2
    <3> QED
      BY <1>1, <3>3, SMTT(30)
  <2>4. PICK m \in 2 .. PTRS + 1, i \in 1 .. PTRS : m = d + 2 /\ i = r + 1
    <3>1. d + 2 \in 2 .. PTRS + 1 /\ r + 1 \in 1 .. PTRS
      BY <1>1, <2>3
    <3> QED
      BY <3>1
  <2>5. PICK p : p = <<m, i>>
    OBVIOUS
  <2>6. m \in 0 .. PTRS + 1 /\ m # 0 /\ m # 1
    BY <2>4
  <2>7. p \in Leaves /\ Cardinality(Ahead(Leaves, p)) = LeavesBelow(m) + (i - 1)
    BY <2>5, <2>6, LeafPlace
  <2>8. LeavesBelow(m) = DIRECT + PTRS * (d + 1)
    <3>1. m - 1 = d + 1
      BY <2>4
    <3> QED
      BY <2>6, <3>1 DEF LeavesBelow
  <2>9. PTRS * (d + 1) = PTRS * d + PTRS
    BY <1>1
  <2>10. LeavesBelow(m) + (i - 1) = q
    <3>1. PICK z \in Nat : z = PTRS * d
      BY <1>1
    <3> QED
      BY <1>1, <2>1, <2>2, <2>4, <2>8, <2>9, <3>1
  <2>11. Leaf(inode, p) = ExtVolume.pointers[ExtVolume.pointers[inode.ptr[DIRECT + 2]][m - 1]][i]
    BY <2>5, <2>6 DEF Leaf
  <2>12. RealBlock(inode, q) = ExtVolume.pointers[ExtVolume.pointers[inode.ptr[DIRECT + 2]][d + 1]][r + 1]
    <3>1. ~(q < DIRECT) /\ ~(q < DIRECT + PTRS) /\ q < DIRECT + PTRS + PTRS * PTRS
      BY <1>1, <1>4 DEF ExtTree
    <3> QED
      BY <2>1, <2>2, <3>1 DEF RealBlock, Pointer
  <2>13. m - 1 = d + 1 /\ i = r + 1
    BY <2>4
  <2> QED
    BY <2>7, <2>10, <2>11, <2>12, <2>13
<1> QED
  BY <1>1, <1>2, <1>3, <1>4

LEMMA ExtEntries ==
  ASSUME NEW n \in Inodes, NEW file, file = ExtVolume.inodes[n], file.dir
  PROVE  /\ Entered(file) = PlaceRows(ExtRows(file), DIRECT)
         /\ \A k \in 0 .. DIRECT - 1 : \A i \in ExtRow(file, k) :
              /\ <<k, i>> \in Entered(file) /\ Entry(file, <<k, i>>) = ExtAt(file, k, i)
              /\ Cardinality(Ahead(Entered(file), <<k, i>>))
                   = Cardinality(PlaceRows(ExtRows(file), k)) + Cardinality(Lower(ExtRow(file, k), i))
         /\ \A p \in Entered(file) : \E k \in 0 .. DIRECT - 1 : \E i \in ExtRow(file, k) : p = <<k, i>>
<1>1. PICK rows : rows = ExtRows(file)
  OBVIOUS
<1>2. DIRECT \in Nat /\ \A k \in 0 .. DIRECT - 1 : rows[k] = ExtRow(file, k) /\ IsFiniteSet(rows[k]) /\ rows[k] \subseteq Nat
  BY <1>1, ExtRowFacts
<1>3. \A p : p \in Entered(file) <=> \E k \in 0 .. DIRECT - 1 : \E i \in ExtRow(file, k) : p = <<k, i>>
  BY DEF Entered, ExtRow
<1>4. \A p : p \in PlaceRows(rows, DIRECT) <=> \E k \in 0 .. DIRECT - 1 : \E i \in ExtRow(file, k) : p = <<k, i>>
  BY <1>2 DEF PlaceRows
<1>5. Entered(file) = PlaceRows(rows, DIRECT)
  BY <1>3, <1>4
<1>6. ASSUME NEW k \in 0 .. DIRECT - 1, NEW i \in ExtRow(file, k)
      PROVE  /\ <<k, i>> \in Entered(file) /\ Entry(file, <<k, i>>) = ExtAt(file, k, i)
             /\ Cardinality(Ahead(Entered(file), <<k, i>>))
                  = Cardinality(PlaceRows(rows, k)) + Cardinality(Lower(ExtRow(file, k), i))
  <2>1. PICK before : before = {q \in PlaceRows(rows, DIRECT) : q[1] < k \/ (q[1] = k /\ q[2] < i)}
    OBVIOUS
  <2>2. Ahead(Entered(file), <<k, i>>) = before
    BY <1>5, <2>1 DEF Ahead
  <2>3. \A m \in 0 .. DIRECT - 1 : IsFiniteSet(rows[m]) /\ rows[m] \subseteq Nat
    BY <1>2
  <2>4. i \in rows[k]
    BY <1>2
  <2>5. DIRECT \in Nat
    BY <1>2
  <2>6. Cardinality(before) = Cardinality(PlaceRows(rows, k)) + Cardinality({j \in rows[k] : j < i})
    BY <2>1, <2>3, <2>4, <2>5, PlacesBefore
  <2>7. {j \in rows[k] : j < i} = Lower(ExtRow(file, k), i)
    BY <1>2 DEF Lower
  <2>8. <<k, i>> \in Entered(file)
    BY <1>3
  <2>9. Entry(file, <<k, i>>) = ExtAt(file, k, i)
    BY DEF Entry, ExtAt
  <2> QED
    BY <2>2, <2>6, <2>7, <2>8, <2>9
<1> QED
  BY <1>1, <1>3, <1>5, <1>6

LEMMA ExtPromises == ExtInv => ExtTypeOK /\ ExtTrue
<1> SUFFICES ASSUME ExtInv PROVE ExtTypeOK /\ ExtTrue
  OBVIOUS
<1>1. PICK j : j = extJob
  OBVIOUS
<1>2. ExtTyped(j) /\ ExtJobTrue(j) /\ MountsTrue(mounts)
  BY <1>1 DEF ExtInv, ExtJobTrue
<1>3. PICK file : file = ExtVolume.inodes[j.ino]
  OBVIOUS
<1>4. ExtTypeOK
  <2>1. mounts \in [ExtSlotIds -> [used : BOOLEAN, bgdt : BOOLEAN]]
    BY <1>2 DEF MountsTrue
  <2>2. j.op = "read" => Len(j.got) <= j.len
    BY <1>2, <1>3 DEF ExtJobTrue, ExtReading
  <2>3. j.phase \in {"idle", "root", "inode", "block", "child", "done"} /\ j.ino \in Inodes \cup {0} /\ j.bi \in 0 .. DIRECT
    BY <1>2 DEF ExtTyped
  <2> QED
    BY <1>1, <2>1, <2>2, <2>3 DEF ExtTypeOK
<1>5. \A i \in ExtSlotIds : mounts[i].used <=> mounts[i].bgdt
  BY <1>2 DEF MountsTrue
<1>6. ASSUME j.phase = "done", j.op = "read"
      PROVE  /\ \A i \in DOMAIN j.got :
                  \E p \in Leaves : /\ Cardinality(Ahead(Leaves, p)) = (j.from + i - 1) \div BLOCK
                                    /\ j.got[i] = Leaf(file, p) * BLOCK + ((j.from + i - 1) % BLOCK)
             /\ Len(j.got) = j.len \/ j.failed
  <2>1. ExtReading(file, j)
    BY <1>2, <1>3, <1>6 DEF ExtJobTrue
  <2>2. PICK from \in Nat : from = j.from
    BY <1>2 DEF ExtTyped
  <2>3. ASSUME NEW i \in DOMAIN j.got
        PROVE  \E p \in Leaves : /\ Cardinality(Ahead(Leaves, p)) = (j.from + i - 1) \div BLOCK
                                 /\ j.got[i] = Leaf(file, p) * BLOCK + ((j.from + i - 1) % BLOCK)
    <3>1. i \in 1 .. Len(j.got) /\ i \in Nat \ {0}
      BY <2>1 DEF ExtReading
    <3>2. PICK at \in Nat : at = from + i - 1
      BY <3>1
    <3>3. PICK q \in Nat : q = at \div BLOCK
      BY ExtAssumption DEF Superblock
    <3>4. q < ExtTree /\ j.got[i] = RealBlock(file, q) * BLOCK + (at % BLOCK)
      BY <2>1, <2>2, <3>1, <3>2, <3>3 DEF ExtReading, ExtByte
    <3>5. PICK p \in Leaves : Cardinality(Ahead(Leaves, p)) = q /\ Leaf(file, p) = RealBlock(file, q)
      BY <3>4, LeafOrder
    <3> QED
      BY <2>2, <3>2, <3>3, <3>4, <3>5
  <2>4. Len(j.got) = j.len \/ j.failed
    BY <2>1, <1>6 DEF ExtReading
  <2> QED
    BY <2>3, <2>4
<1>7. ASSUME j.phase = "done", j.op \in {"list", "find"}, file.dir
      PROVE  \E n \in Inodes : file = ExtVolume.inodes[n]
  BY <1>2, <1>3, <1>7 DEF ExtTyped
<1>8. ASSUME j.phase = "done", j.op = "list", file.dir, NEW entries, entries = Entered(file)
      PROVE  IF j.got # <<>>
             THEN \E p \in entries : j.got = <<Entry(file, p)>> /\ Cardinality(Ahead(entries, p)) = j.from
             ELSE j.failed \/ j.from >= Cardinality(entries)
  <2>1. ExtListing(file, j)
    BY <1>2, <1>3, <1>8 DEF ExtJobTrue
  <2>2. PICK n \in Inodes : file = ExtVolume.inodes[n]
    BY <1>7, <1>8
  <2>3. /\ entries = PlaceRows(ExtRows(file), DIRECT)
        /\ \A k \in 0 .. DIRECT - 1 : \A i \in ExtRow(file, k) :
             /\ <<k, i>> \in entries /\ Entry(file, <<k, i>>) = ExtAt(file, k, i)
             /\ Cardinality(Ahead(entries, <<k, i>>))
                  = Cardinality(PlaceRows(ExtRows(file), k)) + Cardinality(Lower(ExtRow(file, k), i))
    BY <1>8, <2>2, ExtEntries
  <2>4. CASE j.got = <<>>
    BY <1>8, <2>1, <2>3, <2>4 DEF ExtListing
  <2>5. CASE j.got # <<>>
    <3>1. PICK k \in 0 .. DIRECT - 1 : \E i \in ExtRow(file, k) :
              /\ j.got = <<ExtAt(file, k, i)>>
              /\ j.from = Cardinality(PlaceRows(ExtRows(file), k)) + Cardinality(Lower(ExtRow(file, k), i))
      BY <1>8, <2>1, <2>5 DEF ExtListing
    <3>2. PICK i \in ExtRow(file, k) :
              /\ j.got = <<ExtAt(file, k, i)>>
              /\ j.from = Cardinality(PlaceRows(ExtRows(file), k)) + Cardinality(Lower(ExtRow(file, k), i))
      BY <3>1
    <3> QED
      BY <2>3, <2>5, <3>2
  <2> QED
    BY <2>4, <2>5
<1>9. ASSUME j.phase = "done", j.op = "find", file.dir,
             NEW same, same = {p \in Entered(file) : Entry(file, p).name = j.ask}
      PROVE  IF j.got # <<>>
             THEN \E p \in same : /\ j.got[1].inode = Entry(file, p).inode
                                  /\ j.failed \/ Ahead(same, p) = {}
             ELSE j.failed \/ same = {}
  <2>1. ExtFinding(file, j)
    BY <1>2, <1>3, <1>9 DEF ExtJobTrue
  <2>2. PICK n \in Inodes : file = ExtVolume.inodes[n]
    BY <1>7, <1>9
  <2>3. /\ \A k \in 0 .. DIRECT - 1 : \A i \in ExtRow(file, k) :
             <<k, i>> \in Entered(file) /\ Entry(file, <<k, i>>) = ExtAt(file, k, i)
        /\ \A p \in Entered(file) : \E k \in 0 .. DIRECT - 1 : \E i \in ExtRow(file, k) : p = <<k, i>>
    BY <1>9, <2>2, ExtEntries
  <2>4. ASSUME NEW p \in same
        PROVE  \E k \in 0 .. DIRECT - 1 : \E i \in ExtNamed(file, j, k) : p = <<k, i>>
    <3>1. PICK k \in 0 .. DIRECT - 1 : \E i \in ExtRow(file, k) : p = <<k, i>>
      BY <1>9, <2>3
    <3>2. PICK i \in ExtRow(file, k) : p = <<k, i>>
      BY <3>1
    <3>3. i \in ExtNamed(file, j, k)
      BY <1>9, <2>3, <3>2 DEF ExtNamed
    <3> QED
      BY <3>2, <3>3
  <2>5. CASE j.got = <<>>
    <3>1. ExtNoneBelow(file, j, DIRECT)
      BY <1>9, <2>1, <2>5 DEF ExtFinding
    <3>2. j.failed \/ same = {}
      BY <2>4, <3>1 DEF ExtNoneBelow
    <3> QED
      BY <2>5, <3>2
  <2>6. CASE j.got # <<>>
    <3>1. PICK k \in 0 .. DIRECT - 1 : \E i \in ExtRow(file, k) :
              ExtFirst(file, j, k, i) /\ j.got[1].inode = ExtAt(file, k, i).inode
      BY <1>9, <2>1, <2>6 DEF ExtFinding
    <3>2. PICK i \in ExtRow(file, k) : ExtFirst(file, j, k, i) /\ j.got[1].inode = ExtAt(file, k, i).inode
      BY <3>1
    <3>3. PICK p : p = <<k, i>>
      OBVIOUS
    <3>4. p \in same /\ j.got[1].inode = Entry(file, p).inode
      BY <1>9, <2>3, <3>2, <3>3 DEF ExtFirst, ExtNamed
    <3>5. j.failed \/ Ahead(same, p) = {}
      <4> SUFFICES ASSUME ~j.failed, NEW q \in same, q[1] < k \/ (q[1] = k /\ q[2] < i) PROVE FALSE
        BY <3>3 DEF Ahead
      <4>1. PICK m \in 0 .. DIRECT - 1 : \E h \in ExtNamed(file, j, m) : q = <<m, h>>
        BY <2>4
      <4>2. PICK h \in ExtNamed(file, j, m) : q = <<m, h>>
        BY <4>1
      <4>3. CASE m < k
        <5>1. m \in 0 .. k - 1
          BY <4>3
        <5> QED
          BY <3>2, <4>2, <5>1 DEF ExtFirst, ExtNoneBelow
      <4>4. CASE m = k /\ h < i
        BY <3>2, <4>2, <4>4 DEF ExtFirst, Lower
      <4> QED
        BY <4>2, <4>3, <4>4
    <3> QED
      BY <2>6, <3>4, <3>5
  <2> QED
    BY <2>5, <2>6
<1>10. ExtTrue
  <2> SUFFICES ASSUME j.phase = "done" PROVE ExtTrue
    BY <1>1, <1>5 DEF ExtTrue
  <2>1. CASE j.op = "read"
    BY <1>1, <1>3, <1>5, <1>6, <2>1 DEF ExtTrue
  <2>2. CASE j.op = "list" /\ file.dir
    <3>1. PICK entries : entries = Entered(file)
      OBVIOUS
    <3>2. IF j.got # <<>>
          THEN \E p \in entries : j.got = <<Entry(file, p)>> /\ Cardinality(Ahead(entries, p)) = j.from
          ELSE j.failed \/ j.from >= Cardinality(entries)
      BY <1>8, <2>2, <3>1
    <3> QED
      BY <1>1, <1>3, <1>5, <2>2, <3>1, <3>2 DEF ExtTrue
  <2>3. CASE j.op = "find" /\ file.dir
    <3>1. PICK same : same = {p \in Entered(file) : Entry(file, p).name = j.ask}
      OBVIOUS
    <3>2. IF j.got # <<>>
          THEN \E p \in same : /\ j.got[1].inode = Entry(file, p).inode
                               /\ j.failed \/ Ahead(same, p) = {}
          ELSE j.failed \/ same = {}
      BY <1>9, <2>3, <3>1
    <3> QED
      BY <1>1, <1>3, <1>5, <2>3, <3>1, <3>2 DEF ExtTrue
  <2>4. CASE ~(j.op = "read") /\ ~(j.op = "list" /\ file.dir) /\ ~(j.op = "find" /\ file.dir)
    BY <1>1, <1>3, <1>5, <2>4 DEF ExtTrue
  <2> QED
    BY <2>1, <2>2, <2>3, <2>4
<1> QED
  BY <1>4, <1>10
-----------------------------------------------------------------------------
(* FAT32                                                                   *)

FatFields == {"phase", "op", "file", "from", "ask", "cluster", "skip", "intra", "left", "got", "seen", "failed"}

FatTyped(j) ==
  /\ DOMAIN j = FatFields
  /\ j.phase \in {"idle", "seek", "load", "next", "done"} /\ j.op \in {"none", "read", "list", "find"}
  /\ j.from \in Nat /\ j.skip \in Nat /\ j.intra \in Nat /\ j.left \in Nat /\ j.seen \in Nat /\ j.failed \in BOOLEAN
  /\ j.op = "none" <=> j.phase = "idle"

(* A read: the cluster of the chain that is looked at has the next byte.   *)
FatSize(v) == v.bps * v.spc
FatByte(v, c, x) ==
  <<v.reserved + v.fats * v.fatSize + (c[x \div FatSize(v) + 1] - 2) * v.spc + ((x % FatSize(v)) \div SECTOR),
    (x % FatSize(v)) % SECTOR>>
FatReading(v, c, j) ==
  /\ Chained(v, c)
  /\ j.got \in Seq(Int \X Int)
  /\ \A i \in 1 .. Len(j.got) : j.got[i] = FatByte(v, c, j.from + i - 1)
  /\ j.from < FatSize(v) * Len(c) /\ j.from + Len(j.got) + j.left <= FatSize(v) * Len(c)
  /\ j.phase = "seek" =>
       /\ j.got = <<>> /\ j.skip > 0 /\ j.intra = j.from % FatSize(v)
       /\ \E k \in 0 .. Len(c) - 1 : j.cluster = c[k + 1] /\ k + j.skip = j.from \div FatSize(v)
  /\ j.phase = "load" =>
       \E k \in 0 .. Len(c) - 1 : j.cluster = c[k + 1] /\ StartsIn(FatSize(v), j.from + Len(j.got), k, j.intra)
  /\ j.phase = "next" => j.intra = 0 /\
       \E k \in 0 .. Len(c) - 1 :
         j.cluster = c[k + 1] /\ (j.left > 0 => j.from + Len(j.got) = FatSize(v) * (k + 1))
  /\ j.phase = "done" => j.left = 0 \/ j.failed

(* A directory: a row of entries for each cluster of its chain, none after *)
(* the cluster with the end, and what was counted, or not found, so far.   *)
FatHere(v, c, k)  == v.slots[c[k + 1]]
FatGoes(v, c, k)  == \A m \in 1 .. k : ~Ended(v.slots[c[m]])
FatRow(v, c, k)   == IF FatGoes(v, c, k) THEN Scanned(FatHere(v, c, k)) ELSE {}
FatRows(v, c)     == [k \in 0 .. Len(c) - 1 |-> FatRow(v, c, k)]
FatCount(v, c, k) == Cardinality(PlaceRows(FatRows(v, c), k))
FatFound(v, c, j) ==
  \E k \in 0 .. Len(c) - 1 : \E i \in FatRow(v, c, k) :
    j.got = <<FatHere(v, c, k)[i]>> /\ j.from = FatCount(v, c, k) + Cardinality(Lower(FatRow(v, c, k), i))
FatListing(v, c, j) ==
  /\ Chained(v, c) /\ Range(c) \subseteq DOMAIN v.slots
  /\ j.phase \in {"load", "next", "done"}
  /\ j.phase = "load" =>
       /\ j.got = <<>>
       /\ \E k \in 0 .. Len(c) - 1 :
            j.cluster = c[k + 1] /\ FatGoes(v, c, k) /\ j.seen = FatCount(v, c, k) /\ j.seen <= j.from
  /\ j.phase = "next" =>
       \E k \in 0 .. Len(c) - 1 :
         /\ j.cluster = c[k + 1]
         /\ IF j.got # <<>> THEN FatFound(v, c, j)
            ELSE FatGoes(v, c, k + 1) /\ j.seen = FatCount(v, c, k + 1) /\ j.seen <= j.from
  /\ j.phase = "done" =>
       IF j.got # <<>> THEN FatFound(v, c, j) ELSE j.failed \/ j.from >= FatCount(v, c, Len(c))

FatNamed(v, c, j, k) == {i \in FatRow(v, c, k) : Twelve[FatHere(v, c, k)[i].name] = Twelve[j.ask]}
FatNone(v, c, j, k)  == \A m \in 0 .. k - 1 : FatNamed(v, c, j, m) = {}
FatFirst(v, c, j) ==
  \E k \in 0 .. Len(c) - 1 : \E i \in FatNamed(v, c, j, k) :
    j.got = <<FatHere(v, c, k)[i]>> /\ FatNone(v, c, j, k) /\ Lower(FatNamed(v, c, j, k), i) = {}
FatFinding(v, c, j) ==
  /\ Chained(v, c) /\ Range(c) \subseteq DOMAIN v.slots
  /\ j.phase \in {"load", "next", "done"}
  /\ j.phase = "load" =>
       /\ j.got = <<>>
       /\ \E k \in 0 .. Len(c) - 1 : j.cluster = c[k + 1] /\ FatGoes(v, c, k) /\ FatNone(v, c, j, k)
  /\ j.phase = "next" =>
       \E k \in 0 .. Len(c) - 1 :
         /\ j.cluster = c[k + 1]
         /\ IF j.got # <<>> THEN FatFirst(v, c, j) ELSE FatGoes(v, c, k + 1) /\ FatNone(v, c, j, k + 1)
  /\ j.phase = "done" =>
       IF j.got # <<>> THEN FatFirst(v, c, j) ELSE j.failed \/ FatNone(v, c, j, Len(c))

FatJobTrue(v, j) ==
  /\ FatTyped(j)
  /\ j.op # "none" => v.bps = SECTOR
  /\ j.op = "read" => FatReading(v, Chain(v, j.file.first), j)
  /\ j.op = "list" => FatListing(v, Chain(v, j.file.first), j)
  /\ j.op = "find" => FatFinding(v, Chain(v, j.file.first), j)

FatInv == fatVol \in FatVolumes /\ fatRoot \in BOOLEAN /\ FatJobTrue(fatVol, fatJob)

LEMMA FatBegins ==
  ASSUME FatInit
  PROVE  FatInv
<1>1. FatTyped(FatIdle) /\ FatIdle.op = "none"
  <2>1. PICK j : j = FatIdle
    OBVIOUS
  <2>2. /\ DOMAIN j = FatFields /\ j.phase = "idle" /\ j.op = "none" /\ j.from = 0 /\ j.skip = 0 /\ j.intra = 0 /\ j.left = 0
        /\ j.seen = 0 /\ j.failed = FALSE
    BY <2>1 DEF FatIdle, FatFields
  <2>3. j.failed \in BOOLEAN
    BY <2>2, Zenon
  <2> QED
    BY <2>1, <2>2, <2>3 DEF FatTyped
<1>2. FatJobTrue(fatVol, FatIdle)
  BY <1>1 DEF FatJobTrue
<1> QED
  BY <1>2 DEF FatInit, FatInv

(* The cluster after one of a chain.                                       *)
LEMMA FatLeads ==
  ASSUME NEW v \in FatVolumes, NEW c, Chained(v, c), NEW k \in 0 .. Len(c) - 1
  PROVE  /\ Len(c) \in Nat \ {0} /\ c[k + 1] \in Nat
         /\ v.fat[c[k + 1]] = EOC <=> k = Len(c) - 1
         /\ k # Len(c) - 1 => v.fat[c[k + 1]] = c[(k + 1) + 1] /\ k + 1 \in 0 .. Len(c) - 1
<1>1. c \in Seq(DOMAIN v.fat) /\ c # <<>> /\ DOMAIN v.fat \subseteq Nat \ {0, 1}
  BY FatAssumption DEF Chained, BootSector
<1>2. PICK n \in Nat : n = Len(c)
  BY <1>1
<1>3. n # 0 /\ DOMAIN c = 1 .. n
  BY <1>1, <1>2
<1>4. k + 1 \in 1 .. n
  BY <1>2
<1>5. c[k + 1] \in DOMAIN v.fat
  BY <1>1, <1>3, <1>4
<1>6. v.fat[c[k + 1]] = IF k + 1 = n THEN EOC ELSE c[(k + 1) + 1]
  BY <1>2, <1>3, <1>4 DEF Chained
<1>7. k # n - 1 => k + 1 \in 0 .. n - 1 /\ (k + 1) + 1 \in 1 .. n
  BY <1>2
<1>8. k # n - 1 => c[(k + 1) + 1] \in DOMAIN v.fat
  BY <1>1, <1>3, <1>7
<1>9. k # n - 1 => v.fat[c[k + 1]] = c[(k + 1) + 1] /\ c[(k + 1) + 1] # EOC
  BY <1>1, <1>2, <1>6, <1>8 DEF EOC
<1>10. k = n - 1 => v.fat[c[k + 1]] = EOC
  BY <1>2, <1>6
<1> QED
  BY <1>1, <1>2, <1>3, <1>5, <1>7, <1>9, <1>10

LEMMA FatNumbers ==
  ASSUME NEW v \in FatVolumes, v.bps = SECTOR
  PROVE  /\ SECTOR \in Nat \ {0} /\ v.spc \in Nat \ {0} /\ FatSize(v) \in Nat \ {0} /\ FatSize(v) = SECTOR * v.spc
         /\ v.reserved \in Nat /\ v.fats \in Nat /\ v.fatSize \in Nat
<1>1. PICK s \in Nat \ {0} : s = SECTOR
  BY FatAssumption
<1>2. PICK p \in Nat \ {0} : p = v.spc
  BY FatAssumption DEF BootSector
<1>3. s * p \in Nat \ {0}
  OBVIOUS
<1>4. v.reserved \in Nat /\ v.fats \in Nat /\ v.fatSize \in Nat
  BY FatAssumption DEF BootSector
<1> QED
  BY <1>1, <1>2, <1>3, <1>4 DEF FatSize

LEMMA MountKeepsFat ==
  ASSUME FatInv, FatMount
  PROVE  FatInv'
BY DEF FatInv, FatMount

(* A call that reads from an offset within the file.                       *)
LEMMA FatReadKeeps ==
  ASSUME FatInv, NEW e, e.size \in Nat, Stored(fatVol, e), NEW at \in Nat, at < e.size, NEW len \in Nat, NEW ask,
         FatBegin("read", e, at, len, ask)
  PROVE  FatInv'
<1>1. PICK v \in FatVolumes : v = fatVol /\ fatVol' = v /\ v.bps = SECTOR
  BY DEF FatInv, FatBegin
<1>2. PICK c : c = Chain(v, e.first)
  OBVIOUS
<1>3. Chained(v, c) /\ c[1] = e.first /\ e.size <= FatSize(v) * Len(c)
  BY <1>1, <1>2 DEF Stored, FatSize
<1>4. PICK B \in Nat \ {0} : B = FatSize(v)
  BY <1>1, FatNumbers
<1>5. PICK n \in Nat \ {0} : n = Len(c)
  <2>1. c \in Seq(DOMAIN v.fat) /\ c # <<>>
    BY <1>3 DEF Chained
  <2>2. Len(c) \in Nat /\ Len(c) # 0
    BY <2>1
  <2> QED
    BY <2>2
<1>6. PICK skip \in Nat : skip = at \div B
  OBVIOUS
<1>7. PICK intra \in 0 .. B - 1 : intra = at % B
  OBVIOUS
<1>8. at = B * skip + intra
  BY <1>6, <1>7
<1>9. PICK left \in Nat : left = (IF at + len > e.size THEN e.size - at ELSE len) /\ at + left <= e.size
  OBVIOUS
<1>10. PICK z \in Nat : z = e.size
  OBVIOUS
<1>11. at < B * n /\ at + left <= B * n
  <2>1. B * n \in Nat /\ z <= B * n
    BY <1>3, <1>4, <1>5, <1>10
  <2>2. at < z /\ at + left <= z
    BY <1>9, <1>10
  <2> QED
    BY <2>1, <2>2
<1>12. PICK j : j = fatJob'
  OBVIOUS
<1>13. /\ DOMAIN j = FatFields
       /\ j.phase = (IF skip > 0 THEN "seek" ELSE "load") /\ j.op = "read" /\ j.file = [first |-> e.first, size |-> e.size]
       /\ j.from = at /\ j.cluster = e.first /\ j.skip = skip /\ j.intra = intra /\ j.left = left
       /\ j.got = <<>> /\ j.seen = 0 /\ j.failed = FALSE
  <2>1. BytesPerCluster = B
    BY <1>1, <1>4 DEF BytesPerCluster, FatSize
  <2>2. j = [FatIdle EXCEPT
       !.op = "read", !.file = [first |-> e.first, size |-> e.size], !.from = at, !.ask = ask,
       !.cluster = e.first, !.skip = skip, !.intra = intra,
       !.left = left, !.phase = IF skip > 0 THEN "seek" ELSE "load"]
    BY <1>6, <1>7, <1>9, <1>12, <2>1 DEF FatBegin
  <2> QED
    BY <2>2 DEF FatIdle, FatFields
<1>14. FatTyped(j)
  <2>1. j.failed \in BOOLEAN
    BY <1>13, Zenon
  <2>2. j.phase \in {"seek", "load"} /\ j.seen \in Nat /\ j.intra \in Nat
    BY <1>13
  <2> QED
    BY <1>13, <2>1, <2>2 DEF FatTyped
<1>15. FatReading(v, c, j)
  <2>1. j.got \in Seq(Int \X Int) /\ Len(j.got) = 0
    BY <1>13
  <2>2. 0 \in 0 .. n - 1 /\ c[0 + 1] = e.first
    BY <1>3
  <2>3. j.phase = "seek" => j.skip > 0 /\ j.cluster = c[0 + 1] /\ 0 + j.skip = j.from \div B /\ j.intra = j.from % B
    BY <1>6, <1>7, <1>13, <2>2
  <2>4. j.phase = "load" => j.cluster = c[0 + 1] /\ StartsIn(B, j.from + Len(j.got), 0, j.intra)
    <3> SUFFICES ASSUME skip = 0 PROVE StartsIn(B, at, 0, intra)
      BY <1>13, <2>1, <2>2
    <3> QED
      BY <1>8 DEF StartsIn
  <2>5. j.from < B * n /\ j.from + Len(j.got) + j.left <= B * n
    BY <1>11, <1>13, <2>1
  <2>6. \A i \in 1 .. Len(j.got) : j.got[i] = FatByte(v, c, j.from + i - 1)
    BY <2>1
  <2>7. j.phase \notin {"next", "done"} /\ j.got = <<>>
    BY <1>13
  <2>8. j.phase = "seek" => \E k \in 0 .. n - 1 : j.cluster = c[k + 1] /\ k + j.skip = j.from \div B
    BY <2>2, <2>3
  <2>9. j.phase = "load" => \E k \in 0 .. n - 1 : j.cluster = c[k + 1] /\ StartsIn(B, j.from + Len(j.got), k, j.intra)
    BY <2>2, <2>4
  <2> QED
    BY <1>3, <1>4, <1>5, <2>1, <2>3, <2>5, <2>6, <2>7, <2>8, <2>9 DEF FatReading
<1>16. Chain(v, j.file.first) = c
  BY <1>2, <1>13
<1>17. FatJobTrue(v, j)
  BY <1>1, <1>13, <1>14, <1>15, <1>16 DEF FatJobTrue
<1> QED
  BY <1>1, <1>12, <1>17 DEF FatInv, FatBegin

(* A call that goes through a directory.                                   *)
LEMMA FatDirKeeps ==
  ASSUME FatInv, NEW first, Opens(fatVol, first), fatVol.bps = SECTOR, UNCHANGED <<fatVol, fatRoot>>,
         FatTyped(fatJob'), fatJob'.phase = "load", fatJob'.op \in {"list", "find"}, fatJob'.file.first = first,
         fatJob'.cluster = first, fatJob'.got = <<>>, fatJob'.seen = 0
  PROVE  FatInv'
<1>1. PICK v \in FatVolumes : v = fatVol /\ fatVol' = v /\ v.bps = SECTOR
  BY DEF FatInv
<1>2. PICK c : c = Chain(v, first)
  OBVIOUS
<1>3. Chained(v, c) /\ c[1] = first /\ Range(c) \subseteq DOMAIN v.slots
  BY <1>1, <1>2 DEF Opens
<1>4. PICK j : j = fatJob'
  OBVIOUS
<1>5. 0 \in 0 .. Len(c) - 1
  <2>1. c \in Seq(DOMAIN v.fat) /\ c # <<>>
    BY <1>3 DEF Chained
  <2>2. Len(c) \in Nat /\ Len(c) # 0
    BY <2>1
  <2> QED
    BY <2>2
<1>6. FatGoes(v, c, 0) /\ FatCount(v, c, 0) = 0 /\ FatNone(v, c, j, 0)
  <2>1. PlaceRows(FatRows(v, c), 0) = {} /\ Cardinality({}) = 0
    BY FS_EmptySet DEF PlaceRows
  <2> QED
    BY <2>1 DEF FatGoes, FatCount, FatNone
<1>7. j.cluster = c[0 + 1] /\ j.seen <= j.from
  BY <1>3, <1>4 DEF FatTyped
<1>8. j.op = "list" => FatListing(v, c, j)
  BY <1>3, <1>4, <1>5, <1>6, <1>7 DEF FatListing
<1>9. j.op = "find" => FatFinding(v, c, j)
  BY <1>3, <1>4, <1>5, <1>6, <1>7 DEF FatFinding
<1>10. FatJobTrue(v, j)
  BY <1>1, <1>2, <1>4, <1>8, <1>9 DEF FatJobTrue
<1> QED
  BY <1>1, <1>4, <1>10 DEF FatInv

LEMMA FatCallsKeep ==
  ASSUME FatInv, NEW first, Opens(fatVol, first), NEW d, d.first = first
  PROVE  /\ \A n : FatFind(d, n) => FatInv'
         /\ \A i \in Nat : FatReaddir(d, i) => FatInv'
<1>1. ASSUME NEW n, FatFind(d, n) PROVE FatInv'
  <2>1. PICK j : j = fatJob'
    OBVIOUS
  <2>2. PICK B \in Nat \ {0} : B = BytesPerCluster
    BY <1>1, FatNumbers DEF FatFind, FatBegin, FatInv, BytesPerCluster, FatSize
  <2>3. 0 \div B = 0 /\ 0 % B = 0
    <3>1. B * 0 + 0 = 0 /\ 0 \in 0 .. B - 1 /\ 0 \in Int
      OBVIOUS
    <3>2. (B * 0 + 0) % B = 0 /\ (B * 0 + 0) \div B = 0
      BY <3>1, DivUnique
    <3> QED
      BY <3>1, <3>2
  <2>4. fatVol.bps = SECTOR /\ UNCHANGED <<fatVol, fatRoot>>
    BY <1>1 DEF FatFind, FatBegin
  <2>5. j = [FatIdle EXCEPT !.op = "find", !.file = [first |-> first, size |-> 0], !.from = 0, !.ask = n,
                  !.cluster = first, !.skip = 0, !.intra = 0, !.left = 0, !.phase = "load"]
    <3>1. PICK e : e = [first |-> d.first, size |-> 0]
      OBVIOUS
    <3>2. e.first = first /\ e.size = 0 /\ [first |-> e.first, size |-> e.size] = [first |-> first, size |-> 0]
      BY <3>1
    <3>3. FatBegin("find", e, 0, 0, n)
      BY <1>1, <3>1 DEF FatFind
    <3>4. PICK phase, left : left = (IF 0 + 0 > e.size THEN e.size - 0 ELSE 0) /\ phase = IF 0 \div B > 0 THEN "seek" ELSE "load"
      OBVIOUS
    <3>5. phase = "load" /\ left = 0
      BY <2>3, <3>2, <3>4
    <3>6. j = [FatIdle EXCEPT !.op = "find", !.file = [first |-> e.first, size |-> e.size], !.from = 0, !.ask = n,
                  !.cluster = e.first, !.skip = 0 \div B, !.intra = 0 % B, !.left = left, !.phase = phase]
      BY <2>1, <2>2, <3>3, <3>4 DEF FatBegin
    <3> QED
      BY <2>3, <3>2, <3>5, <3>6
  <2>6. /\ DOMAIN j = FatFields /\ j.phase = "load" /\ j.op = "find" /\ j.file = [first |-> first, size |-> 0]
        /\ j.from = 0 /\ j.cluster = first /\ j.skip = 0 /\ j.intra = 0 /\ j.left = 0 /\ j.got = <<>> /\ j.seen = 0 /\ j.failed = FALSE
    BY <2>5 DEF FatIdle, FatFields
  <2>7. FatTyped(j)
    <3>1. j.failed \in BOOLEAN
      BY <2>6, Zenon
    <3> QED
      BY <2>6, <3>1 DEF FatTyped
  <2> QED
    BY <2>1, <2>4, <2>6, <2>7, FatDirKeeps
<1>2. ASSUME NEW i \in Nat, FatReaddir(d, i) PROVE FatInv'
  <2>1. PICK j : j = fatJob'
    OBVIOUS
  <2>2. /\ fatVol.bps = SECTOR /\ UNCHANGED <<fatVol, fatRoot>>
        /\ j = [FatIdle EXCEPT !.op = "list", !.file = [first |-> first, size |-> 0], !.from = i,
                               !.cluster = first, !.phase = "load"]
    BY <1>2, <2>1 DEF FatReaddir
  <2>3. /\ DOMAIN j = FatFields /\ j.phase = "load" /\ j.op = "list" /\ j.file = [first |-> first, size |-> 0]
        /\ j.from = i /\ j.cluster = first /\ j.skip = 0 /\ j.intra = 0 /\ j.left = 0 /\ j.got = <<>> /\ j.seen = 0 /\ j.failed = FALSE
    BY <2>2 DEF FatIdle, FatFields
  <2>4. FatTyped(j)
    <3>1. j.failed \in BOOLEAN
      BY <2>3, Zenon
    <3> QED
      BY <2>3, <3>1 DEF FatTyped
  <2> QED
    BY <2>1, <2>2, <2>3, <2>4, FatDirKeeps
<1> QED
  BY <1>1, <1>2

LEMMA BelowProduct ==
  ASSUME NEW q \in Nat \ {0}, NEW d \in Nat, NEW r \in Nat, NEW n \in Nat, q * d + r < q * n
  PROVE  d < n
<1> SUFFICES ASSUME n <= d PROVE FALSE
  OBVIOUS
<1>1. PICK m \in Nat : d = n + m
  <2>1. d - n \in Nat /\ d = n + (d - n)
    OBVIOUS
  <2> QED
    BY <2>1
<1>2. q * d = q * n + q * m
  BY <1>1
<1>3. q * m \in Nat /\ q * n \in Nat
  OBVIOUS
<1> QED
  BY <1>2, <1>3

(* The entry of the FAT, or the end of the chain when it cannot be read.   *)
FatStep(v, j, next, failed) == \/ next = v.fat[j.cluster] /\ failed = j.failed
                               \/ next = EOC /\ failed = TRUE

LEMMA SeekKeepsFat ==
  ASSUME FatInv, FatSeek
  PROVE  FatInv'
<1>1. PICK j : j = fatJob
  OBVIOUS
<1>2. PICK v \in FatVolumes : v = fatVol /\ fatVol' = v
  BY DEF FatInv, FatSeek
<1>3. FatTyped(j) /\ j.phase = "seek" /\ FatJobTrue(v, j)
  BY <1>1, <1>2 DEF FatInv, FatJobTrue, FatSeek
<1>4. PICK c : c = Chain(v, j.file.first)
  OBVIOUS
<1>5. j.op = "read" /\ FatReading(v, c, j) /\ v.bps = SECTOR
  BY <1>3, <1>4 DEF FatJobTrue, FatListing, FatFinding, FatTyped
<1>6. PICK B \in Nat \ {0} : B = FatSize(v)
  BY <1>5, FatNumbers
<1>7. PICK n \in Nat \ {0} : n = Len(c)
  BY <1>5 DEF FatReading, Chained
<1>8. PICK from, skip \in Nat : from = j.from /\ skip = j.skip /\ skip > 0
  BY <1>3, <1>5 DEF FatTyped, FatReading
<1>9. PICK q \in Nat : q = from \div B
  OBVIOUS
<1>10. PICK r \in 0 .. B - 1 : r = from % B
  OBVIOUS
<1>11. from = B * q + r
  BY <1>9, <1>10
<1>12. q < n
  <2>1. B * q + r < B * n
    BY <1>5, <1>6, <1>7, <1>8, <1>11 DEF FatReading
  <2>2. r \in Nat
    OBVIOUS
  <2> QED
    BY <2>1, <2>2, BelowProduct
<1>13. j.got = <<>> /\ j.intra = r
  BY <1>3, <1>5, <1>6, <1>8, <1>10 DEF FatReading
<1>14. PICK x \in 0 .. n - 1 : j.cluster = c[x + 1] /\ x + skip = q
  BY <1>3, <1>5, <1>6, <1>7, <1>8, <1>9 DEF FatReading
<1>15. x # n - 1 /\ x + 1 \in 0 .. n - 1
  BY <1>8, <1>12, <1>14
<1>16. v.fat[j.cluster] = c[(x + 1) + 1] /\ v.fat[j.cluster] # EOC
  <2>1. Chained(v, c) /\ x \in 0 .. Len(c) - 1
    BY <1>5, <1>7 DEF FatReading
  <2>2. /\ v.fat[c[x + 1]] = EOC <=> x = Len(c) - 1
        /\ x # Len(c) - 1 => v.fat[c[x + 1]] = c[(x + 1) + 1]
    BY <2>1, FatLeads
  <2> QED
    BY <1>7, <1>14, <1>15, <2>2
<1>17. PICK next, failed : /\ failed \in BOOLEAN /\ FatStep(v, j, next, failed)
                           /\ fatJob' = [j EXCEPT !.cluster = next, !.failed = failed, !.skip = skip - 1,
                                           !.phase = IF next = EOC THEN "done" ELSE IF skip = 1 THEN "load" ELSE "seek"]
  BY <1>1, <1>2, <1>8 DEF FatSeek, NextCluster, FatStep
<1>18. PICK k : k = fatJob'
  OBVIOUS
<1>19. /\ DOMAIN k = FatFields
       /\ k.phase = (IF next = EOC THEN "done" ELSE IF skip = 1 THEN "load" ELSE "seek") /\ k.op = "read"
       /\ k.file = j.file /\ k.from = from /\ k.cluster = next /\ k.skip = skip - 1 /\ k.intra = r /\ k.left = j.left
       /\ k.got = <<>> /\ k.seen = j.seen /\ k.failed = failed
  BY <1>3, <1>5, <1>8, <1>13, <1>17, <1>18 DEF FatTyped, FatFields
<1>20. FatTyped(k)
  <2>1. k.failed \in BOOLEAN
    BY <1>17, <1>19, Zenon
  <2>2. k.phase \in {"seek", "load", "done"} /\ k.skip \in Nat
    BY <1>8, <1>19
  <2> QED
    BY <1>3, <1>5, <1>19, <2>1, <2>2 DEF FatTyped
<1>21. FatReading(v, c, k)
  <2>1. k.phase = "done" => k.failed
    BY <1>16, <1>17, <1>19 DEF FatStep
  <2>2. next # EOC => next = c[(x + 1) + 1]
    BY <1>16, <1>17 DEF FatStep
  <2>3. k.phase = "seek" => k.skip > 0 /\ k.cluster = c[(x + 1) + 1] /\ (x + 1) + k.skip = q
    BY <1>8, <1>14, <1>19, <2>2
  <2>4. k.phase = "load" => k.cluster = c[(x + 1) + 1] /\ x + 1 = q
    BY <1>14, <1>19, <2>2
  <2>5. Len(k.got) = 0 /\ from + 0 = B * q + r
    BY <1>11, <1>19
  <2>6. k.phase = "load" => \E m \in 0 .. n - 1 : k.cluster = c[m + 1] /\ StartsIn(B, k.from + Len(k.got), m, k.intra)
    BY <1>15, <1>19, <2>4, <2>5 DEF StartsIn
  <2>7. k.phase = "seek" => \E m \in 0 .. n - 1 : k.cluster = c[m + 1] /\ m + k.skip = q
    BY <1>15, <2>3
  <2>8. k.from < B * n /\ k.from + Len(k.got) + k.left <= B * n
    BY <1>5, <1>6, <1>7, <1>8, <1>13, <1>19 DEF FatReading
  <2>9. k.got \in Seq(Int \X Int) /\ \A i \in 1 .. Len(k.got) : k.got[i] = FatByte(v, c, k.from + i - 1)
    BY <1>19, <2>5
  <2>10. k.phase # "next"
    BY <1>19
  <2> QED
    BY <1>5, <1>6, <1>7, <1>9, <1>10, <1>19, <2>1, <2>3, <2>6, <2>7, <2>8, <2>9, <2>10 DEF FatReading
<1>22. FatJobTrue(v, k)
  BY <1>4, <1>5, <1>19, <1>20, <1>21 DEF FatJobTrue
<1> QED
  BY <1>2, <1>18, <1>22 DEF FatInv, FatSeek

LEMMA LoadFailsKeepsFat ==
  ASSUME FatInv, FatLoadFails
  PROVE  FatInv'
<1>1. PICK j : j = fatJob
  OBVIOUS
<1>2. PICK v \in FatVolumes : v = fatVol /\ fatVol' = v
  BY DEF FatInv, FatLoadFails
<1>3. FatTyped(j) /\ j.phase = "load" /\ FatJobTrue(v, j)
  BY <1>1, <1>2 DEF FatInv, FatJobTrue, FatLoadFails
<1>4. PICK k : k = [j EXCEPT !.phase = "done", !.failed = TRUE]
  OBVIOUS
<1>5. /\ DOMAIN k = FatFields
      /\ k.phase = "done" /\ k.op = j.op /\ k.file = j.file /\ k.from = j.from /\ k.cluster = j.cluster /\ k.skip = j.skip
      /\ k.intra = j.intra /\ k.left = j.left /\ k.got = j.got /\ k.seen = j.seen /\ k.failed = TRUE
  BY <1>3, <1>4 DEF FatTyped, FatFields
<1>6. FatTyped(k)
  BY <1>3, <1>5 DEF FatTyped
<1>7. PICK c : c = Chain(v, j.file.first)
  OBVIOUS
<1>8. k.op = "read" => FatReading(v, c, k)
  BY <1>3, <1>5, <1>7 DEF FatJobTrue, FatReading
<1>9. k.op = "list" => FatListing(v, c, k)
  BY <1>3, <1>5, <1>7 DEF FatJobTrue, FatListing
<1>10. k.op = "find" => FatFinding(v, c, k)
  BY <1>3, <1>5, <1>7 DEF FatJobTrue, FatFinding
<1>11. FatJobTrue(v, k)
  BY <1>3, <1>5, <1>6, <1>7, <1>8, <1>9, <1>10 DEF FatJobTrue
<1> QED
  BY <1>1, <1>2, <1>4, <1>11 DEF FatInv, FatLoadFails

(* A cluster's bytes, from where the last one left off.                    *)
LEMMA LoadKeepsRead ==
  ASSUME FatInv, FatLoad, fatJob.op = "read"
  PROVE  FatInv'
<1>1. PICK j : j = fatJob
  OBVIOUS
<1>2. PICK v \in FatVolumes : v = fatVol /\ fatVol' = v
  BY DEF FatInv, FatLoad
<1>3. FatTyped(j) /\ j.phase = "load" /\ j.op = "read" /\ FatJobTrue(v, j)
  BY <1>1, <1>2 DEF FatInv, FatJobTrue, FatLoad
<1>4. PICK c : c = Chain(v, j.file.first)
  OBVIOUS
<1>5. FatReading(v, c, j) /\ v.bps = SECTOR
  BY <1>3, <1>4 DEF FatJobTrue
<1>6. PICK B \in Nat \ {0} : B = FatSize(v)
  BY <1>5, FatNumbers
<1>7. PICK n \in Nat \ {0} : n = Len(c)
  BY <1>5 DEF FatReading, Chained
<1>8. PICK from, left, intra \in Nat : from = j.from /\ left = j.left /\ intra = j.intra
  BY <1>3 DEF FatTyped
<1>9. PICK g \in Seq(Int \X Int) : g = j.got
  BY <1>5 DEF FatReading
<1>10. PICK l \in Nat : l = Len(g)
  BY <1>9
<1>11. PICK x \in 0 .. n - 1 : j.cluster = c[x + 1] /\ StartsIn(B, from + l, x, intra)
  BY <1>3, <1>5, <1>6, <1>7, <1>8, <1>9, <1>10 DEF FatReading
<1>12. intra \in 0 .. B - 1 /\ from + l = B * x + intra
  BY <1>11 DEF StartsIn
<1>13. PICK chunk : chunk = Min({left, B - intra})
  OBVIOUS
<1>14. chunk \in Nat /\ chunk <= left /\ chunk <= B - intra /\ (chunk = left \/ chunk = B - intra)
  <2>1. {left, B - intra} \subseteq Nat /\ {left, B - intra} # {}
    BY <1>12
  <2>2. chunk \in {left, B - intra} /\ \A y \in {left, B - intra} : chunk <= y
    BY <1>13, <2>1, MinFacts
  <2> QED
    BY <2>1, <2>2
<1>15. StaysIn(B, from + l, x, intra, chunk)
  <2>1. from + l \in Nat /\ x \in Nat /\ chunk \in Nat /\ chunk <= B - intra
    BY <1>14
  <2> QED
    BY <1>11, <2>1, SectorBytes
<1>16. PICK base \in Int : base = v.reserved + v.fats * v.fatSize + (c[x + 1] - 2) * v.spc
  <2>1. PICK p, u, w, z \in Nat : p = v.spc /\ u = v.reserved /\ w = v.fats /\ z = v.fatSize
    BY <1>5, FatNumbers
  <2>2. PICK y \in Nat : y = c[x + 1]
    BY <1>5, <1>7, FatLeads DEF FatReading
  <2>3. u + w * z + (y - 2) * p \in Int
    OBVIOUS
  <2> QED
    BY <2>1, <2>2, <2>3
<1>17. PICK S \in Nat \ {0} : S = SECTOR
  BY FatAssumption
<1>18. PICK more : more = [i \in 1 .. chunk |-> <<base + ((intra + i - 1) \div S), (intra + i - 1) % S>>]
  OBVIOUS
<1>19. more \in Seq(Int \X Int) /\ Len(more) = chunk
  <2>1. \A i \in 1 .. chunk : (intra + i - 1) \div S \in Int /\ (intra + i - 1) % S \in Int
    BY <1>14
  <2>2. \A i \in 1 .. chunk : <<base + ((intra + i - 1) \div S), (intra + i - 1) % S>> \in Int \X Int
    BY <2>1
  <2> QED
    BY <1>14, <1>18, <2>2
<1>20. PICK h : h = g \o more
  OBVIOUS
<1>21. /\ h \in Seq(Int \X Int) /\ Len(h) = l + chunk
       /\ \A i \in 1 .. l + chunk : h[i] = IF i <= l THEN g[i] ELSE more[i - l]
  BY <1>10, <1>19, <1>20, ConcatProperties
<1>22. PICK k : k = [j EXCEPT !.got = h, !.left = left - chunk, !.intra = 0, !.phase = "next"]
  OBVIOUS
<1>23. fatJob' = k
  <2>1. BytesPerCluster = B
    BY <1>2, <1>6 DEF BytesPerCluster, FatSize
  <2>2. \A i : Loaded(c[x + 1], intra + i - 1) = <<base + ((intra + i - 1) \div S), (intra + i - 1) % S>>
    BY <1>2, <1>16, <1>17 DEF Loaded, ClusterLba
  <2>3. [i \in 1 .. chunk |-> Loaded(c[x + 1], intra + i - 1)] = more
    BY <1>18, <2>2
  <2>4. fatJob' = [j EXCEPT !.got = j.got \o [i \in 1 .. chunk |-> Loaded(j.cluster, j.intra + i - 1)],
                            !.left = j.left - chunk, !.intra = 0, !.phase = "next"]
    BY <1>1, <1>3, <1>8, <1>13, <2>1 DEF FatLoad
  <2> QED
    BY <1>8, <1>9, <1>11, <1>20, <1>22, <2>3, <2>4
<1>24. /\ DOMAIN k = FatFields
       /\ k.phase = "next" /\ k.op = "read" /\ k.file = j.file /\ k.from = from /\ k.cluster = c[x + 1] /\ k.skip = j.skip
       /\ k.intra = 0 /\ k.left = left - chunk /\ k.got = h /\ k.seen = j.seen /\ k.failed = j.failed
  BY <1>3, <1>8, <1>11, <1>22 DEF FatTyped, FatFields
<1>25. FatTyped(k)
  <2>1. k.left \in Nat /\ k.intra \in Nat
    BY <1>14, <1>24
  <2> QED
    BY <1>3, <1>24, <2>1 DEF FatTyped
<1>26. ASSUME NEW i \in 1 .. l + chunk PROVE h[i] = FatByte(v, c, from + i - 1)
  <2>1. CASE i <= l
    <3>1. h[i] = g[i]
      BY <1>21, <2>1
    <3>2. \A m \in 1 .. Len(j.got) : j.got[m] = FatByte(v, c, j.from + m - 1)
      BY <1>5 DEF FatReading
    <3>3. i \in 1 .. Len(j.got)
      BY <1>9, <1>10, <2>1
    <3>4. j.got[i] = FatByte(v, c, j.from + i - 1)
      BY <3>2, <3>3
    <3> QED
      BY <1>8, <1>9, <3>1, <3>4
  <2>2. CASE i > l
    <3>1. PICK m \in 0 .. chunk - 1 : m = i - l - 1
      BY <1>14, <2>2
    <3>2. h[i] = more[m + 1]
      BY <1>21, <2>2, <3>1
    <3>3. m + 1 \in 1 .. chunk /\ intra + (m + 1) - 1 = intra + m
      BY <1>14
    <3>4. more[m + 1] = <<base + ((intra + m) \div S), (intra + m) % S>>
      BY <1>18, <3>3
    <3>5. PICK y \in Nat : y = from + i - 1 /\ y = (from + l) + m
      BY <3>1
    <3>6. y \div B = x /\ y % B = intra + m
      BY <1>15, <3>5 DEF StaysIn
    <3>7. FatByte(v, c, y) = <<base + ((intra + m) \div S), (intra + m) % S>>
      BY <1>6, <1>16, <1>17, <3>6 DEF FatByte
    <3> QED
      BY <3>2, <3>4, <3>5, <3>7
  <2> QED
    BY <2>1, <2>2
<1>27. FatReading(v, c, k)
  <2>1. k.got \in Seq(Int \X Int) /\ Len(k.got) = l + chunk /\ \A i \in 1 .. Len(k.got) : k.got[i] = FatByte(v, c, k.from + i - 1)
    BY <1>21, <1>24, <1>26
  <2>2. k.from < B * n /\ k.from + Len(k.got) + k.left <= B * n
    <3>1. from < B * n /\ from + l + left <= B * n
      BY <1>5, <1>6, <1>7, <1>8, <1>9, <1>10 DEF FatReading
    <3>2. k.from + Len(k.got) + k.left = from + l + left
      BY <1>14, <1>24, <2>1
    <3> QED
      BY <1>24, <3>1, <3>2
  <2>3. k.left > 0 => k.from + Len(k.got) = B * (x + 1)
    <3> SUFFICES ASSUME chunk < left PROVE from + (l + chunk) = B * (x + 1)
      BY <1>14, <1>24, <2>1
    <3>1. chunk = B - intra
      BY <1>14
    <3>2. B * (x + 1) = B * x + B
      OBVIOUS
    <3> QED
      BY <1>12, <3>1, <3>2
  <2>4. \E m \in 0 .. n - 1 : k.cluster = c[m + 1] /\ (k.left > 0 => k.from + Len(k.got) = B * (m + 1))
    BY <1>24, <2>3
  <2>5. Chained(v, c)
    BY <1>5 DEF FatReading
  <2> QED
    BY <1>6, <1>7, <1>24, <2>1, <2>2, <2>4, <2>5 DEF FatReading
<1>28. FatJobTrue(v, k)
  BY <1>4, <1>5, <1>24, <1>25, <1>27 DEF FatJobTrue
<1> QED
  BY <1>2, <1>23, <1>28 DEF FatInv, FatLoad

(* The rows of a directory.                                                *)
LEMMA FatRowFacts ==
  ASSUME NEW v \in FatVolumes, NEW c, Chained(v, c), Range(c) \subseteq DOMAIN v.slots
  PROVE  /\ Len(c) \in Nat
         /\ \A k \in 0 .. Len(c) - 1 :
              /\ FatRows(v, c)[k] = FatRow(v, c, k)
              /\ IsFiniteSet(FatRow(v, c, k)) /\ FatRow(v, c, k) \subseteq Nat
              /\ \E t \in Nat : FatRow(v, c, k) \in SUBSET (1 .. t)
              /\ FatCount(v, c, k) \in Nat
              /\ FatCount(v, c, k + 1) = FatCount(v, c, k) + Cardinality(FatRow(v, c, k))
<1>1. c \in Seq(DOMAIN v.fat)
  BY DEF Chained
<1>2. PICK n \in Nat : n = Len(c)
  BY <1>1
<1>3. ASSUME NEW k \in 0 .. n - 1
      PROVE  /\ FatRows(v, c)[k] = FatRow(v, c, k)
             /\ IsFiniteSet(FatRow(v, c, k)) /\ FatRow(v, c, k) \subseteq Nat
             /\ \E t \in Nat : FatRow(v, c, k) \in SUBSET (1 .. t)
  <2>1. k + 1 \in DOMAIN c
    BY <1>1, <1>2
  <2>2. PICK here : here = FatHere(v, c, k)
    OBVIOUS
  <2>3. here \in Seq(Range(here))
    <3>1. c[k + 1] \in DOMAIN v.slots
      BY <2>1 DEF Range
    <3> QED
      BY <2>2, <3>1, FatAssumption DEF FatHere
  <2>4. PICK t \in Nat : t = Len(here) /\ DOMAIN here = 1 .. t
    BY <2>3
  <2>5. FatRow(v, c, k) \in SUBSET (1 .. t)
    BY <2>2, <2>4 DEF FatRow, Scanned
  <2>6. IsFiniteSet(1 .. t)
    BY FS_Interval
  <2>7. IsFiniteSet(FatRow(v, c, k))
    BY <2>5, <2>6, FS_Subset
  <2>8. FatRows(v, c)[k] = FatRow(v, c, k)
    BY <1>2 DEF FatRows
  <2> QED
    BY <2>5, <2>7, <2>8
<1>4. PICK rows : rows = FatRows(v, c)
  OBVIOUS
<1>5. \A m \in 0 .. n - 1 : IsFiniteSet(rows[m])
  BY <1>3, <1>4
<1>6. ASSUME NEW k \in 0 .. n - 1
      PROVE  /\ Cardinality(PlaceRows(rows, k)) \in Nat
             /\ Cardinality(PlaceRows(rows, k + 1)) = Cardinality(PlaceRows(rows, k)) + Cardinality(rows[k])
  BY <1>5, RowsCount
<1>7. ASSUME NEW k \in 0 .. n - 1
      PROVE  /\ FatCount(v, c, k) \in Nat
             /\ FatCount(v, c, k + 1) = FatCount(v, c, k) + Cardinality(FatRow(v, c, k))
  BY <1>3, <1>4, <1>6 DEF FatCount
<1> QED
  BY <1>2, <1>3, <1>7

(* Behind the end there is nothing, and without it the search goes on.     *)
LEMMA FatEnds ==
  ASSUME NEW v \in FatVolumes, NEW c, Chained(v, c), Range(c) \subseteq DOMAIN v.slots, NEW k \in 0 .. Len(c) - 1
  PROVE  /\ FatGoes(v, c, k) /\ ~Ended(FatHere(v, c, k)) => FatGoes(v, c, k + 1)
         /\ Ended(FatHere(v, c, k)) => /\ \A m \in k + 1 .. Len(c) - 1 : FatRow(v, c, m) = {}
                                       /\ FatCount(v, c, Len(c)) = FatCount(v, c, k + 1)
<1>1. PICK n \in Nat : n = Len(c)
  BY FatRowFacts
<1>2. ASSUME FatGoes(v, c, k), ~Ended(FatHere(v, c, k)) PROVE FatGoes(v, c, k + 1)
  <2>1. \A m \in 1 .. k + 1 : m \in 1 .. k \/ m = k + 1
    BY <1>1
  <2> QED
    BY <1>2, <2>1 DEF FatGoes, FatHere
<1>3. ASSUME Ended(FatHere(v, c, k))
      PROVE  /\ \A m \in k + 1 .. n - 1 : FatRow(v, c, m) = {}
             /\ FatCount(v, c, n) = FatCount(v, c, k + 1)
  <2>1. ASSUME NEW m \in k + 1 .. n - 1 PROVE FatRow(v, c, m) = {}
    <3>1. k + 1 \in 1 .. m
      BY <1>1
    <3>2. ~FatGoes(v, c, m)
      BY <1>3, <3>1 DEF FatGoes, FatHere
    <3> QED
      BY <3>2 DEF FatRow
  <2>2. PICK rows : rows = FatRows(v, c)
    OBVIOUS
  <2>3. \A m \in k + 1 .. n - 1 : rows[m] = {}
    <3>1. \A m \in 0 .. n - 1 : rows[m] = FatRow(v, c, m)
      BY <1>1, <2>2, FatRowFacts
    <3>2. \A m \in k + 1 .. n - 1 : m \in 0 .. n - 1
      BY <1>1
    <3> QED
      BY <2>1, <3>1, <3>2
  <2>4. k + 1 \in Nat /\ k + 1 <= n
    BY <1>1
  <2>5. PlaceRows(rows, n) = PlaceRows(rows, k + 1)
    BY <2>3, <2>4, EmptyRows
  <2> QED
    BY <2>1, <2>2, <2>5 DEF FatCount
<1> QED
  BY <1>1, <1>2, <1>3

(* What a cluster of a directory does to a call.                           *)
FatLoaded(j, here, shown, hits, k) ==
  k = IF hits # {} THEN [j EXCEPT !.got = <<here[Min(hits)]>>, !.phase = "next"]
      ELSE [j EXCEPT !.seen = j.seen + Cardinality(shown), !.phase = IF Ended(here) THEN "done" ELSE "next"]
FatLoadFields(j, here, shown, hits, k) ==
  /\ FatTyped(k) /\ k.op = j.op /\ k.file = j.file /\ k.from = j.from /\ k.ask = j.ask /\ k.cluster = j.cluster /\ k.failed = j.failed
  /\ hits # {} => k.got = <<here[Min(hits)]>> /\ k.phase = "next"
  /\ hits = {} => k.got = j.got /\ k.seen = j.seen + Cardinality(shown) /\ k.phase = IF Ended(here) THEN "done" ELSE "next"

LEMMA FatLoadedFields ==
  ASSUME NEW j, FatTyped(j), j.op # "none", NEW here, NEW shown, Cardinality(shown) \in Nat, NEW hits, NEW k, FatLoaded(j, here, shown, hits, k)
  PROVE  FatLoadFields(j, here, shown, hits, k)
<1>1. DOMAIN j = FatFields
  BY DEF FatTyped
<1>2. CASE hits # {}
  <2>1. k = [j EXCEPT !.got = <<here[Min(hits)]>>, !.phase = "next"]
    BY <1>2 DEF FatLoaded
  <2>2. /\ DOMAIN k = FatFields /\ k.op = j.op /\ k.file = j.file /\ k.from = j.from /\ k.ask = j.ask /\ k.cluster = j.cluster
        /\ k.failed = j.failed /\ k.skip = j.skip /\ k.intra = j.intra /\ k.left = j.left /\ k.seen = j.seen
        /\ k.got = <<here[Min(hits)]>> /\ k.phase = "next"
    BY <1>1, <2>1 DEF FatFields
  <2>3. FatTyped(k)
    BY <2>2 DEF FatTyped
  <2> QED
    BY <1>2, <2>2, <2>3 DEF FatLoadFields
<1>3. CASE hits = {}
  <2>1. PICK phase : phase = IF Ended(here) THEN "done" ELSE "next"
    OBVIOUS
  <2>2. k = [j EXCEPT !.seen = j.seen + Cardinality(shown), !.phase = phase]
    BY <1>3, <2>1 DEF FatLoaded
  <2>3. /\ DOMAIN k = FatFields /\ k.op = j.op /\ k.file = j.file /\ k.from = j.from /\ k.ask = j.ask /\ k.cluster = j.cluster
        /\ k.failed = j.failed /\ k.skip = j.skip /\ k.intra = j.intra /\ k.left = j.left /\ k.seen = j.seen + Cardinality(shown)
        /\ k.got = j.got /\ k.phase = phase
    BY <1>1, <2>2 DEF FatFields
  <2>4. phase \in {"done", "next"} /\ k.seen \in Nat
    BY <2>1, <2>3 DEF FatTyped
  <2>5. FatTyped(k)
    BY <2>3, <2>4 DEF FatTyped
  <2> QED
    BY <1>3, <2>1, <2>3, <2>5 DEF FatLoadFields
<1> QED
  BY <1>2, <1>3

LEMMA LoadKeepsList ==
  ASSUME NEW v \in FatVolumes, NEW c, NEW j, FatTyped(j), FatListing(v, c, j), j.op = "list", j.phase = "load",
         NEW here, here = v.slots[j.cluster], NEW shown, shown = Scanned(here),
         NEW hits, hits = {i \in shown : j.seen + Cardinality(Lower(shown, i)) = j.from},
         NEW k, FatLoaded(j, here, shown, hits, k)
  PROVE  FatListing(v, c, k) /\ FatTyped(k) /\ k.op = j.op /\ k.file = j.file
<1>1. PICK n \in Nat : n = Len(c)
  BY FatRowFacts DEF FatListing
<1>2. PICK x \in 0 .. n - 1 : j.cluster = c[x + 1] /\ FatGoes(v, c, x) /\ j.seen = FatCount(v, c, x) /\ j.seen <= j.from
  BY <1>1 DEF FatListing
<1>3. Chained(v, c) /\ Range(c) \subseteq DOMAIN v.slots /\ j.got = <<>>
  BY DEF FatListing
<1>4. here = FatHere(v, c, x) /\ shown = FatRow(v, c, x)
  BY <1>2 DEF FatHere, FatRow
<1>5. /\ IsFiniteSet(shown) /\ shown \subseteq Nat
      /\ \E t \in Nat : shown \in SUBSET (1 .. t)
      /\ FatCount(v, c, x) \in Nat
      /\ FatCount(v, c, x + 1) = FatCount(v, c, x) + Cardinality(shown)
  BY <1>1, <1>3, <1>4, FatRowFacts
<1>6. PICK count \in Nat : count = Cardinality(shown)
  BY <1>5, FS_CardinalityType
<1>7. PICK before \in Nat : before = FatCount(v, c, x) /\ FatCount(v, c, x + 1) = before + count
  BY <1>5, <1>6
<1>8. PICK from \in Nat : from = j.from
  BY DEF FatTyped
<1>9. FatLoadFields(j, here, shown, hits, k)
  BY <1>6, FatLoadedFields
<1>10. FatTyped(k) /\ k.op = j.op /\ k.file = j.file /\ k.from = from /\ k.cluster = c[x + 1]
  BY <1>2, <1>8, <1>9 DEF FatLoadFields
<1>11. CASE hits # {}
  <2>1. PICK i : i = Min(hits)
    OBVIOUS
  <2>2. i \in hits
    <3>1. hits \subseteq Nat
      BY <1>5
    <3> QED
      BY <2>1, <3>1, <1>11, MinFacts
  <2>3. k.phase = "next" /\ k.got = <<FatHere(v, c, x)[i]>> /\ k.got # <<>>
    <3>1. k.phase = "next" /\ k.got = <<here[i]>>
      BY <1>9, <1>11, <2>1 DEF FatLoadFields
    <3>2. here[i] = FatHere(v, c, x)[i]
      BY <1>4
    <3>3. k.got = <<FatHere(v, c, x)[i]>>
      BY <3>1, <3>2
    <3> QED
      BY <3>1, <3>3
  <2>4. k.from = FatCount(v, c, x) + Cardinality(Lower(FatRow(v, c, x), i)) /\ i \in FatRow(v, c, x)
    BY <1>2, <1>4, <1>8, <1>10, <2>2
  <2>5. FatFound(v, c, k)
    BY <1>1, <2>3, <2>4 DEF FatFound
  <2>6. FatListing(v, c, k)
    BY <1>1, <1>3, <1>10, <2>3, <2>5 DEF FatListing
  <2> QED
    BY <1>10, <2>6
<1>12. CASE hits = {}
  <2>1. before + count <= from
    <3> SUFFICES ASSUME from < before + count PROVE FALSE
      OBVIOUS
    <3>1. PICK m \in 0 .. count - 1 : m = from - before
      BY <1>2, <1>7, <1>8
    <3>2. PICK i \in shown : Cardinality(Lower(shown, i)) = m
      <4>1. PICK t \in Nat : shown \in SUBSET (1 .. t)
        BY <1>5
      <4>2. Ranks(shown, count)
        BY <1>6, <4>1, Ranked
      <4> QED
        BY <4>2 DEF Ranks
    <3>3. j.seen + Cardinality(Lower(shown, i)) = j.from
      BY <1>2, <1>7, <1>8, <3>1, <3>2
    <3> QED
      BY <1>12, <3>3
  <2>2. k.got = <<>> /\ k.seen = before + count /\ k.phase = IF Ended(here) THEN "done" ELSE "next"
    BY <1>2, <1>3, <1>6, <1>7, <1>9, <1>12 DEF FatLoadFields
  <2>3. CASE Ended(here)
    <3>1. FatCount(v, c, n) = before + count
      BY <1>1, <1>3, <1>4, <1>7, <2>3, FatEnds
    <3>2. k.phase = "done"
      BY <2>2, <2>3
    <3>3. FatListing(v, c, k)
      BY <1>1, <1>3, <1>10, <2>1, <2>2, <3>1, <3>2 DEF FatListing
    <3> QED
      BY <1>10, <3>3
  <2>4. CASE ~Ended(here)
    <3>1. FatGoes(v, c, x + 1)
      BY <1>1, <1>2, <1>3, <1>4, <2>4, FatEnds
    <3>2. k.phase = "next"
      BY <2>2, <2>4
    <3>3. k.seen = FatCount(v, c, x + 1) /\ k.seen <= k.from
      BY <1>7, <1>10, <2>1, <2>2
    <3>4. FatListing(v, c, k)
      BY <1>1, <1>3, <1>10, <2>2, <3>1, <3>2, <3>3 DEF FatListing
    <3> QED
      BY <1>10, <3>4
  <2> QED
    BY <2>3, <2>4
<1> QED
  BY <1>11, <1>12

FatHits(here, shown, ask) == {i \in shown : Twelve[here[i].name] = Twelve[ask]}
LEMMA LoadKeepsFind ==
  ASSUME NEW v \in FatVolumes, NEW c, NEW j, FatTyped(j), FatFinding(v, c, j), j.op = "find", j.phase = "load",
         NEW here, here = v.slots[j.cluster], NEW shown, shown = Scanned(here),
         NEW hits, hits = FatHits(here, shown, j.ask),
         NEW k, FatLoaded(j, here, shown, hits, k)
  PROVE  FatFinding(v, c, k) /\ FatTyped(k) /\ k.op = j.op /\ k.file = j.file
<1>1. PICK n \in Nat : n = Len(c)
  BY FatRowFacts DEF FatFinding
<1>2. PICK x \in 0 .. n - 1 : j.cluster = c[x + 1] /\ FatGoes(v, c, x) /\ FatNone(v, c, j, x)
  BY <1>1 DEF FatFinding
<1>3. Chained(v, c) /\ Range(c) \subseteq DOMAIN v.slots /\ j.got = <<>>
  BY DEF FatFinding
<1>4. here = FatHere(v, c, x) /\ shown = FatRow(v, c, x)
  BY <1>2 DEF FatHere, FatRow
<1>5. IsFiniteSet(shown) /\ shown \subseteq Nat /\ hits \subseteq shown
  BY <1>1, <1>3, <1>4, FatRowFacts DEF FatHits
<1>6. Cardinality(shown) \in Nat
  BY <1>5, FS_CardinalityType
<1>7. FatLoadFields(j, here, shown, hits, k)
  BY <1>6, FatLoadedFields
<1>8. FatTyped(k) /\ k.op = j.op /\ k.file = j.file /\ k.ask = j.ask /\ k.cluster = c[x + 1]
  BY <1>2, <1>7 DEF FatLoadFields
<1>9. \A m : FatNamed(v, c, k, m) = FatNamed(v, c, j, m)
  BY <1>8 DEF FatNamed
<1>10. hits = FatNamed(v, c, k, x)
  BY <1>4, <1>8 DEF FatNamed, FatHits
<1>11. FatNone(v, c, k, x)
  BY <1>2, <1>9 DEF FatNone
<1>12. CASE hits # {}
  <2>1. PICK i : i = Min(hits)
    OBVIOUS
  <2>2. i \in hits /\ \A y \in hits : i <= y
    <3>1. hits \subseteq Nat
      BY <1>5
    <3> QED
      BY <2>1, <3>1, <1>12, MinFacts
  <2>3. k.phase = "next" /\ k.got = <<FatHere(v, c, x)[i]>> /\ k.got # <<>>
    <3>1. k.phase = "next" /\ k.got = <<here[i]>>
      BY <1>7, <1>12, <2>1 DEF FatLoadFields
    <3>2. here[i] = FatHere(v, c, x)[i]
      BY <1>4
    <3>3. k.got = <<FatHere(v, c, x)[i]>>
      BY <3>1, <3>2
    <3> QED
      BY <3>1, <3>3
  <2>4. Lower(hits, i) = {}
    <3>1. hits \subseteq Nat
      BY <1>5
    <3> QED
      BY <2>2, <3>1 DEF Lower
  <2>5. FatFirst(v, c, k)
    BY <1>1, <1>10, <1>11, <2>2, <2>3, <2>4 DEF FatFirst
  <2>6. FatFinding(v, c, k)
    BY <1>1, <1>3, <1>8, <2>3, <2>5 DEF FatFinding
  <2> QED
    BY <1>8, <2>6
<1>13. CASE hits = {}
  <2>1. FatNone(v, c, k, x + 1)
    <3>1. \A m \in 0 .. (x + 1) - 1 : m \in 0 .. x - 1 \/ m = x
      BY <1>1
    <3> QED
      BY <1>10, <1>11, <1>13, <3>1 DEF FatNone
  <2>2. k.got = <<>> /\ k.phase = IF Ended(here) THEN "done" ELSE "next"
    BY <1>3, <1>7, <1>13 DEF FatLoadFields
  <2>3. CASE Ended(here)
    <3>1. \A m \in x + 1 .. n - 1 : FatRow(v, c, m) = {}
      BY <1>1, <1>3, <1>4, <2>3, FatEnds
    <3>2. \A m \in x + 1 .. n - 1 : FatNamed(v, c, k, m) = {}
      BY <3>1 DEF FatNamed
    <3>3. \A m \in 0 .. n - 1 : m \in 0 .. (x + 1) - 1 \/ m \in x + 1 .. n - 1
      BY <1>1
    <3>4. FatNone(v, c, k, n)
      BY <2>1, <3>2, <3>3 DEF FatNone
    <3>5. k.phase = "done"
      BY <2>2, <2>3
    <3>6. FatFinding(v, c, k)
      BY <1>1, <1>3, <1>8, <2>2, <3>4, <3>5 DEF FatFinding
    <3> QED
      BY <1>8, <3>6
  <2>4. CASE ~Ended(here)
    <3>1. FatGoes(v, c, x + 1)
      BY <1>1, <1>2, <1>3, <1>4, <2>4, FatEnds
    <3>2. k.phase = "next"
      BY <2>2, <2>4
    <3>3. FatFinding(v, c, k)
      BY <1>1, <1>3, <1>8, <2>1, <2>2, <3>1, <3>2 DEF FatFinding
    <3> QED
      BY <1>8, <3>3
  <2> QED
    BY <2>3, <2>4
<1> QED
  BY <1>12, <1>13

LEMMA LoadKeepsDir ==
  ASSUME FatInv, FatLoad, fatJob.op # "read"
  PROVE  FatInv'
<1>1. PICK j : j = fatJob
  OBVIOUS
<1>2. PICK v \in FatVolumes : v = fatVol /\ fatVol' = v
  BY DEF FatInv, FatLoad
<1>3. FatTyped(j) /\ j.phase = "load" /\ j.op \in {"list", "find"} /\ FatJobTrue(v, j)
  BY <1>1, <1>2 DEF FatInv, FatJobTrue, FatTyped, FatLoad
<1>4. PICK c : c = Chain(v, j.file.first)
  OBVIOUS
<1>5. PICK here : here = v.slots[j.cluster]
  OBVIOUS
<1>6. PICK shown : shown = Scanned(here)
  OBVIOUS
<1>7. PICK hits : hits = {i \in shown : IF j.op = "list" THEN j.seen + Cardinality({h \in shown : h < i}) = j.from
                                       ELSE Twelve[here[i].name] = Twelve[j.ask]}
  OBVIOUS
<1>8. PICK k : k = fatJob'
  OBVIOUS
<1>9. FatLoaded(j, here, shown, hits, k)
  <2>1. FatLoaded(fatJob, fatVol.slots[fatJob.cluster], Scanned(fatVol.slots[fatJob.cluster]),
          {i \in Scanned(fatVol.slots[fatJob.cluster]) :
             IF fatJob.op = "list"
             THEN fatJob.seen + Cardinality({h \in Scanned(fatVol.slots[fatJob.cluster]) : h < i}) = fatJob.from
             ELSE Twelve[fatVol.slots[fatJob.cluster][i].name] = Twelve[fatJob.ask]},
          fatJob')
    BY DEF FatLoad, FatLoaded
  <2> QED
    BY <1>1, <1>2, <1>5, <1>6, <1>7, <1>8, <2>1
<1>10. j.op = "list" => FatListing(v, c, k) /\ FatTyped(k) /\ k.op = j.op /\ k.file = j.file
  <2> SUFFICES ASSUME j.op = "list" PROVE FatListing(v, c, k) /\ FatTyped(k) /\ k.op = j.op /\ k.file = j.file
    OBVIOUS
  <2>1. hits = {i \in shown : j.seen + Cardinality(Lower(shown, i)) = j.from}
    BY <1>7 DEF Lower
  <2>2. FatListing(v, c, j)
    BY <1>3, <1>4 DEF FatJobTrue
  <2> QED
    BY <1>3, <1>5, <1>6, <1>9, <2>1, <2>2, LoadKeepsList
<1>11. j.op = "find" => FatFinding(v, c, k) /\ FatTyped(k) /\ k.op = j.op /\ k.file = j.file
  <2> SUFFICES ASSUME j.op = "find" PROVE FatFinding(v, c, k) /\ FatTyped(k) /\ k.op = j.op /\ k.file = j.file
    OBVIOUS
  <2>1. hits = FatHits(here, shown, j.ask)
    BY <1>7 DEF FatHits
  <2>2. FatFinding(v, c, j)
    BY <1>3, <1>4 DEF FatJobTrue
  <2> QED
    BY <1>3, <1>5, <1>6, <1>9, <2>1, <2>2, LoadKeepsFind
<1>12. FatJobTrue(v, k)
  BY <1>3, <1>4, <1>10, <1>11 DEF FatJobTrue
<1> QED
  BY <1>2, <1>8, <1>12 DEF FatInv, FatLoad

(* The next cluster, when there is one and something is left to do.        *)
LEMMA FollowKeepsFat ==
  ASSUME FatInv, FatFollow
  PROVE  FatInv'
<1>1. PICK j : j = fatJob
  OBVIOUS
<1>2. PICK v \in FatVolumes : v = fatVol /\ fatVol' = v
  BY DEF FatInv, FatFollow
<1>3. FatTyped(j) /\ j.phase = "next" /\ j.op \in {"read", "list", "find"} /\ FatJobTrue(v, j)
  BY <1>1, <1>2 DEF FatInv, FatJobTrue, FatTyped, FatFollow
<1>4. PICK c : c = Chain(v, j.file.first)
  OBVIOUS
<1>5. PICK finished : finished = IF j.op = "read" THEN j.left = 0 ELSE j.got # <<>>
  OBVIOUS
<1>6. PICK next, failed : /\ failed \in BOOLEAN /\ FatStep(v, j, next, failed)
                          /\ fatJob' = [j EXCEPT !.cluster = next, !.failed = failed,
                                          !.phase = IF finished \/ next = EOC THEN "done" ELSE "load"]
  BY <1>1, <1>2, <1>5 DEF FatFollow, NextCluster, FatStep
<1>7. PICK k : k = fatJob'
  OBVIOUS
<1>8. /\ DOMAIN k = FatFields
      /\ k.phase = (IF finished \/ next = EOC THEN "done" ELSE "load") /\ k.op = j.op /\ k.file = j.file /\ k.from = j.from
      /\ k.ask = j.ask /\ k.cluster = next /\ k.skip = j.skip /\ k.intra = j.intra /\ k.left = j.left
      /\ k.got = j.got /\ k.seen = j.seen /\ k.failed = failed
  BY <1>3, <1>6, <1>7 DEF FatTyped, FatFields
<1>9. FatTyped(k)
  <2>1. k.failed \in BOOLEAN
    BY <1>6, <1>8, Zenon
  <2>2. k.phase \in {"load", "done"}
    BY <1>8
  <2> QED
    BY <1>3, <1>8, <2>1, <2>2 DEF FatTyped
<1>10. Chained(v, c)
  BY <1>3, <1>4 DEF FatJobTrue, FatReading, FatListing, FatFinding
<1>11. PICK n \in Nat \ {0} : n = Len(c)
  BY <1>10 DEF Chained
<1>12. ASSUME NEW x \in 0 .. n - 1, j.cluster = c[x + 1]
       PROVE  /\ next = EOC /\ x # n - 1 => failed
              /\ next # EOC => next = c[(x + 1) + 1] /\ x + 1 \in 0 .. n - 1
  <2>1. /\ v.fat[c[x + 1]] = EOC <=> x = Len(c) - 1
        /\ x # Len(c) - 1 => v.fat[c[x + 1]] = c[(x + 1) + 1] /\ x + 1 \in 0 .. Len(c) - 1
    <3>1. x \in 0 .. Len(c) - 1
      BY <1>11
    <3> QED
      BY <1>10, <3>1, FatLeads
  <2>2. (next = v.fat[c[x + 1]] /\ failed = j.failed) \/ (next = EOC /\ failed = TRUE)
    BY <1>6, <1>12 DEF FatStep
  <2> QED
    BY <1>11, <2>1, <2>2
<1>13. ASSUME j.op = "read" PROVE FatReading(v, c, k)
  <2>1. FatReading(v, c, j) /\ v.bps = SECTOR
    BY <1>3, <1>4, <1>13 DEF FatJobTrue
  <2>2. PICK B \in Nat \ {0} : B = FatSize(v)
    BY <2>1, FatNumbers
  <2>3. PICK from, left, l \in Nat : from = j.from /\ left = j.left /\ l = Len(j.got)
    BY <1>3, <2>1 DEF FatTyped, FatReading
  <2>4. PICK x \in 0 .. n - 1 : j.cluster = c[x + 1] /\ (left > 0 => from + l = B * (x + 1))
    BY <1>3, <1>11, <2>1, <2>2, <2>3 DEF FatReading
  <2>5. j.intra = 0 /\ from + l + left <= B * n
    BY <1>3, <1>11, <2>1, <2>2, <2>3 DEF FatReading
  <2>6. left > 0 => x # n - 1
    <3> SUFFICES ASSUME left > 0 PROVE x + 1 < n
      OBVIOUS
    <3>1. PICK m \in Nat : m = x + 1
      OBVIOUS
    <3>2. from + l = B * m
      BY <2>4, <3>1
    <3>3. B * m \in Nat /\ B * n \in Nat
      OBVIOUS
    <3>4. B * m + 0 < B * n
      BY <2>5, <3>2, <3>3
    <3>5. m < n
      BY <3>4, BelowProduct
    <3> QED
      BY <3>1, <3>5
  <2>7. k.phase = "done" => k.left = 0 \/ k.failed
    <3> SUFFICES ASSUME k.phase = "done", left # 0 PROVE failed
      BY <1>8, <2>3
    <3>1. next = EOC
      BY <1>5, <1>8, <1>13, <2>3
    <3>2. x # n - 1
      BY <2>6
    <3> QED
      BY <1>12, <2>4, <3>1, <3>2
  <2>8. k.phase = "load" => \E m \in 0 .. n - 1 : k.cluster = c[m + 1] /\ StartsIn(B, from + l, m, 0)
    <3> SUFFICES ASSUME k.phase = "load" PROVE x + 1 \in 0 .. n - 1 /\ k.cluster = c[(x + 1) + 1] /\ StartsIn(B, from + l, x + 1, 0)
      OBVIOUS
    <3>1. next # EOC /\ left > 0
      <4>1. ~finished /\ next # EOC
        BY <1>8, Zenon
      <4>2. j.left # 0
        BY <1>5, <1>13, <4>1, Zenon
      <4> QED
        BY <2>3, <4>1, <4>2
    <3>2. from + l = B * (x + 1) + 0
      BY <2>4, <3>1
    <3>3. 0 \in 0 .. B - 1
      OBVIOUS
    <3> QED
      BY <1>8, <1>12, <2>4, <3>1, <3>2, <3>3 DEF StartsIn
  <2>9. /\ k.got \in Seq(Int \X Int) /\ k.from < B * n /\ k.from + Len(k.got) + k.left <= B * n
        /\ \A i \in 1 .. Len(k.got) : k.got[i] = FatByte(v, c, k.from + i - 1)
    BY <1>8, <1>11, <2>1, <2>2 DEF FatReading
  <2>10. k.phase \in {"load", "done"}
    BY <1>8
  <2>11. k.phase = "load" => \E m \in 0 .. n - 1 : k.cluster = c[m + 1] /\ StartsIn(B, k.from + Len(k.got), m, k.intra)
    BY <1>8, <2>3, <2>5, <2>8
  <2> QED
    BY <1>10, <1>11, <2>2, <2>7, <2>9, <2>10, <2>11 DEF FatReading
<1>14. ASSUME j.op = "list" PROVE FatListing(v, c, k)
  <2>1. FatListing(v, c, j)
    BY <1>3, <1>4, <1>14 DEF FatJobTrue
  <2>2. PICK x \in 0 .. n - 1 : /\ j.cluster = c[x + 1]
                                /\ IF j.got # <<>> THEN FatFound(v, c, j)
                                   ELSE FatGoes(v, c, x + 1) /\ j.seen = FatCount(v, c, x + 1) /\ j.seen <= j.from
    BY <1>3, <1>11, <2>1 DEF FatListing
  <2>3. Range(c) \subseteq DOMAIN v.slots
    BY <2>1 DEF FatListing
  <2>4. finished = (j.got # <<>>)
    BY <1>5, <1>14
  <2>5. CASE j.got # <<>>
    <3>1. k.phase = "done" /\ k.got # <<>>
      BY <1>8, <2>4, <2>5
    <3>2. FatFound(v, c, k)
      BY <1>8, <2>2, <2>5 DEF FatFound
    <3> QED
      BY <1>10, <2>3, <3>1, <3>2 DEF FatListing
  <2>6. CASE j.got = <<>> /\ next = EOC
    <3>1. k.phase = "done" /\ k.got = <<>>
      BY <1>8, <2>6
    <3>2. k.failed \/ k.from >= FatCount(v, c, n)
      <4> SUFFICES ASSUME ~failed PROVE j.from >= FatCount(v, c, n)
        BY <1>8
      <4>1. x = n - 1
        BY <1>12, <2>2, <2>6
      <4>2. n = x + 1
        BY <4>1
      <4>3. j.seen = FatCount(v, c, n) /\ j.seen <= j.from /\ j.seen \in Nat /\ j.from \in Nat
        BY <1>3, <2>2, <2>6, <4>2 DEF FatTyped
      <4> QED
        BY <4>3
    <3> QED
      BY <1>10, <1>11, <2>3, <3>1, <3>2 DEF FatListing
  <2>7. CASE j.got = <<>> /\ next # EOC
    <3>1. k.phase = "load" /\ k.got = <<>>
      BY <1>8, <2>4, <2>7
    <3>2. x + 1 \in 0 .. n - 1 /\ k.cluster = c[(x + 1) + 1]
      BY <1>8, <1>12, <2>2, <2>7
    <3>3. FatGoes(v, c, x + 1) /\ k.seen = FatCount(v, c, x + 1) /\ k.seen <= k.from
      BY <1>8, <2>2, <2>7
    <3> QED
      BY <1>10, <1>11, <2>3, <3>1, <3>2, <3>3 DEF FatListing
  <2> QED
    BY <2>5, <2>6, <2>7
<1>15. ASSUME j.op = "find" PROVE FatFinding(v, c, k)
  <2>1. FatFinding(v, c, j)
    BY <1>3, <1>4, <1>15 DEF FatJobTrue
  <2>2. PICK x \in 0 .. n - 1 : /\ j.cluster = c[x + 1]
                                /\ IF j.got # <<>> THEN FatFirst(v, c, j)
                                   ELSE FatGoes(v, c, x + 1) /\ FatNone(v, c, j, x + 1)
    BY <1>3, <1>11, <2>1 DEF FatFinding
  <2>3. Range(c) \subseteq DOMAIN v.slots
    BY <2>1 DEF FatFinding
  <2>4. finished = (j.got # <<>>)
    BY <1>5, <1>15
  <2>0. \A m : FatNamed(v, c, k, m) = FatNamed(v, c, j, m)
    BY <1>8 DEF FatNamed
  <2>5. CASE j.got # <<>>
    <3>1. k.phase = "done" /\ k.got # <<>>
      BY <1>8, <2>4, <2>5
    <3>2. FatFirst(v, c, k)
      BY <1>8, <2>0, <2>2, <2>5 DEF FatFirst, FatNone
    <3> QED
      BY <1>10, <2>3, <3>1, <3>2 DEF FatFinding
  <2>6. CASE j.got = <<>> /\ next = EOC
    <3>1. k.phase = "done" /\ k.got = <<>>
      BY <1>8, <2>6
    <3>2. k.failed \/ FatNone(v, c, k, n)
      <4> SUFFICES ASSUME ~failed PROVE FatNone(v, c, k, n)
        BY <1>8
      <4>1. n = x + 1
        BY <1>12, <2>2, <2>6
      <4> QED
        BY <2>0, <2>2, <2>6, <4>1 DEF FatNone
    <3> QED
      BY <1>10, <1>11, <2>3, <3>1, <3>2 DEF FatFinding
  <2>7. CASE j.got = <<>> /\ next # EOC
    <3>1. k.phase = "load" /\ k.got = <<>>
      BY <1>8, <2>4, <2>7
    <3>2. x + 1 \in 0 .. n - 1 /\ k.cluster = c[(x + 1) + 1]
      BY <1>8, <1>12, <2>2, <2>7
    <3>3. FatGoes(v, c, x + 1) /\ FatNone(v, c, k, x + 1)
      BY <2>0, <2>2, <2>7 DEF FatNone
    <3> QED
      BY <1>10, <1>11, <2>3, <3>1, <3>2, <3>3 DEF FatFinding
  <2> QED
    BY <2>5, <2>6, <2>7
<1>16. FatJobTrue(v, k)
  BY <1>3, <1>4, <1>8, <1>9, <1>13, <1>14, <1>15 DEF FatJobTrue
<1> QED
  BY <1>2, <1>7, <1>16 DEF FatInv, FatFollow


LEMMA FatGoesOn ==
  ASSUME FatInv, [FatNext]_fatVars
  PROVE  FatInv'
<1>1. PICK v \in FatVolumes : v = fatVol
  BY DEF FatInv
<1>2. ASSUME NEW f \in FatFiles, NEW r \in FatReads, FatRead(f, r) PROVE FatInv'
  <2>1. PICK c \in DOMAIN v.slots : f \in Range(v.slots[c])
    BY <1>1, <1>2 DEF FatFiles
  <2>2. f.kind = "file"
    BY <1>2 DEF FatFiles
  <2>3. f.size \in Nat /\ (f.kind = "file" /\ f.size > 0 => Stored(v, f))
    BY <2>1, FatAssumption DEF DirEntry
  <2>4. r.at \in Nat /\ r.len \in Nat
    BY <1>2, FatAssumption
  <2>5. r.at < f.size
    BY <1>2 DEF FatRead
  <2>6. PICK ask : FatBegin("read", f, r.at, r.len, ask)
    BY <1>2, Zenon DEF FatRead
  <2>7. Stored(fatVol, f)
    BY <1>1, <2>2, <2>3, <2>4, <2>5
  <2>8. PICK at, len \in Nat : at = r.at /\ len = r.len
    BY <2>4
  <2>9. FatBegin("read", f, at, len, ask) /\ at < f.size
    BY <2>5, <2>6, <2>8
  <2> QED
    BY <2>3, <2>7, <2>9, FatReadKeeps
<1>3. ASSUME NEW d \in FatDirs PROVE Opens(fatVol, d.first)
  <2>1. CASE d = [first |-> fatVol.root, size |-> 0]
    <3>1. d.first = v.root
      BY <1>1, <2>1
    <3> QED
      BY <1>1, <3>1, FatAssumption
  <2>2. CASE d \in {e \in UNION {Range(fatVol.slots[c]) : c \in DOMAIN fatVol.slots} : e.kind = "dir"}
    <3>1. d.kind = "dir"
      BY <2>2
    <3>2. PICK c \in DOMAIN v.slots : d \in Range(v.slots[c])
      BY <1>1, <2>2
    <3>3. d.kind = "dir" => Opens(v, d.first)
      BY <3>2, FatAssumption
    <3> QED
      BY <1>1, <3>1, <3>3
  <2> QED
    BY <1>3, <2>1, <2>2 DEF FatDirs
<1>4. ASSUME NEW d \in FatDirs, NEW n \in FatNames, FatFind(d, n) PROVE FatInv'
  <2>1. Opens(fatVol, d.first)
    BY <1>3, <1>4
  <2> QED
    BY <1>4, <2>1, FatCallsKeep
<1>5. ASSUME NEW d \in FatDirs, NEW i \in 0 .. 3, FatReaddir(d, i) PROVE FatInv'
  <2>1. Opens(fatVol, d.first) /\ i \in Nat
    BY <1>3, <1>5
  <2> QED
    BY <1>5, <2>1, FatCallsKeep
<1>6. CASE FatLoad
  BY <1>6, LoadKeepsRead, LoadKeepsDir
<1>7. CASE UNCHANGED fatVars
  BY <1>7 DEF FatInv, fatVars
<1> QED
  BY <1>2, <1>4, <1>5, <1>6, <1>7, MountKeepsFat, SeekKeepsFat, LoadFailsKeepsFat, FollowKeepsFat DEF FatNext

(* A byte of a cluster by its address on the disk.                         *)
AddressOf(s, p, base, b, r) == base * s + b * (s * p) + r
AddressAt(s, p, base, b, r) == base + b * p + (r \div s)
Addressed(s, p, base, b, r) ==
  /\ AddressOf(s, p, base, b, r) \div s = AddressAt(s, p, base, b, r)
  /\ AddressOf(s, p, base, b, r) % s = r % s
LEMMA Address ==
  ASSUME NEW s \in Nat \ {0}, NEW p \in Nat, NEW base \in Int, NEW b \in Int, NEW r \in Nat
  PROVE  Addressed(s, p, base, b, r)
<1>1. PICK e \in Nat : e = r \div s
  OBVIOUS
<1>2. PICK m \in 0 .. s - 1 : m = r % s
  OBVIOUS
<1>3. r = s * e + m
  BY <1>1, <1>2
<1>4. PICK t \in Int : t = b * p
  OBVIOUS
<1>5. PICK d \in Int : d = base + t + e
  OBVIOUS
<1>6. b * (s * p) = s * t
  BY <1>4
<1>7. base * s + s * t + (s * e + m) = s * (base + t + e) + m
  OBVIOUS
<1>8. base * s + b * (s * p) + r = s * d + m
  BY <1>3, <1>5, <1>6, <1>7
<1>9. (s * d + m) % s = m /\ (s * d + m) \div s = d
  BY DivUnique
<1> QED
  BY <1>1, <1>2, <1>4, <1>5, <1>8, <1>9 DEF AddressOf, AddressAt, Addressed

LEMMA FatByteIs ==
  ASSUME NEW v \in FatVolumes, v = fatVol, v.bps = SECTOR, NEW file, NEW c, c = Chain(v, file.first), Chained(v, c),
         NEW x \in Nat, x < FatSize(v) * Len(c)
  PROVE  FileByte(file, x) = FatByte(v, c, x)
<1>1. PICK B \in Nat \ {0} : B = FatSize(v)
  BY FatNumbers
<1>2. PICK n \in Nat : n = Len(c)
  BY DEF Chained
<1>3. PICK q \in Nat : q = x \div B
  BY <1>1
<1>4. PICK r \in 0 .. B - 1 : r = x % B
  BY <1>1
<1>5. B * q + r < B * n
  <2>1. x < B * n
    BY <1>1, <1>2
  <2>2. x = B * q + r
    BY <1>3, <1>4
  <2> QED
    BY <2>1, <2>2
<1>6. q < n
  <2>1. r \in Nat
    BY <1>4
  <2> QED
    BY <1>5, <2>1, BelowProduct
<1>7. q \in 0 .. n - 1
  BY <1>6
<1>8. PICK cluster \in Nat : cluster = c[q + 1]
  <2>1. q \in 0 .. Len(c) - 1
    BY <1>2, <1>7
  <2> QED
    BY <2>1, FatLeads
<1>9. PICK s, p \in Nat \ {0} : s = SECTOR /\ p = v.spc /\ B = s * p
  BY <1>1, FatNumbers
<1>10. PICK base \in Nat : base = v.reserved + v.fats * v.fatSize
  <2>1. PICK a, b, e \in Nat : a = v.reserved /\ b = v.fats /\ e = v.fatSize
    BY FatNumbers
  <2>2. a + b * e \in Nat
    OBVIOUS
  <2> QED
    BY <2>1, <2>2
<1>11. PICK b \in Int : b = cluster - 2
  OBVIOUS
<1>12. PICK a : a = AddressOf(s, p, base, b, r)
  OBVIOUS
<1>13. a \div s = AddressAt(s, p, base, b, r) /\ a % s = r % s
  <2>1. r \in Nat /\ p \in Nat /\ base \in Int
    BY <1>4
  <2>2. Addressed(s, p, base, b, r)
    BY <2>1, Address
  <2> QED
    BY <1>12, <2>2 DEF Addressed
<1>14. FileByte(file, x) = <<a \div s, a % s>>
  BY <1>1, <1>3, <1>4, <1>8, <1>9, <1>10, <1>11, <1>12, Zenon DEF FileByte, BytesPerCluster, FatSize, AddressOf
<1>15. FatByte(v, c, x) = <<AddressAt(s, p, base, b, r), r % s>>
  BY <1>1, <1>3, <1>4, <1>8, <1>9, <1>10, <1>11, Zenon DEF FatByte, AddressAt
<1> QED
  BY <1>13, <1>14, <1>15

FatPlacesOf(slots, c) ==
  UNION {{<<k, i>> : i \in Scanned(slots[c[k + 1]])} : k \in {k \in 0 .. Len(c) - 1 : \A m \in 1 .. k : ~Ended(slots[c[m]])}}
LEMMA FatPlacesAre ==
  ASSUME NEW v \in FatVolumes, v = fatVol, NEW dir, NEW c, c = Chain(v, dir.first), Chained(v, c),
         Range(c) \subseteq DOMAIN v.slots
  PROVE  /\ FatPlaces(dir) = PlaceRows(FatRows(v, c), Len(c))
         /\ \A k \in 0 .. Len(c) - 1 : \A i \in FatRow(v, c, k) :
              /\ <<k, i>> \in FatPlaces(dir) /\ FatAt(dir, <<k, i>>) = FatHere(v, c, k)[i]
              /\ Cardinality(FatAhead(FatPlaces(dir), <<k, i>>)) = FatCount(v, c, k) + Cardinality(Lower(FatRow(v, c, k), i))
         /\ \A p \in FatPlaces(dir) : \E k \in 0 .. Len(c) - 1 : \E i \in FatRow(v, c, k) : p = <<k, i>>
<1>1. PICK rows : rows = FatRows(v, c)
  OBVIOUS
<1>2. PICK n \in Nat : n = Len(c)
  BY FatRowFacts
<1>3. \A k \in 0 .. n - 1 : rows[k] = FatRow(v, c, k) /\ IsFiniteSet(rows[k]) /\ rows[k] \subseteq Nat
  BY <1>1, <1>2, FatRowFacts
<1>4. \A p : p \in FatPlaces(dir) <=> \E k \in 0 .. n - 1 : \E i \in FatRow(v, c, k) : p = <<k, i>>
  <2>1. PICK reached : reached = {k \in 0 .. n - 1 : FatGoes(v, c, k)}
    OBVIOUS
  <2>2. FatPlaces(dir) = UNION {{<<k, i>> : i \in Scanned(FatHere(v, c, k))} : k \in reached}
    <3>1. FatPlaces(dir) = FatPlacesOf(fatVol.slots, Chain(fatVol, dir.first))
      BY Zenon DEF FatPlaces, FatPlacesOf
    <3>2. FatPlaces(dir) = FatPlacesOf(v.slots, c)
      BY <3>1, Zenon
    <3> QED
      BY <1>2, <2>1, <3>2, Zenon DEF FatPlacesOf, FatGoes, FatHere
  <2>3. \A k \in 0 .. n - 1 : \A i : i \in FatRow(v, c, k) <=> k \in reached /\ i \in Scanned(FatHere(v, c, k))
    BY <2>1 DEF FatRow
  <2>4. \A p : p \in FatPlaces(dir) <=> \E k \in reached : \E i \in Scanned(FatHere(v, c, k)) : p = <<k, i>>
    BY <2>2
  <2> QED
    BY <2>1, <2>3, <2>4
<1>5. \A p : p \in PlaceRows(rows, n) <=> \E k \in 0 .. n - 1 : \E i \in FatRow(v, c, k) : p = <<k, i>>
  BY <1>3 DEF PlaceRows
<1>6. FatPlaces(dir) = PlaceRows(rows, n)
  BY <1>4, <1>5
<1>7. ASSUME NEW k \in 0 .. n - 1, NEW i \in FatRow(v, c, k)
      PROVE  /\ <<k, i>> \in FatPlaces(dir) /\ FatAt(dir, <<k, i>>) = FatHere(v, c, k)[i]
             /\ Cardinality(FatAhead(FatPlaces(dir), <<k, i>>)) = FatCount(v, c, k) + Cardinality(Lower(FatRow(v, c, k), i))
  <2>1. PICK before : before = {q \in PlaceRows(rows, n) : q[1] < k \/ (q[1] = k /\ q[2] < i)}
    OBVIOUS
  <2>2. FatAhead(FatPlaces(dir), <<k, i>>) = before
    BY <1>6, <2>1 DEF FatAhead
  <2>3. \A m \in 0 .. n - 1 : IsFiniteSet(rows[m]) /\ rows[m] \subseteq Nat
    BY <1>3
  <2>4. i \in rows[k]
    BY <1>3
  <2>5. Cardinality(before) = Cardinality(PlaceRows(rows, k)) + Cardinality({j \in rows[k] : j < i})
    BY <2>1, <2>3, <2>4, PlacesBefore
  <2>6. {j \in rows[k] : j < i} = Lower(FatRow(v, c, k), i)
    BY <1>3 DEF Lower
  <2>7. Cardinality(PlaceRows(rows, k)) = FatCount(v, c, k)
    BY <1>1 DEF FatCount
  <2>8. <<k, i>> \in FatPlaces(dir)
    BY <1>4
  <2>9. FatAt(dir, <<k, i>>) = FatHere(v, c, k)[i]
    BY DEF FatAt, FatHere
  <2> QED
    BY <2>2, <2>5, <2>6, <2>7, <2>8, <2>9
<1> QED
  BY <1>1, <1>2, <1>4, <1>6, <1>7

LEMMA FatPromises ==
  ASSUME FatInv
  PROVE  FatTypeOK /\ FatTrue
<1>1. PICK j : j = fatJob
  OBVIOUS
<1>2. PICK v \in FatVolumes : v = fatVol
  BY DEF FatInv
<1>3. FatTyped(j) /\ FatJobTrue(v, j)
  BY <1>1, <1>2 DEF FatInv, FatJobTrue
<1>4. FatTypeOK
  <2>1. j.left >= 0 /\ j.skip >= 0
    BY <1>3 DEF FatTyped
  <2> QED
    BY <1>1, <1>3, <2>1 DEF FatTypeOK, FatTyped, FatInv
<1>5. PICK file : file = j.file
  OBVIOUS
<1>6. PICK c : c = Chain(v, file.first)
  OBVIOUS
<1>7. ASSUME j.phase = "done", j.op = "read"
      PROVE  /\ j.got = [i \in 1 .. Len(j.got) |-> FileByte(file, j.from + i - 1)]
             /\ j.left = 0 \/ j.failed
  <2>1. FatReading(v, c, j) /\ v.bps = SECTOR
    BY <1>3, <1>5, <1>6, <1>7 DEF FatJobTrue
  <2>2. PICK g \in Seq(Int \X Int) : g = j.got
    BY <2>1 DEF FatReading
  <2>3. PICK l \in Nat : l = Len(g)
    BY <2>2
  <2>4. PICK from, left \in Nat : from = j.from /\ left = j.left
    BY <1>3 DEF FatTyped
  <2>5. PICK bytes \in Nat : bytes = FatSize(v) * Len(c)
    <3>1. PICK B \in Nat \ {0} : B = FatSize(v)
      BY <2>1, FatNumbers
    <3>2. PICK n \in Nat : n = Len(c)
      BY <2>1 DEF FatReading, Chained
    <3>3. B * n \in Nat
      OBVIOUS
    <3> QED
      BY <3>1, <3>2, <3>3
  <2>6. from + l + left <= bytes /\ Chained(v, c)
    BY <2>1, <2>2, <2>3, <2>4, <2>5 DEF FatReading
  <2>7. ASSUME NEW i \in 1 .. l PROVE g[i] = FileByte(file, from + i - 1)
    <3>1. PICK x \in Nat : x = from + i - 1
      OBVIOUS
    <3>2. x < bytes
      BY <2>6, <3>1
    <3>3. FileByte(file, x) = FatByte(v, c, x)
      BY <1>2, <1>6, <2>1, <2>5, <2>6, <3>2, FatByteIs
    <3>4. g[i] = FatByte(v, c, from + i - 1)
      BY <2>1, <2>2, <2>3, <2>4 DEF FatReading
    <3> QED
      BY <3>1, <3>3, <3>4
  <2>8. g = [i \in 1 .. l |-> g[i]]
    BY <2>3
  <2>9. g = [i \in 1 .. l |-> FileByte(file, from + i - 1)]
    BY <2>7, <2>8
  <2>10. j.left = 0 \/ j.failed
    BY <1>7, <2>1 DEF FatReading
  <2> QED
    BY <2>2, <2>3, <2>4, <2>9, <2>10
<1>8. ASSUME j.phase = "done", j.op = "list", NEW entries, entries = FatPlaces(file)
      PROVE  IF j.got # <<>>
             THEN \E p \in entries : j.got = <<FatAt(file, p)>> /\ Cardinality(FatAhead(entries, p)) = j.from
             ELSE j.failed \/ j.from >= Cardinality(entries)
  <2>1. FatListing(v, c, j) /\ Chained(v, c) /\ Range(c) \subseteq DOMAIN v.slots
    BY <1>3, <1>5, <1>6, <1>8 DEF FatJobTrue, FatListing
  <2>2. /\ entries = PlaceRows(FatRows(v, c), Len(c))
        /\ \A k \in 0 .. Len(c) - 1 : \A i \in FatRow(v, c, k) :
             /\ <<k, i>> \in entries /\ FatAt(file, <<k, i>>) = FatHere(v, c, k)[i]
             /\ Cardinality(FatAhead(entries, <<k, i>>)) = FatCount(v, c, k) + Cardinality(Lower(FatRow(v, c, k), i))
    BY <1>2, <1>6, <1>8, <2>1, FatPlacesAre
  <2>3. CASE j.got = <<>>
    BY <1>8, <2>1, <2>2, <2>3 DEF FatListing, FatCount
  <2>4. CASE j.got # <<>>
    <3>1. FatFound(v, c, j)
      BY <1>8, <2>1, <2>4 DEF FatListing
    <3>2. PICK k \in 0 .. Len(c) - 1 : \E i \in FatRow(v, c, k) :
            j.got = <<FatHere(v, c, k)[i]>> /\ j.from = FatCount(v, c, k) + Cardinality(Lower(FatRow(v, c, k), i))
      BY <3>1 DEF FatFound
    <3>3. PICK i \in FatRow(v, c, k) :
            j.got = <<FatHere(v, c, k)[i]>> /\ j.from = FatCount(v, c, k) + Cardinality(Lower(FatRow(v, c, k), i))
      BY <3>2
    <3> QED
      BY <2>2, <2>4, <3>3
  <2> QED
    BY <2>3, <2>4
<1>9. ASSUME j.phase = "done", j.op = "find",
             NEW same, same = {p \in FatPlaces(file) : Twelve[FatAt(file, p).name] = Twelve[j.ask]}
      PROVE  IF j.got # <<>>
             THEN \E p \in same : j.got = <<FatAt(file, p)>> /\ FatAhead(same, p) = {}
             ELSE j.failed \/ same = {}
  <2>1. FatFinding(v, c, j) /\ Chained(v, c) /\ Range(c) \subseteq DOMAIN v.slots
    BY <1>3, <1>5, <1>6, <1>9 DEF FatJobTrue, FatFinding
  <2>2. PICK n \in Nat : n = Len(c)
    BY <2>1, FatRowFacts
  <2>3. /\ \A k \in 0 .. n - 1 : \A i \in FatRow(v, c, k) :
             <<k, i>> \in FatPlaces(file) /\ FatAt(file, <<k, i>>) = FatHere(v, c, k)[i]
        /\ \A p \in FatPlaces(file) : \E k \in 0 .. n - 1 : \E i \in FatRow(v, c, k) : p = <<k, i>>
    BY <1>2, <1>6, <2>1, <2>2, FatPlacesAre
  <2>4. ASSUME NEW p \in same
        PROVE  \E k \in 0 .. n - 1 : \E i \in FatNamed(v, c, j, k) : p = <<k, i>>
    <3>1. PICK k \in 0 .. n - 1 : \E i \in FatRow(v, c, k) : p = <<k, i>>
      BY <1>9, <2>3
    <3>2. PICK i \in FatRow(v, c, k) : p = <<k, i>>
      BY <3>1
    <3>3. i \in FatNamed(v, c, j, k)
      BY <1>9, <2>3, <3>2 DEF FatNamed
    <3> QED
      BY <3>2, <3>3
  <2>5. CASE j.got = <<>>
    <3>1. j.failed \/ FatNone(v, c, j, n)
      BY <1>9, <2>1, <2>2, <2>5 DEF FatFinding
    <3>2. j.failed \/ same = {}
      BY <2>4, <3>1 DEF FatNone
    <3> QED
      BY <2>5, <3>2
  <2>6. CASE j.got # <<>>
    <3>0. FatFirst(v, c, j)
      BY <1>9, <2>1, <2>6 DEF FatFinding
    <3>1. PICK k \in 0 .. n - 1 : \E i \in FatNamed(v, c, j, k) :
            j.got = <<FatHere(v, c, k)[i]>> /\ FatNone(v, c, j, k) /\ Lower(FatNamed(v, c, j, k), i) = {}
      BY <2>2, <3>0 DEF FatFirst
    <3>2. PICK i \in FatNamed(v, c, j, k) :
            j.got = <<FatHere(v, c, k)[i]>> /\ FatNone(v, c, j, k) /\ Lower(FatNamed(v, c, j, k), i) = {}
      BY <3>1
    <3>3. PICK p : p = <<k, i>>
      OBVIOUS
    <3>4. p \in same /\ j.got = <<FatAt(file, p)>>
      <4>1. i \in FatRow(v, c, k) /\ Twelve[FatHere(v, c, k)[i].name] = Twelve[j.ask]
        BY <3>2 DEF FatNamed
      <4>2. p \in FatPlaces(file) /\ FatAt(file, p) = FatHere(v, c, k)[i]
        BY <2>3, <3>3, <4>1
      <4> QED
        BY <1>9, <3>2, <4>1, <4>2
    <3>5. FatAhead(same, p) = {}
      <4> SUFFICES ASSUME NEW q \in same, q[1] < k \/ (q[1] = k /\ q[2] < i) PROVE FALSE
        BY <3>3 DEF FatAhead
      <4>1. PICK m \in 0 .. n - 1 : \E h \in FatNamed(v, c, j, m) : q = <<m, h>>
        BY <2>4
      <4>2. PICK h \in FatNamed(v, c, j, m) : q = <<m, h>>
        BY <4>1
      <4>3. CASE m < k
        <5>1. m \in 0 .. k - 1
          BY <4>3
        <5> QED
          BY <3>2, <4>2, <5>1 DEF FatNone
      <4>4. CASE m = k /\ h < i
        BY <3>2, <4>2, <4>4 DEF Lower
      <4> QED
        BY <4>2, <4>3, <4>4
    <3> QED
      BY <2>6, <3>4, <3>5
  <2> QED
    BY <2>5, <2>6
<1>10. FatTrue
  <2> SUFFICES ASSUME j.phase = "done" PROVE FatTrue
    BY <1>1 DEF FatTrue
  <2>0. j.op \in {"read", "list", "find"}
    BY <1>3 DEF FatTyped
  <2>1. CASE j.op = "read"
    BY <1>1, <1>5, <1>7, <2>1 DEF FatTrue
  <2>2. CASE j.op = "list"
    <3>1. PICK entries : entries = FatPlaces(file)
      OBVIOUS
    <3>2. IF j.got # <<>>
          THEN \E p \in entries : j.got = <<FatAt(file, p)>> /\ Cardinality(FatAhead(entries, p)) = j.from
          ELSE j.failed \/ j.from >= Cardinality(entries)
      BY <1>8, <2>2, <3>1
    <3> QED
      BY <1>1, <1>5, <2>2, <3>1, <3>2 DEF FatTrue
  <2>3. CASE j.op = "find"
    <3>1. PICK same : same = {p \in FatPlaces(file) : Twelve[FatAt(file, p).name] = Twelve[j.ask]}
      OBVIOUS
    <3>2. IF j.got # <<>>
          THEN \E p \in same : j.got = <<FatAt(file, p)>> /\ FatAhead(same, p) = {}
          ELSE j.failed \/ same = {}
      BY <1>9, <2>3, <3>1
    <3> QED
      BY <1>1, <1>5, <2>3, <3>1, <3>2 DEF FatTrue
  <2> QED
    BY <2>0, <2>1, <2>2, <2>3
<1> QED
  BY <1>4, <1>10

-----------------------------------------------------------------------------
(* The file system layer                                                   *)

Slash     == <<"/">>
Piece(name)      == Slash \o name
Inside(mp, name) == mp \o Slash \o name
VfsNames  == NewNames \cup UNION {Range(Entries[f]) : f \in TableFs}
RootNodes == [fs : {"ramfs"}, at : RamIds, name : {Slash}] \cup [fs : TableFs, at : {0}, name : {Slash}]
VfsNodes  == [fs : {"ramfs"}, at : RamIds, name : NewNames \cup {Slash}]
             \cup [fs : TableFs, at : 0 .. EntrySlots, name : VfsNames \cup {Slash}]

MountTyped(m) ==
  /\ DOMAIN m = {"used", "path", "root"} /\ m.used \in BOOLEAN /\ m.path \in MountPaths \cup {<<>>}
  /\ m.used => m.path \in MountPaths /\ m.root \in RootNodes
MountsTyped(mt) == DOMAIN mt = MountIds /\ \A i \in MountIds : MountTyped(mt[i])

TablesTyped(tb) == tb \in [TableFs -> [1 .. EntrySlots -> VfsNames \cup {<<>>}]]

RamFields == {"live", "name", "kids", "alloc", "size", "bytes", "refs"}
RamTyped(r) ==
  /\ DOMAIN r = RamFields /\ r.live \in BOOLEAN /\ r.kids \in Seq(RamIds)
  /\ r.alloc \in 0 .. RAMMAX /\ r.size \in 0 .. r.alloc /\ r.bytes \subseteq 0 .. r.size - 1 /\ r.refs \in Nat
RamsTyped(nodes) == DOMAIN nodes = RamIds /\ \A i \in RamIds : RamTyped(nodes[i])

(* The children of a node are live and named, and each is the child of one *)
(* node, at one place.                                                     *)
KidsNamed(nodes) ==
  \A p \in RamIds : \A j \in 1 .. Len(nodes[p].kids) :
    nodes[nodes[p].kids[j]].live /\ nodes[nodes[p].kids[j]].name \in NewNames /\ nodes[p].kids[j] # p
KidsOnce(nodes) ==
  \A p, q \in RamIds : \A j \in 1 .. Len(nodes[p].kids), l \in 1 .. Len(nodes[q].kids) :
    nodes[p].kids[j] = nodes[q].kids[l] => p = q /\ j = l

WithNew(nodes, i, name) == [nodes EXCEPT ![i] = NewRam(name)]
WithKid(nodes, p, i)    == [nodes EXCEPT ![p].kids = <<i>> \o @]
WithNode(nodes, i, r)   == [nodes EXCEPT ![i] = r]
WithRefs(nodes, i, n)   == [nodes EXCEPT ![i].refs = n]
WithoutKid(nodes, p, m) == [nodes EXCEPT ![nodes[p].kids[m]] = NoRam, ![p].kids = RemoveAt(@, m)]

NobodysKid(i, nodes) == \A p \in RamIds : \A j \in 1 .. Len(nodes[p].kids) : nodes[p].kids[j] # i
RootsTrue(mt, nodes) ==
  \A i \in MountIds : mt[i].used /\ mt[i].root.fs = "ramfs" =>
    nodes[mt[i].root.at].live /\ NobodysKid(mt[i].root.at, nodes)

NodeTrue(n, nodes, tb) ==
  /\ n \in VfsNodes
  /\ n.fs = "ramfs" => nodes[n.at].live
  /\ n.fs \in {"devfs", "procfs"} /\ n.at # 0 => tb[n.fs][n.at] = n.name
OpenedTrue(op, nodes, tb) ==
  op \in [Users -> VfsNodes \cup {NoNode}] /\ \A u \in Users : op[u] = NoNode \/ NodeTrue(op[u], nodes, tb)

Having(op, i)       == {u \in Users : op[u].fs = "ramfs" /\ op[u].at = i}
RefsTrue(op, nodes) == \A i \in RamIds : nodes[i].refs = Cardinality(Having(op, i))

PutsTrue(nodes, pt) == pt \in [RamIds -> SUBSET Offsets] /\ \A i \in RamIds : pt[i] = nodes[i].bytes

VfsInv ==
  /\ MountsTyped(mountTable)
  /\ fsRegistry \in Seq(Range(BootOrder)) /\ Len(fsRegistry) <= Len(BootOrder)
  /\ TablesTyped(tables)
  /\ RamsTyped(ramNodes) /\ KidsNamed(ramNodes) /\ KidsOnce(ramNodes)
  /\ RootsTrue(mountTable, ramNodes)
  /\ OpenedTrue(opened, ramNodes, tables) /\ RefsTrue(opened, ramNodes)
  /\ PutsTrue(ramNodes, puts)

(* What the assumption says of the constants.                              *)
LEMMA VfsFacts ==
  /\ TableFs = {"devfs", "procfs", "sysfs"} /\ MountSlots \in Nat /\ EntrySlots \in Nat /\ EntrySlots >= 1
  /\ \A n \in VfsNames : n \in Seq(Range(n)) /\ n # <<>>
  /\ \A p \in MountPaths : p \in Seq(Range(p))
  /\ NewNames \subseteq VfsNames /\ Slash # <<>>
<1>1. Slash # <<>>
  BY DEF Slash
<1> QED
  BY <1>1, VfsAssumption DEF TableFs, VfsNames

LEMMA NodeKinds ==
  ASSUME NEW n \in VfsNodes
  PROVE  /\ n # NoNode /\ n.name # <<>> /\ n.fs # "none"
         /\ n.fs \in {"ramfs", "devfs", "procfs", "sysfs"}
         /\ n.fs = "ramfs" => n.at \in RamIds
         /\ n.fs # "ramfs" => n.at \in 0 .. EntrySlots /\ n.fs \in TableFs
<1>1. \A name \in VfsNames \cup {Slash} : name # <<>>
  BY VfsFacts
<1>2. NewNames \subseteq VfsNames
  BY VfsFacts
<1>3. CASE n \in [fs : {"ramfs"}, at : RamIds, name : NewNames \cup {Slash}]
  <2>1. n.fs = "ramfs" /\ n.at \in RamIds /\ n.name \in NewNames \cup {Slash}
    BY <1>3
  <2>2. NoNode.fs = "none"
    BY DEF NoNode
  <2> QED
    BY <1>1, <1>2, <2>1, <2>2
<1>4. CASE n \in [fs : TableFs, at : 0 .. EntrySlots, name : VfsNames \cup {Slash}]
  <2>1. n.fs \in TableFs /\ n.at \in 0 .. EntrySlots /\ n.name \in VfsNames \cup {Slash}
    BY <1>4
  <2>2. NoNode.fs = "none"
    BY DEF NoNode
  <2>3. n.fs \in {"devfs", "procfs", "sysfs"}
    BY <2>1, VfsFacts
  <2> QED
    BY <1>1, <2>1, <2>2, <2>3
<1> QED
  BY <1>3, <1>4 DEF VfsNodes

LEMMA TableNode ==
  ASSUME NEW f \in TableFs, NEW at \in 0 .. EntrySlots, NEW name \in VfsNames \cup {Slash},
         NEW n, n = [fs |-> f, at |-> at, name |-> name]
  PROVE  n \in VfsNodes /\ n.fs = f /\ n.at = at /\ n.name = name /\ n.fs # "ramfs"
<1>1. n.fs # "ramfs"
  BY VfsFacts
<1> QED
  BY <1>1 DEF VfsNodes

LEMMA RamNode ==
  ASSUME NEW i \in RamIds, NEW name \in NewNames \cup {Slash},
         NEW n, n = [fs |-> "ramfs", at |-> i, name |-> name]
  PROVE  n \in VfsNodes /\ n.fs = "ramfs" /\ n.at = i /\ n.name = name
BY DEF VfsNodes

LEMMA RootsAreNodes ==
  ASSUME NEW n \in RootNodes
  PROVE  n \in VfsNodes /\ n.name = Slash /\ (n.fs # "ramfs" => n.at = 0)
<1>1. 0 \in 0 .. EntrySlots
  BY VfsFacts
<1>2. CASE n \in [fs : {"ramfs"}, at : RamIds, name : {Slash}]
  BY <1>2 DEF VfsNodes
<1>3. CASE n \in [fs : TableFs, at : {0}, name : {Slash}]
  BY <1>1, <1>3 DEF VfsNodes
<1> QED
  BY <1>2, <1>3 DEF RootNodes

(* A name's first entry is in the table.                                   *)
LEMMA Indexed ==
  ASSUME NEW f, NEW name, IndexOf(f, name) # {}
  PROVE  Min(IndexOf(f, name)) \in 1 .. EntrySlots /\ tables[f][Min(IndexOf(f, name))] = name
<1>1. PICK t : t = IndexOf(f, name)
  OBVIOUS
<1>2. t \subseteq Nat /\ t # {}
  BY <1>1 DEF IndexOf
<1>3. Min(t) \in t
  BY <1>2, MinFacts
<1> QED
  BY <1>1, <1>3 DEF IndexOf

LEMMA EntryNodeTrue ==
  ASSUME TablesTyped(tables), NEW f \in TableFs, NEW name, name # <<>>, EntryNode(f, name) # NoNode
  PROVE  NodeTrue(EntryNode(f, name), ramNodes, tables) /\ IndexOf(f, name) # {} /\ name \in VfsNames
<1>1. IndexOf(f, name) # {}
  BY DEF EntryNode
<1>2. PICK i : i = Min(IndexOf(f, name))
  OBVIOUS
<1>3. i \in 1 .. EntrySlots /\ tables[f][i] = name
  BY <1>1, <1>2, Indexed
<1>4. name \in VfsNames
  BY <1>3 DEF TablesTyped
<1>5. PICK n : n = EntryNode(f, name) /\ n = [fs |-> f, at |-> i, name |-> name]
  BY <1>1, <1>2 DEF EntryNode
<1>6. i \in 0 .. EntrySlots
  BY <1>3
<1>7. n \in VfsNodes /\ n.fs = f /\ n.at = i /\ n.name = name /\ n.fs # "ramfs"
  BY <1>4, <1>5, <1>6, TableNode
<1>8. NodeTrue(n, ramNodes, tables)
  BY <1>3, <1>7 DEF NodeTrue
<1> QED
  BY <1>1, <1>4, <1>5, <1>8

LEMMA SysNodeTrue ==
  ASSUME TablesTyped(tables), NEW name, name # <<>>, SysFindDir(name) # NoNode
  PROVE  NodeTrue(SysFindDir(name), ramNodes, tables)
<1>1. IndexOf("sysfs", name) # {}
  BY DEF SysFindDir
<1>2. PICK i : i = Min(IndexOf("sysfs", name))
  OBVIOUS
<1>3. i \in 1 .. EntrySlots /\ tables["sysfs"][i] = name /\ "sysfs" \in TableFs
  BY <1>1, <1>2, Indexed, VfsFacts
<1>4. name \in VfsNames
  BY <1>3 DEF TablesTyped
<1>5. PICK n : n = SysFindDir(name) /\ n = [fs |-> "sysfs", at |-> 0, name |-> name]
  BY <1>1 DEF SysFindDir
<1>6. 0 \in 0 .. EntrySlots
  BY VfsFacts
<1>7. n \in VfsNodes /\ n.fs = "sysfs" /\ n.at = 0
  BY <1>3, <1>4, <1>5, <1>6, TableNode
<1>8. NodeTrue(n, ramNodes, tables)
  BY <1>7 DEF NodeTrue
<1> QED
  BY <1>5, <1>8

LEMMA RamNodeTrue ==
  ASSUME RamsTyped(ramNodes), KidsNamed(ramNodes), NEW node, node.at \in RamIds, NEW name,
         RamFindDir(node, name) # NoNode
  PROVE  /\ NodeTrue(RamFindDir(node, name), ramNodes, tables)
         /\ ramNodes[RamFindDir(node, name).at].name = name
<1>1. PICK kids, same : /\ kids = ramNodes[node.at].kids
                        /\ same = {j \in DOMAIN kids : ramNodes[kids[j]].name = name}
  OBVIOUS
<1>2. same # {} /\ RamFindDir(node, name) = [fs |-> "ramfs", at |-> kids[Min(same)], name |-> name]
  BY <1>1 DEF RamFindDir
<1>3. kids \in Seq(RamIds) /\ DOMAIN kids = 1 .. Len(kids)
  <2>1. kids \in Seq(RamIds)
    BY <1>1 DEF RamsTyped, RamTyped
  <2> QED
    BY <2>1, LenProperties
<1>4. same \subseteq Nat
  BY <1>1, <1>3
<1>5. PICK j \in 1 .. Len(kids) : j = Min(same) /\ ramNodes[kids[j]].name = name
  <2>1. Min(same) \in same
    BY <1>2, <1>4, MinFacts
  <2> QED
    BY <1>1, <1>3, <2>1
<1>6. kids[j] \in RamIds
  BY <1>3, <1>5, ElementOfSeq
<1>7. ramNodes[kids[j]].live /\ name \in NewNames
  BY <1>1, <1>5 DEF KidsNamed
<1>8. PICK n : n = RamFindDir(node, name) /\ n = [fs |-> "ramfs", at |-> kids[j], name |-> name]
  BY <1>2, <1>5
<1>9. n \in VfsNodes /\ n.fs = "ramfs" /\ n.at = kids[j]
  BY <1>6, <1>7, <1>8, RamNode
<1>10. NodeTrue(n, ramNodes, tables)
  BY <1>7, <1>9 DEF NodeTrue
<1> QED
  BY <1>5, <1>8, <1>9, <1>10

(* A directory leads to nothing or to a node that is there.                *)
LEMMA FindDirTrue ==
  ASSUME VfsInv, NEW node, NodeTrue(node, ramNodes, tables), NEW name, name # <<>>, FindDir(node, name) # NoNode
  PROVE  NodeTrue(FindDir(node, name), ramNodes, tables)
<1>1. /\ node.fs \in {"ramfs", "devfs", "procfs", "sysfs"}
      /\ node.fs = "ramfs" => node.at \in RamIds
  <2>1. node \in VfsNodes
    BY DEF NodeTrue
  <2> QED
    BY <2>1, NodeKinds
<1>2. TablesTyped(tables) /\ RamsTyped(ramNodes) /\ KidsNamed(ramNodes)
  BY DEF VfsInv
<1>3. {"devfs", "procfs"} \subseteq TableFs
  BY VfsFacts
<1>4. CASE node.fs = "ramfs"
  <2>1. FindDir(node, name) = RamFindDir(node, name)
    BY <1>4 DEF FindDir
  <2> QED
    BY <1>1, <1>2, <1>4, <2>1, RamNodeTrue
<1>5. CASE node.fs = "devfs"
  <2>1. FindDir(node, name) = EntryNode("devfs", name)
    BY <1>5 DEF FindDir, DevFindDir
  <2> QED
    BY <1>2, <1>3, <2>1, EntryNodeTrue
<1>6. CASE node.fs = "procfs"
  <2>1. FindDir(node, name) = EntryNode("procfs", name)
    BY <1>6 DEF FindDir, ProcFindDir
  <2> QED
    BY <1>2, <1>3, <2>1, EntryNodeTrue
<1>7. CASE node.fs = "sysfs"
  <2>1. FindDir(node, name) = SysFindDir(name)
    BY <1>7 DEF FindDir
  <2> QED
    BY <1>2, <2>1, SysNodeTrue
<1> QED
  BY <1>1, <1>4, <1>5, <1>6, <1>7

-----------------------------------------------------------------------------
(* Paths                                                                   *)

(* Going along the pieces: every node on the way is nothing or there.      *)
PathEnds == {n \in VfsNodes \cup {NoNode} : n # NoNode => NodeTrue(n, ramNodes, tables)}

LEMMA OnwardFold ==
  ASSUME VfsInv, NEW root \in PathEnds, NEW P, NEW e \in Seq(P)
  PROVE  \E g \in [0 .. Len(e) -> PathEnds] :
           /\ g[0] = root
           /\ \A k \in 1 .. Len(e) : g[k] = Onward(g[k - 1], e[k])
           /\ FoldLeft(Onward, root, e) = g[Len(e)]
<1> DEFINE V == PathEnds
<1>2. PICK n : n = Len(e) /\ n \in Nat /\ DOMAIN e = 1 .. n
  BY LenProperties
<1>3. PICK step : step = [x \in (1 .. n) \X V |-> Onward(x[2], e[x[1]])]
  OBVIOUS
<1>4. step \in [(1 .. n) \X V -> V]
  <2>1. ASSUME NEW node \in V, NEW piece
        PROVE  Onward(node, piece) \in V
    <3>1. CASE node = NoNode \/ piece = <<>>
      BY <2>1, <3>1 DEF Onward
    <3>2. CASE ~(node = NoNode \/ piece = <<>>)
      <4>1. PICK to : to = FindDir(node, piece) /\ to = Onward(node, piece)
        BY <3>2 DEF Onward
      <4>2. NodeTrue(node, ramNodes, tables)
        BY <2>1, <3>2 DEF PathEnds
      <4>3. to # NoNode => NodeTrue(to, ramNodes, tables)
        BY <3>2, <4>1, <4>2, FindDirTrue
      <4>4. to # NoNode => to \in VfsNodes
        BY <4>3 DEF NodeTrue
      <4> QED
        BY <4>1, <4>3, <4>4 DEF PathEnds
    <3> QED
      BY <3>1, <3>2
  <2>2. ASSUME NEW x \in (1 .. n) \X V
        PROVE  Onward(x[2], e[x[1]]) \in V
    <3>1. x[2] \in V
      OBVIOUS
    <3> HIDE DEF V
    <3> QED
      BY <2>1, <3>1
  <2> HIDE DEF V
  <2> QED
    BY <1>3, <2>2
<1> HIDE DEF V
<1>5. root \in V
  BY DEF V
<1>6. PICK it \in [SUBSET (1 .. n) -> V] : IsTable(it, n, root, step)
  BY <1>2, <1>4, <1>5, FoldTable
<1>7. it = [t \in SUBSET (DOMAIN e) |->
              IF t = {} THEN root ELSE Onward(it[t \ {Max(t)}], e[Max(t)])]
  <2>1. ASSUME NEW t \in SUBSET (1 .. n), t # {}
        PROVE  step[<<Max(t), it[t \ {Max(t)}]>>] = Onward(it[t \ {Max(t)}], e[Max(t)])
    <3>1. Max(t) \in 1 .. n
      BY <1>2, <2>1, MaxFacts
    <3>2. it[t \ {Max(t)}] \in V
      BY <1>6
    <3> QED
      BY <1>3, <3>1, <3>2
  <2>2. \A t \in SUBSET (1 .. n) :
          it[t] = IF t = {} THEN root ELSE Onward(it[t \ {Max(t)}], e[Max(t)])
    BY <1>6, <2>1 DEF IsTable
  <2> QED
    BY <1>2, <2>2
<1>8. PICK fold : /\ fold = [t \in SUBSET (DOMAIN e) |->
                               IF t = {} THEN root ELSE Onward(fold[t \ {Max(t)}], e[Max(t)])]
                  /\ FoldLeft(Onward, root, e) = fold[DOMAIN e]
  <2> DEFINE made == CHOOSE h : h = [t \in SUBSET (DOMAIN e) |->
              IF t = {} THEN root ELSE Onward(h[t \ {Max(t)}], e[Max(t)])]
  <2>1. made = [t \in SUBSET (DOMAIN e) |->
              IF t = {} THEN root ELSE Onward(made[t \ {Max(t)}], e[Max(t)])]
    BY <1>7
  <2>2. FoldLeft(Onward, root, e) = made[DOMAIN e]
    BY DEF FoldLeft, MapThenFoldSet
  <2> HIDE DEF made
  <2> QED
    BY <2>1, <2>2
<1>10. fold[{}] = root
  BY <1>8
<1>11. ASSUME NEW t \in SUBSET (1 .. n), t # {}, fold[t \ {Max(t)}] \in V
       PROVE  fold[t] = step[<<Max(t), fold[t \ {Max(t)}]>>]
  <2>1. Max(t) \in 1 .. n
    BY <1>2, <1>11, MaxFacts
  <2>2. step[<<Max(t), fold[t \ {Max(t)}]>>] = Onward(fold[t \ {Max(t)}], e[Max(t)])
    BY <1>3, <1>11, <2>1
  <2>3. fold[t] = Onward(fold[t \ {Max(t)}], e[Max(t)])
    BY <1>2, <1>8, <1>11
  <2> QED
    BY <2>2, <2>3
<1>12. Tabulates(fold, n, V, step)
  BY <1>11 DEF Tabulates
<1>13. PICK g \in [0 .. n -> V] : Accumulates(g, n, root, step, fold)
  BY <1>2, <1>4, <1>5, <1>10, <1>12, FoldAlong
<1>14. \A k \in 1 .. n : g[k] = Onward(g[k - 1], e[k])
  <2> SUFFICES ASSUME NEW k \in 1 .. n PROVE g[k] = Onward(g[k - 1], e[k])
    OBVIOUS
  <2>1. k - 1 \in 0 .. n /\ g[k - 1] \in V
    BY <1>2, <1>13
  <2>2. g[k] = step[<<k, g[k - 1]>>]
    BY <1>13 DEF Accumulates
  <2> QED
    BY <1>3, <2>1, <2>2
<1>15. g[0] = root /\ FoldLeft(Onward, root, e) = g[n]
  BY <1>2, <1>8, <1>13 DEF Accumulates
<1> QED
  BY <1>2, <1>13, <1>14, <1>15 DEF V

(* The pieces found so far: there is one that the next character goes to.  *)
SomePieces(C) == {s \in Seq(Seq(C)) : s # <<>>}

LEMMA OneMoreStays ==
  ASSUME NEW C, NEW soFar \in SomePieces(C), NEW c \in C
  PROVE  OneMore(soFar, c) \in SomePieces(C)
<1>1. PICK n \in Nat : n = Len(soFar) /\ DOMAIN soFar = 1 .. n /\ soFar \in Seq(Seq(C)) /\ n >= 1
  <2>1. soFar \in Seq(Seq(C)) /\ soFar # <<>>
    BY DEF SomePieces
  <2>2. Len(soFar) \in Nat /\ DOMAIN soFar = 1 .. Len(soFar) /\ Len(soFar) # 0
    BY <2>1, LenProperties, EmptySeq
  <2>3. Len(soFar) >= 1
    BY <2>2
  <2> QED
    BY <2>1, <2>2, <2>3, Zenon
<1>2. <<>> \in Seq(C)
  BY EmptySeq
<1>3. CASE c = "/"
  <2>1. Append(soFar, <<>>) \in Seq(Seq(C)) /\ Len(Append(soFar, <<>>)) = n + 1
    BY <1>1, <1>2, LineAppended
  <2>2. Append(soFar, <<>>) # <<>>
    BY <1>1, <2>1, EmptySeq
  <2> QED
    BY <1>3, <2>1, <2>2 DEF OneMore, SomePieces
<1>4. CASE c # "/"
  <2>1. PICK new : new = Append(soFar[n], c)
    OBVIOUS
  <2>2. soFar[n] \in Seq(C)
    BY <1>1, ElementOfSeq
  <2>3. new \in Seq(C)
    BY <2>1, <2>2, LineAppended
  <2>4. PICK to : to = [soFar EXCEPT ![n] = new]
    OBVIOUS
  <2>5. OneMore(soFar, c) = to
    BY <1>1, <1>4, <2>1, <2>4 DEF OneMore
  <2>8. to \in Seq(Seq(C)) /\ Len(to) = n
    <3>1. n \in 1 .. Len(soFar)
      BY <1>1
    <3> QED
      BY <1>1, <2>3, <2>4, <3>1, ExceptSeq
  <2>9. to # <<>>
    BY <1>1, <2>8, EmptySeq
  <2> QED
    BY <2>5, <2>8, <2>9 DEF SomePieces
<1> QED
  BY <1>3, <1>4

LEMMA PiecesFold ==
  ASSUME NEW C, NEW s \in Seq(C)
  PROVE  \E g \in [0 .. Len(s) -> SomePieces(C)] :
           /\ g[0] = << <<>> >>
           /\ \A k \in 1 .. Len(s) : g[k] = OneMore(g[k - 1], s[k])
           /\ Pieces(s) = g[Len(s)]
<1> DEFINE V == SomePieces(C)
           base == << <<>> >>
<1>1. base \in V
  <2>1. <<>> \in Seq(C)
    BY EmptySeq
  <2>2. base \in Seq(Seq(C)) /\ Len(base) = 1
    BY <2>1, LineSingle
  <2>3. base # <<>>
    BY <2>2, EmptySeq
  <2> QED
    BY <2>2, <2>3 DEF SomePieces
<1>2. PICK n : n = Len(s) /\ n \in Nat /\ DOMAIN s = 1 .. n
  BY LenProperties
<1>3. PICK step : step = [x \in (1 .. n) \X V |-> OneMore(x[2], s[x[1]])]
  OBVIOUS
<1>4. step \in [(1 .. n) \X V -> V]
  <2>1. ASSUME NEW x \in (1 .. n) \X V
        PROVE  OneMore(x[2], s[x[1]]) \in V
    <3>1. x[2] \in V /\ x[1] \in 1 .. n
      OBVIOUS
    <3>2. s[x[1]] \in C
      BY <1>2, <3>1, ElementOfSeq
    <3> QED
      BY <3>1, <3>2, OneMoreStays
  <2> HIDE DEF V
  <2> QED
    BY <1>3, <2>1
<1> HIDE DEF V, base
<1>6. PICK it \in [SUBSET (1 .. n) -> V] : IsTable(it, n, base, step)
  BY <1>1, <1>2, <1>4, FoldTable
<1>7. it = [t \in SUBSET (DOMAIN s) |->
              IF t = {} THEN base ELSE OneMore(it[t \ {Max(t)}], s[Max(t)])]
  <2>1. ASSUME NEW t \in SUBSET (1 .. n), t # {}
        PROVE  step[<<Max(t), it[t \ {Max(t)}]>>] = OneMore(it[t \ {Max(t)}], s[Max(t)])
    <3>1. Max(t) \in 1 .. n
      BY <1>2, <2>1, MaxFacts
    <3>2. it[t \ {Max(t)}] \in V
      BY <1>6
    <3> QED
      BY <1>3, <3>1, <3>2
  <2>2. \A t \in SUBSET (1 .. n) :
          it[t] = IF t = {} THEN base ELSE OneMore(it[t \ {Max(t)}], s[Max(t)])
    BY <1>6, <2>1 DEF IsTable
  <2> QED
    BY <1>2, <2>2
<1>8. PICK fold : /\ fold = [t \in SUBSET (DOMAIN s) |->
                               IF t = {} THEN base ELSE OneMore(fold[t \ {Max(t)}], s[Max(t)])]
                  /\ Pieces(s) = fold[DOMAIN s]
  <2> DEFINE made == CHOOSE h : h = [t \in SUBSET (DOMAIN s) |->
              IF t = {} THEN << <<>> >> ELSE OneMore(h[t \ {Max(t)}], s[Max(t)])]
  <2>1. made = [t \in SUBSET (DOMAIN s) |->
              IF t = {} THEN << <<>> >> ELSE OneMore(made[t \ {Max(t)}], s[Max(t)])]
    BY <1>7 DEF base
  <2>2. Pieces(s) = made[DOMAIN s]
    BY DEF Pieces, FoldLeft, MapThenFoldSet
  <2> HIDE DEF made
  <2> QED
    BY <2>1, <2>2 DEF base
<1>10. fold[{}] = base
  BY <1>8
<1>11. ASSUME NEW t \in SUBSET (1 .. n), t # {}, fold[t \ {Max(t)}] \in V
       PROVE  fold[t] = step[<<Max(t), fold[t \ {Max(t)}]>>]
  <2>1. Max(t) \in 1 .. n
    BY <1>2, <1>11, MaxFacts
  <2>2. step[<<Max(t), fold[t \ {Max(t)}]>>] = OneMore(fold[t \ {Max(t)}], s[Max(t)])
    BY <1>3, <1>11, <2>1
  <2>3. fold[t] = OneMore(fold[t \ {Max(t)}], s[Max(t)])
    BY <1>2, <1>8, <1>11
  <2> QED
    BY <2>2, <2>3
<1>12. Tabulates(fold, n, V, step)
  BY <1>11 DEF Tabulates
<1>13. PICK g \in [0 .. n -> V] : Accumulates(g, n, base, step, fold)
  BY <1>1, <1>2, <1>4, <1>10, <1>12, FoldAlong
<1>14. \A k \in 1 .. n : g[k] = OneMore(g[k - 1], s[k])
  <2> SUFFICES ASSUME NEW k \in 1 .. n PROVE g[k] = OneMore(g[k - 1], s[k])
    OBVIOUS
  <2>1. k - 1 \in 0 .. n /\ g[k - 1] \in V
    BY <1>2, <1>13
  <2>2. g[k] = step[<<k, g[k - 1]>>]
    BY <1>13 DEF Accumulates
  <2> QED
    BY <1>3, <2>1, <2>2
<1>15. g[0] = base /\ Pieces(s) = g[n]
  BY <1>2, <1>8, <1>13 DEF Accumulates
<1> QED
  BY <1>2, <1>13, <1>14, <1>15 DEF V, base

LEMMA PiecesTyped ==
  ASSUME NEW C, NEW s \in Seq(C)
  PROVE  Pieces(s) \in Seq(Seq(C))
<1>1. PICK g \in [0 .. Len(s) -> SomePieces(C)] : Pieces(s) = g[Len(s)]
  BY PiecesFold
<1>2. Len(s) \in 0 .. Len(s)
  <2>1. Len(s) \in Nat
    BY LenProperties
  <2> QED
    BY <2>1
<1> QED
  BY <1>1, <1>2 DEF SomePieces

(* A slash and a name without any: nothing, and the name.                  *)
LEMMA PiecesOf ==
  ASSUME NEW C, "/" \in C, NEW name \in Seq(C), \A i \in 1 .. Len(name) : name[i] # "/",
         NEW s, s = Piece(name)
  PROVE  Pieces(s) = << <<>>, name >>
<1>1. PICK n \in Nat : n = Len(name)
  BY LenProperties
<1>2. Slash \in Seq(C) /\ Len(Slash) = 1 /\ Slash[1] = "/"
  BY LineSingle DEF Slash
<1>3. /\ s \in Seq(C) /\ Len(s) = n + 1 /\ s[1] = "/"
      /\ \A i \in 1 .. n : s[i + 1] = name[i]
  <2>1. /\ s \in Seq(C) /\ Len(s) = 1 + n
        /\ \A i \in 1 .. 1 : s[i] = Slash[i]
        /\ \A i \in 1 .. n : s[1 + i] = name[i]
    <3>1. PICK a, w : a = Slash /\ w = Slash \o name
      OBVIOUS
    <3>2. a \in Seq(C)
      BY <1>2, <3>1
    <3>3. /\ a \o name \in Seq(C) /\ Len(a \o name) = Len(a) + Len(name)
          /\ \A i \in 1 .. Len(a) : (a \o name)[i] = a[i]
          /\ \A i \in 1 .. Len(name) : (a \o name)[Len(a) + i] = name[i]
      BY <3>2, LineJoined
    <3>4. w = a \o name /\ s = w
      BY <3>1, Zenon DEF Piece
    <3>5. Len(a) = 1
      BY <1>2, <3>1
    <3> QED
      BY <1>1, <3>1, <3>3, <3>4, <3>5, Zenon
  <2> QED
    BY <1>1, <1>2, <2>1
<1>4. PICK g \in [0 .. n + 1 -> SomePieces(C)] :
        /\ g[0] = << <<>> >>
        /\ \A k \in 1 .. n + 1 : g[k] = OneMore(g[k - 1], s[k])
        /\ Pieces(s) = g[n + 1]
  <2>1. \E g \in [0 .. Len(s) -> SomePieces(C)] :
           /\ g[0] = << <<>> >>
           /\ \A k \in 1 .. Len(s) : g[k] = OneMore(g[k - 1], s[k])
           /\ Pieces(s) = g[Len(s)]
    BY <1>3, PiecesFold
  <2> QED
    BY <1>3, <2>1
<1>5. <<>> \in Seq(C) /\ Len(<<>>) = 0
  BY EmptySeq
<1> DEFINE Right(k) == /\ Len(g[k + 1]) = 2 /\ g[k + 1][1] = <<>> /\ g[k + 1][2] \in Seq(C)
                       /\ Len(g[k + 1][2]) = k /\ \A j \in 1 .. k : g[k + 1][2][j] = name[j]
           T == {k \in Nat : k <= n => Right(k)}
<1>6. 0 \in T
  <2>1. g[1] = OneMore(<< <<>> >>, "/")
    <3>1. 1 \in 1 .. n + 1 /\ 1 - 1 = 0
      BY <1>1
    <3>2. g[1] = OneMore(g[1 - 1], s[1])
      BY <1>4, <3>1
    <3> QED
      BY <1>3, <1>4, <3>1, <3>2
  <2>2. g[1] = Append(<< <<>> >>, <<>>)
    BY <2>1 DEF OneMore
  <2>3. << <<>> >> \in Seq(Seq(C)) /\ Len(<< <<>> >>) = 1 /\ << <<>> >>[1] = <<>>
    BY <1>5, LineSingle
  <2>4. PICK a : a = << <<>> >>
    OBVIOUS
  <2>5. /\ Len(Append(a, <<>>)) = 1 + 1
        /\ \A i \in 1 .. 1 : Append(a, <<>>)[i] = a[i]
        /\ Append(a, <<>>)[1 + 1] = <<>>
    BY <1>5, <2>3, <2>4, LineAppended
  <2>6. Len(g[1]) = 2 /\ g[1][1] = <<>> /\ g[1][2] = <<>>
    BY <2>2, <2>3, <2>4, <2>5
  <2>7. Right(0)
    <3>1. 0 + 1 = 1 /\ 1 .. 0 = {}
      OBVIOUS
    <3>2. Len(g[0 + 1]) = 2 /\ g[0 + 1][1] = <<>> /\ g[0 + 1][2] = <<>>
      BY <2>6, <3>1
    <3>3. g[0 + 1][2] \in Seq(C) /\ Len(g[0 + 1][2]) = 0
      BY <1>5, <3>2
    <3>4. \A j \in 1 .. 0 : g[0 + 1][2][j] = name[j]
      BY <3>1
    <3> QED
      BY <3>2, <3>3, <3>4
  <2> QED
    BY <2>7
<1>7. ASSUME NEW k \in Nat, k \in T PROVE k + 1 \in T
  <2> SUFFICES ASSUME k + 1 <= n PROVE Right(k + 1)
    OBVIOUS
  <2>1. Right(k) /\ k + 1 \in 1 .. n /\ k + 1 + 1 \in 1 .. n + 1 /\ (k + 1 + 1) - 1 = k + 1 /\ k + 1 \in 0 .. n + 1
    BY <1>7
  <2>2. PICK a : a = g[k + 1] /\ a \in Seq(Seq(C))
    <3>1. g[k + 1] \in SomePieces(C)
      BY <2>1
    <3> QED
      BY <3>1 DEF SomePieces
  <2>3. PICK c : c = name[k + 1] /\ c \in C /\ c # "/"
    <3>1. name[k + 1] \in C
      BY <1>1, <2>1, ElementOfSeq
    <3> QED
      BY <1>1, <2>1, <3>1
  <2>4. PICK b : b = g[k + 1 + 1] /\ b = OneMore(a, c)
    <3>1. g[k + 1 + 1] = OneMore(g[k + 1], s[k + 1 + 1])
      BY <1>4, <2>1
    <3>2. s[k + 1 + 1] = name[k + 1]
      BY <1>3, <2>1
    <3> QED
      BY <2>2, <2>3, <3>1, <3>2
  <2>5. /\ Len(a) = 2 /\ a[1] = <<>> /\ a[2] \in Seq(C) /\ Len(a[2]) = k
        /\ \A j \in 1 .. k : a[2][j] = name[j]
    BY <2>1, <2>2
  <2>6. PICK p : p = Append(a[2], c) /\ p \in Seq(C) /\ Len(p) = k + 1
                 /\ (\A j \in 1 .. k : p[j] = a[2][j]) /\ p[k + 1] = c
    <3>1. PICK q \in Seq(C) : q = a[2] /\ Len(q) = k
      BY <2>5
    <3>2. /\ Append(q, c) \in Seq(C) /\ Len(Append(q, c)) = k + 1
          /\ \A i \in 1 .. k : Append(q, c)[i] = q[i]
          /\ Append(q, c)[k + 1] = c
      BY <2>3, <3>1, LineAppended
    <3> QED
      BY <3>1, <3>2
  <2>7. b = [a EXCEPT ![2] = p]
    BY <2>3, <2>4, <2>5, <2>6 DEF OneMore
  <2>8. Len(b) = 2 /\ b[1] = <<>> /\ b[2] = p
    <3>1. 2 \in 1 .. Len(a) /\ 1 \in 1 .. Len(a)
      BY <2>5
    <3>2. Len([a EXCEPT ![2] = p]) = Len(a)
          /\ \A j \in 1 .. Len(a) : [a EXCEPT ![2] = p][j] = IF j = 2 THEN p ELSE a[j]
      BY <2>2, <2>6, <3>1, ExceptSeq
    <3> QED
      BY <2>5, <2>7, <3>1, <3>2
  <2>9. \A j \in 1 .. k + 1 : p[j] = name[j]
    <3>1. \A j \in 1 .. k + 1 : j \in 1 .. k \/ j = k + 1
      OBVIOUS
    <3> QED
      BY <2>3, <2>5, <2>6, <3>1
  <2> QED
    BY <2>4, <2>6, <2>8, <2>9
<1>8. \A k \in Nat : k \in T
  <2> HIDE DEF T
  <2> QED
    BY <1>6, <1>7, Induction
<1>9. Right(n)
  BY <1>8
<1>10. PICK a : a = g[n + 1] /\ a \in Seq(Seq(C)) /\ Len(a) = 2 /\ a[1] = <<>> /\ a[2] \in Seq(C)
                /\ Len(a[2]) = n /\ \A j \in 1 .. n : a[2][j] = name[j]
  <2>1. n + 1 \in 0 .. n + 1
    OBVIOUS
  <2>2. g[n + 1] \in SomePieces(C)
    BY <2>1
  <2> QED
    BY <1>9, <2>2 DEF SomePieces
<1>11. a[2] = name
  BY <1>1, <1>10, SeqEqual
<1>12. a = << <<>>, name >>
  <2>1. << <<>>, name >> \in Seq(Seq(C)) /\ Len(<< <<>>, name >>) = 2 /\ << <<>>, name >>[1] = <<>> /\ << <<>>, name >>[2] = name
    BY <1>5, LinePair
  <2>2. \A i \in 1 .. 2 : i = 1 \/ i = 2
    OBVIOUS
  <2>3. \A i \in 1 .. Len(a) : a[i] = << <<>>, name >>[i]
    BY <1>10, <1>11, <2>1, <2>2
  <2> QED
    BY <1>10, <2>1, <2>3, SeqEqual
<1> QED
  BY <1>4, <1>10, <1>12

-----------------------------------------------------------------------------
(* Looking a path up                                                       *)

LEMMA MountFacts ==
  ASSUME MountsTyped(mountTable), NEW i \in MountIds, mountTable[i].used
  PROVE  /\ mountTable[i].path \in MountPaths /\ mountTable[i].root \in RootNodes
         /\ Len(mountTable[i].path) \in Nat /\ mountTable[i].path \in Seq(Range(mountTable[i].path))
<1>1. mountTable[i].path \in MountPaths /\ mountTable[i].root \in RootNodes
  BY DEF MountsTyped, MountTyped
<1>2. mountTable[i].path \in Seq(Range(mountTable[i].path))
  BY <1>1, VfsFacts
<1> QED
  BY <1>1, <1>2, LenProperties

(* Of the mount points that begin a path there is a longest.               *)
LEMMA BestBegins ==
  ASSUME MountsTyped(mountTable), NEW C, NEW path \in Seq(C), Begin(path) # {}
  PROVE  Best(path) \in Begin(path)
<1>1. PICK n \in Nat : n = Len(path)
  BY LenProperties
<1>2. PICK b : b = Begin(path)
  OBVIOUS
<1>3. PICK len : len = [i \in MountIds |-> Len(mountTable[i].path)]
  OBVIOUS
<1>4. \A i \in b : i \in MountIds /\ i \in Nat /\ len[i] \in Nat /\ len[i] <= n
  <2> SUFFICES ASSUME NEW i \in b PROVE i \in MountIds /\ i \in Nat /\ len[i] \in Nat /\ len[i] <= n
    OBVIOUS
  <2>1. i \in MountIds /\ mountTable[i].used /\ IsPrefix(mountTable[i].path, path)
    BY <1>2 DEF Begin
  <2>2. Len(mountTable[i].path) <= Len(path)
    BY <2>1 DEF IsPrefix
  <2>3. Len(mountTable[i].path) \in Nat
    BY <2>1, MountFacts
  <2>4. i \in Nat
    BY <2>1 DEF MountIds
  <2> QED
    BY <1>1, <1>3, <2>1, <2>2, <2>3, <2>4
<1>5. PICK i \in b : \A j \in b : len[j] <= len[i]
  <2> DEFINE D == {n - len[j] : j \in b}
  <2>1. D \subseteq Nat
    BY <1>4
  <2>2. D # {}
    BY <1>2
  <2>3. PICK d \in D : \A y \in D : d <= y
    BY <2>1, <2>2, LeastNumber
  <2>4. PICK i \in b : d = n - len[i]
    BY <2>3
  <2>5. \A j \in b : n - len[i] <= n - len[j]
    BY <2>3, <2>4
  <2>6. \A j \in b : len[j] <= len[i]
    BY <1>4, <2>5
  <2> QED
    BY <2>6
<1>6. PICK k \in b : len[k] = len[i] /\ \A j \in b : len[j] = len[i] => k <= j
  <2> DEFINE D == {j \in b : len[j] = len[i]}
  <2>1. D \subseteq Nat
    BY <1>4
  <2>2. D # {}
    OBVIOUS
  <2>3. PICK k \in D : \A y \in D : k <= y
    BY <2>1, <2>2, LeastNumber
  <2> QED
    BY <2>3
<1>7. \A j \in b : len[j] < len[k] \/ (len[j] = len[k] /\ k <= j)
  BY <1>4, <1>5, <1>6
<1>8. \A j \in b : \/ Len(mountTable[j].path) < Len(mountTable[k].path)
                   \/ Len(mountTable[j].path) = Len(mountTable[k].path) /\ k <= j
  BY <1>3, <1>4, <1>7
<1> QED
  BY <1>2, <1>8 DEF Best

LEMMA LookupTrue ==
  ASSUME VfsInv, NEW C, NEW path \in Seq(C), VfsLookup(path) # NoNode
  PROVE  NodeTrue(VfsLookup(path), ramNodes, tables)
<1>1. MountsTyped(mountTable) /\ RootsTrue(mountTable, ramNodes)
  BY DEF VfsInv
<1>2. Begin(path) # {}
  BY DEF VfsLookup
<1>3. PICK i : i = Best(path) /\ i \in Begin(path)
  BY <1>1, <1>2, BestBegins
<1>4. i \in MountIds /\ mountTable[i].used
  BY <1>3 DEF Begin
<1>5. PICK m : m = mountTable[i] /\ m.root \in RootNodes /\ Len(m.path) \in Nat
  BY <1>1, <1>4, MountFacts
<1>6. NodeTrue(m.root, ramNodes, tables)
  <2>1. m.root \in VfsNodes /\ (m.root.fs # "ramfs" => m.root.at = 0)
    BY <1>5, RootsAreNodes
  <2>2. m.root.fs = "ramfs" => ramNodes[m.root.at].live
    BY <1>1, <1>4, <1>5 DEF RootsTrue
  <2> QED
    BY <2>1, <2>2 DEF NodeTrue
<1>7. m.root \in PathEnds
  <2>1. m.root \in VfsNodes
    BY <1>6 DEF NodeTrue
  <2> QED
    BY <1>6, <2>1 DEF PathEnds
<1>8. PICK rest : rest = SubSeq(path, Len(m.path) + 1, Len(path)) /\ rest \in Seq(C)
  <2>1. Len(path) \in Nat /\ \A k \in 1 .. Len(path) : path[k] \in C
    BY LenProperties, ElementOfSeq
  <2>2. Len(m.path) + 1 \in Int /\ Len(path) \in Int /\ \A k \in Len(m.path) + 1 .. Len(path) : path[k] \in C
    BY <1>5, <2>1
  <2>3. SubSeq(path, Len(m.path) + 1, Len(path)) \in Seq(C)
    BY <2>2, SubSeqProperties
  <2> QED
    BY <2>3
<1>9. PICK e : e = Pieces(rest) /\ e \in Seq(Seq(C))
  BY <1>8, PiecesTyped
<1>10. VfsLookup(path) = FoldLeft(Onward, m.root, e)
  BY <1>2, <1>3, <1>5, <1>8, <1>9 DEF VfsLookup
<1>11. PICK g \in [0 .. Len(e) -> PathEnds] : FoldLeft(Onward, m.root, e) = g[Len(e)]
  <2>1. \E g \in [0 .. Len(e) -> PathEnds] :
           /\ g[0] = m.root
           /\ \A k \in 1 .. Len(e) : g[k] = Onward(g[k - 1], e[k])
           /\ FoldLeft(Onward, m.root, e) = g[Len(e)]
    BY <1>7, <1>9, OnwardFold, ZenonT(30)
  <2> QED
    BY <2>1
<1>12. Len(e) \in 0 .. Len(e)
  <2>1. Len(e) \in Nat
    BY <1>9, LenProperties
  <2> QED
    BY <2>1
<1>13. VfsLookup(path) \in PathEnds
  BY <1>10, <1>11, <1>12
<1> QED
  BY <1>13 DEF PathEnds

(* A sequence in front of another is found there, and so is the other.     *)
LEMMA InFront ==
  ASSUME NEW C, NEW mp \in Seq(C), NEW rest \in Seq(C)
  PROVE  /\ IsPrefix(mp, mp \o rest)
         /\ SubSeq(mp \o rest, Len(mp) + 1, Len(mp \o rest)) = rest
<1>1. PICK path : path = mp \o rest
  OBVIOUS
<1>3. Len(mp) \in Nat /\ Len(rest) \in Nat
  BY LenProperties
<1>8. /\ path \in Seq(C) /\ Len(path) = Len(mp) + Len(rest)
      /\ \A k \in 1 .. Len(mp) : path[k] = mp[k]
      /\ \A k \in 1 .. Len(rest) : path[Len(mp) + k] = rest[k]
  <2>1. /\ mp \o rest \in Seq(C) /\ Len(mp \o rest) = Len(mp) + Len(rest)
        /\ \A k \in 1 .. Len(mp) : (mp \o rest)[k] = mp[k]
        /\ \A k \in 1 .. Len(rest) : (mp \o rest)[Len(mp) + k] = rest[k]
    BY LineJoined
  <2> QED
    BY <1>1, <2>1, Zenon
<1> HIDE <1>1
<1>9. SubSeq(path, Len(mp) + 1, Len(path)) = rest
  <2>1. PICK a, n : a = Len(mp) /\ n = Len(rest)
    OBVIOUS
  <2>2. a \in Nat /\ n \in Nat /\ Len(path) = a + n
    BY <1>3, <1>8, <2>1
  <2>3. \A k \in a + 1 .. a + n : path[k] \in C
    <3>1. \A k \in 1 .. Len(path) : path[k] \in C
      BY <1>8, ElementOfSeq
    <3> QED
      BY <2>2, <3>1
  <2>4. PICK b, d : b = a + 1 /\ d = a + n
    OBVIOUS
  <2>5. PICK sub : sub = SubSeq(path, b, d)
    OBVIOUS
  <2>6. /\ sub \in Seq(C) /\ Len(sub) = n
        /\ \A k \in 1 .. n : sub[k] = path[a + k]
    <3>1. b \in Int /\ d \in Int /\ \A k \in b .. d : path[k] \in C
      BY <2>2, <2>3, <2>4
    <3>2. /\ SubSeq(path, b, d) \in Seq(C) /\ Len(SubSeq(path, b, d)) = (IF b <= d THEN d - b + 1 ELSE 0)
          /\ \A k \in 1 .. d - b + 1 : SubSeq(path, b, d)[k] = path[b + k - 1]
      BY <3>1, SubSeqProperties
    <3>3. d - b + 1 = n /\ (IF b <= d THEN d - b + 1 ELSE 0) = n /\ \A k \in 1 .. n : b + k - 1 = a + k
      BY <2>2, <2>4
    <3> QED
      BY <2>5, <3>2, <3>3, Zenon
  <2>7. \A k \in 1 .. n : sub[k] = rest[k]
    BY <1>8, <2>1, <2>6
  <2>8. sub = rest
    BY <2>1, <2>6, <2>7, SeqEqual
  <2> QED
    BY <2>1, <2>2, <2>4, <2>5, <2>8
<1>10. IsPrefix(mp, path)
  <2>1. PICK a : a = Len(mp) /\ a \in Nat /\ a <= Len(path)
    <3>1. Len(mp) <= Len(path)
      BY <1>3, <1>8
    <3> QED
      BY <1>3, <3>1, Zenon
  <2>2. SubSeq(mp, 1, a) = mp
    <3>1. \A k \in 1 .. a : mp[k] \in C
      BY <2>1, ElementOfSeq
    <3>2. /\ SubSeq(mp, 1, a) \in Seq(C) /\ Len(SubSeq(mp, 1, a)) = (IF 1 <= a THEN a - 1 + 1 ELSE 0)
          /\ \A k \in 1 .. a - 1 + 1 : SubSeq(mp, 1, a)[k] = mp[1 + k - 1]
      <4>1. 1 \in Int /\ a \in Int
        BY <2>1
      <4> QED
        BY <3>1, <4>1, SubSeqProperties
    <3>3. Len(SubSeq(mp, 1, a)) = a /\ \A k \in 1 .. a : SubSeq(mp, 1, a)[k] = mp[k]
      BY <2>1, <3>2
    <3> QED
      BY <2>1, <3>2, <3>3, SeqEqual
  <2>3. SubSeq(path, 1, a) = mp
    <3>1. \A k \in 1 .. a : path[k] \in C /\ path[k] = mp[k]
      BY <1>8, <2>1, ElementOfSeq
    <3>2. /\ SubSeq(path, 1, a) \in Seq(C) /\ Len(SubSeq(path, 1, a)) = (IF 1 <= a THEN a - 1 + 1 ELSE 0)
          /\ \A k \in 1 .. a - 1 + 1 : SubSeq(path, 1, a)[k] = path[1 + k - 1]
      <4>1. 1 \in Int /\ a \in Int /\ \A k \in 1 .. a : path[k] \in C
        BY <2>1, <3>1
      <4> HIDE <3>1
      <4> QED
        BY <4>1, SubSeqProperties
    <3>3. Len(SubSeq(path, 1, a)) = a /\ \A k \in 1 .. a : SubSeq(path, 1, a)[k] = mp[k]
      BY <2>1, <3>1, <3>2
    <3> QED
      BY <2>1, <3>2, <3>3, SeqEqual
  <2> QED
    BY <2>1, <2>2, <2>3 DEF IsPrefix
<1> QED
  BY <1>1, <1>9, <1>10, Zenon

(* A path that is a mount point, a slash and a name without any leads to   *)
(* what the root's directory has for the name.                             *)
LEMMA LookupListed ==
  ASSUME VfsInv, NEW i \in MountIds, mountTable[i].used, NEW name, name \in Seq(Range(name)), name # <<>>,
         "/" \notin Range(name),
         NEW path, path = Inside(mountTable[i].path, name), Best(path) = i
  PROVE  VfsLookup(path) = FindDir(mountTable[i].root, name)
<1>1. MountsTyped(mountTable) /\ RootsTrue(mountTable, ramNodes)
  BY DEF VfsInv
<1>2. PICK mp, root : mp = mountTable[i].path /\ root = mountTable[i].root
  OBVIOUS
<1>3. root \in RootNodes /\ mp \in Seq(Range(mp)) /\ Len(mp) \in Nat
  BY <1>1, <1>2, MountFacts
<1>4. PICK C : C = Range(mp) \cup Range(name) \cup {"/"}
  OBVIOUS
<1>5. mp \in Seq(C) /\ name \in Seq(C) /\ Slash \in Seq(C) /\ "/" \in C /\ Len(Slash) = 1
  <2>1. mp \in Seq(C)
    BY <1>3, <1>4, SeqMonotonic
  <2>2. name \in Seq(C)
    BY <1>4, SeqMonotonic
  <2>3. Slash \in Seq(C) /\ Len(Slash) = 1
    BY <1>4, LineSingle DEF Slash
  <2> QED
    BY <1>4, <2>1, <2>2, <2>3
<1>6. PICK rest : rest = Piece(name) /\ rest \in Seq(C) /\ Len(rest) \in Nat
  <2>1. Slash \o name \in Seq(C)
    BY <1>5, LineJoined
  <2>2. Len(Slash \o name) \in Nat
    BY <2>1, LenProperties
  <2> QED
    BY <2>1, <2>2, Zenon DEF Piece
<1>7. path = mp \o rest
  <2>1. (mp \o Slash) \o name = mp \o (Slash \o name)
    BY <1>5, ConcatAssociative
  <2> QED
    BY <1>2, <1>6, <2>1, Zenon DEF Piece, Inside
<1>9. SubSeq(path, Len(mp) + 1, Len(path)) = rest /\ IsPrefix(mp, path)
  <2>1. /\ IsPrefix(mp, mp \o rest)
        /\ SubSeq(mp \o rest, Len(mp) + 1, Len(mp \o rest)) = rest
    BY <1>5, <1>6, InFront
  <2> QED
    BY <1>7, <2>1, Zenon
<1>10. i \in Begin(path)
  BY <1>2, <1>9, Zenon DEF Begin
<1>11. PICK e : e = << <<>>, name >> /\ e = Pieces(rest) /\ e \in Seq(Seq(C)) /\ Len(e) = 2 /\ e[1] = <<>> /\ e[2] = name
  <2>1. \A k \in 1 .. Len(name) : name[k] # "/"
    <3>1. \A k \in 1 .. Len(name) : name[k] \in Range(name)
      BY ElementOfSeq
    <3> QED
      BY <3>1
  <2>2. Pieces(rest) = << <<>>, name >>
    BY <1>5, <1>6, <2>1, PiecesOf
  <2>3. <<>> \in Seq(C)
    BY EmptySeq
  <2>4. << <<>>, name >> \in Seq(Seq(C)) /\ Len(<< <<>>, name >>) = 2
        /\ << <<>>, name >>[1] = <<>> /\ << <<>>, name >>[2] = name
    BY <1>5, <2>3, LinePair
  <2> QED
    BY <2>2, <2>4
<1>12. VfsLookup(path) = FoldLeft(Onward, root, e)
  <2>1. Begin(path) # {}
    BY <1>10
  <2>2. VfsLookup(path) = FoldLeft(Onward, mountTable[i].root, Pieces(SubSeq(path, Len(mountTable[i].path) + 1, Len(path))))
    BY <2>1 DEF VfsLookup
  <2> QED
    BY <1>2, <1>9, <1>11, <2>2
<1>13. root \in PathEnds /\ root # NoNode
  <2>1. root \in VfsNodes /\ (root.fs # "ramfs" => root.at = 0)
    BY <1>3, RootsAreNodes
  <2>2. root.fs = "ramfs" => ramNodes[root.at].live
    BY <1>1, <1>2 DEF RootsTrue
  <2>3. NodeTrue(root, ramNodes, tables)
    BY <2>1, <2>2 DEF NodeTrue
  <2>4. root # NoNode
    BY <2>1, NodeKinds
  <2> QED
    BY <2>1, <2>3, <2>4 DEF PathEnds
<1>14. PICK g \in [0 .. Len(e) -> PathEnds] :
         /\ g[0] = root
         /\ \A k \in 1 .. Len(e) : g[k] = Onward(g[k - 1], e[k])
         /\ FoldLeft(Onward, root, e) = g[Len(e)]
  <2>1. e \in Seq(Seq(C)) /\ root \in PathEnds
    BY <1>11, <1>13
  <2> QED
    BY <2>1, OnwardFold
<1>15. g[1] = Onward(root, <<>>) /\ g[2] = Onward(g[1], name)
  <2>1. 1 \in 1 .. Len(e) /\ 2 \in 1 .. Len(e)
    BY <1>11
  <2>2. g[1] = Onward(g[1 - 1], e[1]) /\ g[2] = Onward(g[2 - 1], e[2])
    BY <1>14, <2>1
  <2> QED
    BY <1>11, <1>14, <2>2
<1>16. g[1] = root
  BY <1>15 DEF Onward
<1>17. g[2] = FindDir(root, name)
  BY <1>13, <1>15, <1>16 DEF Onward
<1> QED
  BY <1>2, <1>11, <1>12, <1>14, <1>17

-----------------------------------------------------------------------------
(* What the invariant promises                                             *)

LEMMA RootListed ==
  ASSUME VfsInv, NEW root \in RootNodes, NEW name \in ReadDir(root)
  PROVE  LET found == FindDir(root, name)
         IN /\ name \in VfsNames /\ found.name = name /\ found.fs = root.fs
            /\ IF found.fs = "ramfs" THEN ramNodes[found.at].live /\ ramNodes[found.at].name = name
               ELSE tables[found.fs][EntryOf(found)] = name
<1>1. TablesTyped(tables) /\ RamsTyped(ramNodes) /\ KidsNamed(ramNodes)
  BY DEF VfsInv
<1>2. root \in VfsNodes
  BY RootsAreNodes
<1>3. /\ root.fs \in {"ramfs", "devfs", "procfs", "sysfs"}
      /\ root.fs = "ramfs" => root.at \in RamIds
  BY <1>2, NodeKinds
<1>4. TableFs = {"devfs", "procfs", "sysfs"} /\ EntrySlots \in Nat
  BY VfsFacts
<1>5. ASSUME NEW f \in TableFs, name \in Range(tables[f]) \ {<<>>}
      PROVE  name # <<>> /\ name \in VfsNames /\ IndexOf(f, name) # {}
  <2>1. DOMAIN tables[f] = 1 .. EntrySlots /\ \A j \in 1 .. EntrySlots : tables[f][j] \in VfsNames \cup {<<>>}
    BY <1>1 DEF TablesTyped
  <2>2. PICK j \in 1 .. EntrySlots : name = tables[f][j]
    BY <1>5, <2>1 DEF Range
  <2> QED
    BY <1>5, <2>1, <2>2 DEF IndexOf
<1>6. CASE root.fs = "ramfs"
  <2>1. name \in RamReadDir(root)
    BY <1>6 DEF ReadDir
  <2>2. PICK kids : kids = ramNodes[root.at].kids /\ kids \in Seq(RamIds)
    BY <1>1, <1>3, <1>6 DEF RamsTyped, RamTyped
  <2>3. DOMAIN kids = 1 .. Len(kids)
    BY <2>2, LenProperties
  <2>4. PICK j \in 1 .. Len(kids) : name = ramNodes[kids[j]].name
    BY <2>1, <2>2, <2>3 DEF RamReadDir, Range
  <2>5. name \in NewNames
    BY <1>1, <1>3, <1>6, <2>2, <2>4 DEF KidsNamed
  <2>6. name \in VfsNames
    BY <2>5, VfsFacts
  <2>7. PICK same : same = {l \in DOMAIN kids : ramNodes[kids[l]].name = name}
    OBVIOUS
  <2>8. same # {}
    BY <2>3, <2>4, <2>7
  <2>9. PICK found : /\ found = FindDir(root, name)
                     /\ found = [fs |-> "ramfs", at |-> kids[Min(same)], name |-> name]
                     /\ found = RamFindDir(root, name)
    BY <1>6, <2>2, <2>7, <2>8 DEF FindDir, RamFindDir
  <2>10. found.name = name /\ found.fs = "ramfs" /\ found # NoNode
    <3>1. found.name = name /\ found.fs = "ramfs" /\ NoNode.fs = "none"
      BY <2>9 DEF NoNode
    <3> QED
      BY <3>1
  <2>11. NodeTrue(found, ramNodes, tables) /\ ramNodes[found.at].name = name
    BY <1>1, <1>3, <1>6, <2>9, <2>10, RamNodeTrue
  <2>12. ramNodes[found.at].live
    BY <2>10, <2>11 DEF NodeTrue
  <2> QED
    BY <1>6, <2>6, <2>9, <2>10, <2>11, <2>12
<1>7. ASSUME root.fs \in {"devfs", "procfs"}, FindDir(root, name) = EntryNode(root.fs, name),
             name \in Range(tables[root.fs]) \ {<<>>}, \A n : n.fs = root.fs => EntryOf(n) = n.at
      PROVE  LET found == FindDir(root, name)
             IN /\ name \in VfsNames /\ found.name = name /\ found.fs = root.fs
                /\ IF found.fs = "ramfs" THEN ramNodes[found.at].live /\ ramNodes[found.at].name = name
                   ELSE tables[found.fs][EntryOf(found)] = name
  <2>1. root.fs \in TableFs
    BY <1>4, <1>7
  <2>2. name \in VfsNames /\ IndexOf(root.fs, name) # {}
    BY <1>5, <1>7, <2>1
  <2>3. PICK found : /\ found = FindDir(root, name)
                     /\ found = [fs |-> root.fs, at |-> Min(IndexOf(root.fs, name)), name |-> name]
    BY <1>7, <2>2 DEF EntryNode
  <2>4. found.fs = root.fs /\ found.at = Min(IndexOf(root.fs, name)) /\ found.name = name /\ found.fs # "ramfs"
    BY <1>7, <2>3
  <2>5. EntryOf(found) = found.at
    BY <1>7, <2>4
  <2>6. tables[found.fs][EntryOf(found)] = name
    BY <2>2, <2>4, <2>5, Indexed
  <2> QED
    BY <2>2, <2>3, <2>4, <2>6
<1>8. CASE root.fs = "devfs"
  <2>1. FindDir(root, name) = EntryNode(root.fs, name) /\ name \in Range(tables[root.fs]) \ {<<>>}
    BY <1>8 DEF FindDir, DevFindDir, ReadDir, DevReadDir
  <2>2. \A n : n.fs = root.fs => EntryOf(n) = n.at
    BY <1>8 DEF EntryOf, DevEntry
  <2> QED
    BY <1>7, <1>8, <2>1, <2>2
<1>9. CASE root.fs = "procfs"
  <2>1. FindDir(root, name) = EntryNode(root.fs, name) /\ name \in Range(tables[root.fs]) \ {<<>>}
    BY <1>9 DEF FindDir, ProcFindDir, ReadDir, ProcReadDir
  <2>2. \A n : n.fs = root.fs => EntryOf(n) = n.at
    BY <1>9 DEF EntryOf, ProcEntry
  <2> QED
    BY <1>7, <1>9, <2>1, <2>2
<1>10. CASE root.fs = "sysfs"
  <2>1. name \in Range(tables["sysfs"]) \ {<<>>} /\ "sysfs" \in TableFs
    BY <1>4, <1>10 DEF ReadDir, SysReadDir
  <2>2. name \in VfsNames /\ IndexOf("sysfs", name) # {}
    BY <1>5, <2>1
  <2>3. PICK found : found = FindDir(root, name) /\ found = [fs |-> "sysfs", at |-> 0, name |-> name]
    BY <1>10, <2>2 DEF FindDir, SysFindDir
  <2>4. found.fs = "sysfs" /\ found.name = name
    BY <2>3
  <2>5. EntryOf(found) = Min(IndexOf("sysfs", name))
    BY <2>2, <2>4 DEF EntryOf, SysEntry
  <2>6. tables[found.fs][EntryOf(found)] = name
    BY <2>2, <2>4, <2>5, Indexed
  <2> QED
    BY <1>10, <2>2, <2>3, <2>4, <2>6
<1> QED
  BY <1>3, <1>6, <1>8, <1>9, <1>10

LEMMA ListedHolds ==
  ASSUME VfsInv
  PROVE  ListedIsFound
<1> SUFFICES ASSUME NEW i \in MountIds, mountTable[i].used, NEW name \in ReadDir(mountTable[i].root),
                    NEW path, path = mountTable[i].path \o <<"/">> \o name,
                    Best(path) = i, "/" \notin Range(name)
             PROVE  /\ VfsLookup(path).name = name
                    /\ VfsLookup(path).fs = mountTable[i].root.fs
                    /\ IF VfsLookup(path).fs = "ramfs"
                       THEN ramNodes[VfsLookup(path).at].live /\ ramNodes[VfsLookup(path).at].name = name
                       ELSE tables[VfsLookup(path).fs][EntryOf(VfsLookup(path))] = name
  BY ZenonT(30) DEF ListedIsFound
<1>1. mountTable[i].root \in RootNodes
  <2>1. MountsTyped(mountTable)
    BY DEF VfsInv
  <2> QED
    BY <2>1, MountFacts
<1>2. PICK root : root = mountTable[i].root /\ root \in RootNodes /\ name \in ReadDir(root)
  BY <1>1
<1>3. /\ name \in VfsNames
      /\ FindDir(root, name).name = name /\ FindDir(root, name).fs = root.fs
      /\ IF FindDir(root, name).fs = "ramfs"
         THEN ramNodes[FindDir(root, name).at].live /\ ramNodes[FindDir(root, name).at].name = name
         ELSE tables[FindDir(root, name).fs][EntryOf(FindDir(root, name))] = name
  BY <1>2, RootListed
<1>4. name \in Seq(Range(name)) /\ name # <<>>
  BY <1>3, VfsFacts
<1>5. path = Inside(mountTable[i].path, name)
  BY Zenon DEF Slash, Inside
<1>6. VfsLookup(path) = FindDir(root, name)
  BY <1>2, <1>4, <1>5, LookupListed
<1> QED
  BY <1>2, <1>3, <1>6

LEMMA OpenHolds ==
  ASSUME VfsInv
  PROVE  OpenIsEntry
<1> SUFFICES ASSUME NEW u \in Users, opened[u] # NoNode, opened[u].fs # "ramfs", EntryOf(opened[u]) # 0
             PROVE  tables[opened[u].fs][EntryOf(opened[u])] = opened[u].name
  BY DEF OpenIsEntry
<1>1. PICK n : n = opened[u] /\ NodeTrue(n, ramNodes, tables)
  BY DEF VfsInv, OpenedTrue
<1>2. n \in VfsNodes /\ (n.fs \in {"devfs", "procfs"} /\ n.at # 0 => tables[n.fs][n.at] = n.name)
  BY <1>1 DEF NodeTrue
<1>3. n.fs \in {"devfs", "procfs", "sysfs"}
  BY <1>1, <1>2, NodeKinds
<1>4. CASE n.fs \in {"devfs", "procfs"}
  <2>1. EntryOf(n) = n.at
    BY <1>4 DEF EntryOf, DevEntry, ProcEntry
  <2> QED
    BY <1>1, <1>2, <1>4, <2>1
<1>5. CASE n.fs = "sysfs"
  <2>1. EntryOf(n) = SysEntry(n)
    BY <1>5 DEF EntryOf
  <2>2. IndexOf("sysfs", n.name) # {} /\ SysEntry(n) = Min(IndexOf("sysfs", n.name))
    BY <1>1, <2>1 DEF SysEntry
  <2>3. tables["sysfs"][Min(IndexOf("sysfs", n.name))] = n.name
    BY <2>2, Indexed
  <2> QED
    BY <1>1, <1>5, <2>1, <2>2, <2>3
<1> QED
  BY <1>3, <1>4, <1>5

LEMMA RamHolds ==
  ASSUME VfsInv
  PROVE  RamKept
<1> SUFFICES ASSUME NEW i \in RamIds
             PROVE  /\ puts[i] \subseteq RamRead([fs |-> "ramfs", at |-> i], 0, RAMMAX) \cap ramNodes[i].bytes
                    /\ ramNodes[i].refs = Cardinality({u \in Users : opened[u].fs = "ramfs" /\ opened[u].at = i})
  BY DEF RamKept, LiveRam
<1>1. ramNodes[i].refs = Cardinality({u \in Users : opened[u].fs = "ramfs" /\ opened[u].at = i})
  BY DEF VfsInv, RefsTrue, Having
<1>2. puts[i] = ramNodes[i].bytes
  BY DEF VfsInv, PutsTrue
<1>3. PICK r : /\ r = ramNodes[i] /\ r.alloc \in 0 .. RAMMAX /\ r.size \in 0 .. r.alloc /\ r.bytes \subseteq 0 .. r.size - 1
  BY DEF VfsInv, RamsTyped, RamTyped
<1>4. RAMMAX \in Nat
  BY VfsAssumption
<1>5. ASSUME NEW b \in r.bytes PROVE b \in RamRead([fs |-> "ramfs", at |-> i], 0, RAMMAX)
  <2>1. b \in 0 .. r.size - 1 /\ r.size \in Nat /\ r.size > 0 /\ r.alloc \in Nat /\ r.alloc > 0 /\ r.size <= RAMMAX
    BY <1>3, <1>4, <1>5
  <2>2. PICK t : t = {RAMMAX, r.size - 0} /\ t = {RAMMAX, r.size}
    <3>1. r.size - 0 = r.size
      BY <2>1
    <3> QED
      BY <3>1, Zenon
  <2>3. Min(t) = r.size
    <3>1. Min(t) \in t /\ \A x \in t : Min(t) <= x
      <4>1. t \subseteq Nat /\ t # {}
        BY <1>4, <2>1, <2>2
      <4> QED
        BY <4>1, MinFacts
    <3> QED
      BY <1>4, <2>1, <2>2, <3>1
  <2>4. RamRead([fs |-> "ramfs", at |-> i], 0, RAMMAX) = 0 .. 0 + Min(t) - 1
    <3>1. PICK node : node = [fs |-> "ramfs", at |-> i] /\ node.at = i
      <4>1. [fs |-> "ramfs", at |-> i].at = i
        OBVIOUS
      <4> QED
        BY <4>1, Zenon
    <3>2. ~(ramNodes[node.at].alloc = 0 \/ 0 >= ramNodes[node.at].size)
      BY <1>3, <2>1, <3>1
    <3>3. RamRead(node, 0, RAMMAX) = 0 .. 0 + Min({RAMMAX, r.size - 0}) - 1
      BY <1>3, <3>1, <3>2 DEF RamRead
    <3> QED
      BY <2>2, <3>1, <3>3
  <2> QED
    BY <2>1, <2>3, <2>4
<1> QED
  BY <1>1, <1>2, <1>3, <1>5

LEMMA VfsTyped ==
  ASSUME VfsInv
  PROVE  VfsTypeOK
<1>1. \A i \in MountIds : mountTable[i].path \in MountPaths \cup {<<>>}
  BY DEF VfsInv, MountsTyped, MountTyped
<1>2. Len(fsRegistry) <= Len(BootOrder)
  BY DEF VfsInv
<1>3. \A f \in TableFs : Len(tables[f]) = EntrySlots
  <2> SUFFICES ASSUME NEW f \in TableFs PROVE Len(tables[f]) = EntrySlots
    OBVIOUS
  <2>1. tables[f] \in [1 .. EntrySlots -> VfsNames \cup {<<>>}] /\ EntrySlots \in Nat
    BY VfsFacts DEF VfsInv, TablesTyped
  <2> QED
    BY <2>1
<1>4. \A i \in RamIds : ramNodes[i].size <= ramNodes[i].alloc /\ ramNodes[i].alloc <= RAMMAX
  <2> SUFFICES ASSUME NEW i \in RamIds PROVE ramNodes[i].size <= ramNodes[i].alloc /\ ramNodes[i].alloc <= RAMMAX
    OBVIOUS
  <2>1. ramNodes[i].alloc \in 0 .. RAMMAX /\ ramNodes[i].size \in 0 .. ramNodes[i].alloc /\ RAMMAX \in Nat
    BY VfsAssumption DEF VfsInv, RamsTyped, RamTyped
  <2> QED
    BY <2>1
<1>5. opened \in [Users -> {NoNode} \cup [fs : {"ramfs"} \cup TableFs, at : RamIds \cup (0 .. EntrySlots),
                                          name : {n : n \in UNION {Range(Entries[f]) : f \in TableFs}} \cup NewNames \cup {<<"/">>}]]
  <2>1. opened \in [Users -> VfsNodes \cup {NoNode}]
    BY DEF VfsInv, OpenedTrue
  <2>2. VfsNodes \subseteq [fs : {"ramfs"} \cup TableFs, at : RamIds \cup (0 .. EntrySlots),
                            name : {n : n \in UNION {Range(Entries[f]) : f \in TableFs}} \cup NewNames \cup {<<"/">>}]
    BY DEF VfsNodes, VfsNames, Slash
  <2> QED
    BY <2>1, <2>2
<1>6. puts \in [RamIds -> SUBSET Offsets]
  BY DEF VfsInv, PutsTrue
<1> QED
  BY <1>1, <1>2, <1>3, <1>4, <1>5, <1>6 DEF VfsTypeOK

LEMMA VfsPromises ==
  ASSUME VfsInv
  PROVE  VfsTypeOK /\ ListedIsFound /\ OpenIsEntry /\ RamKept
BY VfsTyped, ListedHolds, OpenHolds, RamHolds

-----------------------------------------------------------------------------
(* What the tables and nodes start with                                    *)

LEMMA NoRamTyped ==
  /\ RamTyped(NoRam) /\ NoRam.kids = <<>> /\ NoRam.bytes = {} /\ NoRam.refs = 0 /\ ~NoRam.live /\ NoRam.alloc = 0
  /\ \A name : /\ RamTyped(NewRam(name)) /\ NewRam(name).kids = <<>> /\ NewRam(name).bytes = {}
               /\ NewRam(name).refs = 0 /\ NewRam(name).live /\ NewRam(name).name = name
<1>1. RAMMAX \in Nat /\ 0 \in 0 .. RAMMAX /\ 0 \in 0 .. 0 /\ <<>> \in Seq(RamIds)
  BY VfsAssumption, EmptySeq
<1>2. RamTyped(NoRam)
  BY <1>1 DEF RamTyped, NoRam, RamFields
<1>3. ASSUME NEW name PROVE RamTyped(NewRam(name))
  <2>1. DOMAIN NewRam(name) = {"live", "name", "kids", "alloc", "size", "bytes", "refs"}
    BY DEF NewRam, NoRam
  <2>2. /\ NewRam(name).live = TRUE /\ NewRam(name).kids = <<>> /\ NewRam(name).alloc = 0
        /\ NewRam(name).size = 0 /\ NewRam(name).bytes = {} /\ NewRam(name).refs = 0
    BY DEF NewRam, NoRam
  <2>3. NewRam(name).live \in BOOLEAN /\ NewRam(name).kids \in Seq(RamIds)
    BY <1>1, <2>2, Zenon
  <2>4. /\ NewRam(name).alloc \in 0 .. RAMMAX /\ NewRam(name).size \in 0 .. NewRam(name).alloc
        /\ NewRam(name).bytes \subseteq 0 .. NewRam(name).size - 1 /\ NewRam(name).refs \in Nat
    BY <1>1, <2>2
  <2> QED
    BY <2>1, <2>3, <2>4, Zenon DEF RamTyped, RamFields
<1> QED
  BY <1>2, <1>3 DEF NoRam, NewRam

LEMMA PaddedTyped ==
  ASSUME NEW f \in TableFs
  PROVE  /\ Padded(Entries[f]) \in [1 .. EntrySlots -> VfsNames \cup {<<>>}]
         /\ Padded(IF f = "sysfs" THEN <<>> ELSE Entries[f]) \in [1 .. EntrySlots -> VfsNames \cup {<<>>}]
<1>1. Entries[f] \in Seq(Range(Entries[f])) /\ Range(Entries[f]) \subseteq VfsNames
  BY VfsAssumption DEF TableFs, VfsNames
<1>2. Len(Entries[f]) \in Nat /\ \A j \in 1 .. Len(Entries[f]) : Entries[f][j] \in VfsNames
  BY <1>1, LenProperties, ElementOfSeq
<1>3. Padded(Entries[f]) \in [1 .. EntrySlots -> VfsNames \cup {<<>>}]
  BY <1>2 DEF Padded
<1>4. Padded(<<>>) \in [1 .. EntrySlots -> VfsNames \cup {<<>>}]
  <2>1. Len(<<>>) = 0
    BY EmptySeq
  <2> QED
    BY <2>1 DEF Padded
<1> QED
  BY <1>3, <1>4

-----------------------------------------------------------------------------
(* Steps of the file system layer                                          *)

LEMMA VfsBegins ==
  ASSUME VfsInit
  PROVE  VfsInv
<1>1. MountsTyped(mountTable) /\ RootsTrue(mountTable, ramNodes)
  <2>1. mountTable = [i \in MountIds |-> NoMount]
    BY DEF VfsInit
  <2>2. MountTyped(NoMount) /\ ~NoMount.used
    BY DEF MountTyped, NoMount
  <2> QED
    BY <2>1, <2>2 DEF MountsTyped, RootsTrue
<1>2. fsRegistry \in Seq(Range(BootOrder)) /\ Len(fsRegistry) <= Len(BootOrder)
  <2>1. fsRegistry = <<>> /\ BootOrder \in Seq(Range(BootOrder))
    BY VfsAssumption DEF VfsInit
  <2>2. Len(BootOrder) \in Nat
    BY <2>1, LenProperties
  <2> QED
    BY <2>1, <2>2, EmptySeq
<1>3. TablesTyped(tables)
  <2>1. tables = [f \in TableFs |-> Padded(IF f = "sysfs" THEN <<>> ELSE Entries[f])]
    BY DEF VfsInit
  <2>2. \A f \in TableFs : Padded(IF f = "sysfs" THEN <<>> ELSE Entries[f]) \in [1 .. EntrySlots -> VfsNames \cup {<<>>}]
    BY PaddedTyped
  <2> QED
    BY <2>1, <2>2 DEF TablesTyped
<1>4. \A i \in RamIds : ramNodes[i] = NoRam
  BY DEF VfsInit
<1>5. RamTyped(NoRam) /\ NoRam.kids = <<>> /\ NoRam.bytes = {} /\ NoRam.refs = 0
  BY NoRamTyped
<1>6. RamsTyped(ramNodes)
  BY <1>4, <1>5 DEF RamsTyped, VfsInit
<1>7. KidsNamed(ramNodes) /\ KidsOnce(ramNodes)
  <2>1. Len(<<>>) = 0
    BY EmptySeq
  <2> QED
    BY <1>4, <1>5, <2>1 DEF KidsNamed, KidsOnce
<1>8. opened = [u \in Users |-> NoNode]
  BY DEF VfsInit
<1>9. OpenedTrue(opened, ramNodes, tables)
  BY <1>8 DEF OpenedTrue
<1>10. RefsTrue(opened, ramNodes)
  <2>1. \A i : Having(opened, i) = {}
    BY <1>8 DEF Having, NoNode
  <2>2. Cardinality({}) = 0
    BY FS_EmptySet
  <2> QED
    BY <1>4, <1>5, <2>1, <2>2 DEF RefsTrue
<1>11. PutsTrue(ramNodes, puts)
  BY <1>4, <1>5 DEF PutsTrue, VfsInit
<1> QED
  BY <1>1, <1>2, <1>3, <1>6, <1>7, <1>9, <1>10, <1>11 DEF VfsInv

(* Steps that only name, open or refer: the parts that look at ramNodes    *)
(* ask who is live and whose child one is.                                 *)
SameTree(nodes, new) ==
  \A i \in RamIds : new[i].live = nodes[i].live /\ new[i].kids = nodes[i].kids /\ new[i].name = nodes[i].name

LEMMA SameTreeKeeps ==
  ASSUME NEW nodes, NEW new, SameTree(nodes, new), RamsTyped(nodes), KidsNamed(nodes), KidsOnce(nodes)
  PROVE  KidsNamed(new) /\ KidsOnce(new)
<1>1. \A p \in RamIds : \A j \in 1 .. Len(nodes[p].kids) : nodes[p].kids[j] \in RamIds
  BY ElementOfSeq DEF RamsTyped, RamTyped
<1>2. KidsNamed(new)
  BY <1>1 DEF KidsNamed, SameTree
<1>3. KidsOnce(new)
  BY DEF KidsOnce, SameTree
<1> QED
  BY <1>2, <1>3

(* One node is changed, its place in the tree is not.                      *)
LEMMA NodeChanged ==
  ASSUME NEW nodes, RamsTyped(nodes), NEW i \in RamIds, NEW r, RamTyped(r),
         r.live = nodes[i].live, r.kids = nodes[i].kids, r.name = nodes[i].name,
         NEW new, new = WithNode(nodes, i, r)
  PROVE  RamsTyped(new) /\ SameTree(nodes, new) /\ new[i] = r /\ \A k \in RamIds : k # i => new[k] = nodes[k]
<1>1. DOMAIN nodes = RamIds
  BY DEF RamsTyped
<1>2. DOMAIN new = RamIds /\ \A k \in RamIds : new[k] = IF k = i THEN r ELSE nodes[k]
  BY <1>1 DEF WithNode
<1> QED
  BY <1>2 DEF RamsTyped, SameTree

LEMMA RootsStay ==
  ASSUME NEW nodes, NEW new, NEW mt, MountsTyped(mt), RootsTrue(mt, nodes),
         \A k \in RamIds : nodes[k].live /\ NobodysKid(k, nodes) => new[k].live /\ NobodysKid(k, new)
  PROVE  RootsTrue(mt, new)
<1>1. ASSUME NEW i \in MountIds, mt[i].used, mt[i].root.fs = "ramfs"
      PROVE  new[mt[i].root.at].live /\ NobodysKid(mt[i].root.at, new)
  <2>1. mt[i].root \in RootNodes
    BY <1>1 DEF MountsTyped, MountTyped
  <2>2. mt[i].root.at \in RamIds
    <3>1. mt[i].root \in VfsNodes
      BY <2>1, RootsAreNodes
    <3> QED
      BY <1>1, <3>1, NodeKinds
  <2>3. nodes[mt[i].root.at].live /\ NobodysKid(mt[i].root.at, nodes)
    BY <1>1 DEF RootsTrue
  <2> QED
    BY <2>2, <2>3
<1> QED
  BY <1>1 DEF RootsTrue

LEMMA RegisterFsKeeps ==
  ASSUME VfsInv, VfsRegister
  PROVE  VfsInv'
<1>1. fsRegistry' \in Seq(Range(BootOrder)) /\ Len(fsRegistry') <= Len(BootOrder)
  <2>1. PICK s \in Seq(Range(BootOrder)) : s = fsRegistry /\ Len(s) < Len(BootOrder)
    BY DEF VfsInv, VfsRegister
  <2>2. Len(s) \in Nat /\ Len(BootOrder) \in Nat /\ BootOrder \in Seq(Range(BootOrder))
    BY <2>1, VfsAssumption, LenProperties
  <2>3. Len(s) + 1 \in 1 .. Len(BootOrder)
    BY <2>1, <2>2
  <2>4. BootOrder[Len(s) + 1] \in Range(BootOrder)
    BY <2>2, <2>3, ElementOfSeq
  <2>5. PICK e \in Range(BootOrder) : e = BootOrder[Len(s) + 1]
    BY <2>4
  <2>6. fsRegistry' = Append(s, e)
    BY <2>1, <2>5 DEF VfsRegister
  <2>7. Append(s, e) \in Seq(Range(BootOrder)) /\ Len(Append(s, e)) = Len(s) + 1
    BY LineAppended
  <2> QED
    BY <2>2, <2>3, <2>6, <2>7
<1>2. UNCHANGED <<mountTable, tables, ramNodes, opened, puts>>
  BY DEF VfsRegister
<1> QED
  BY <1>1, <1>2 DEF VfsInv

LEMMA UmountKeeps ==
  ASSUME VfsInv, NEW path, VfsUmount(path)
  PROVE  VfsInv'
<1>1. PICK i \in MountIds : /\ mountTable' = [mountTable EXCEPT ![i] = NoMount]
                            /\ UNCHANGED <<fsRegistry, tables, ramNodes, opened, puts>>
  BY DEF VfsUmount
<1>2. DOMAIN mountTable = MountIds
  BY DEF VfsInv, MountsTyped
<1>3. DOMAIN mountTable' = MountIds /\ \A j \in MountIds : mountTable'[j] = IF j = i THEN NoMount ELSE mountTable[j]
  BY <1>1, <1>2
<1>4. MountTyped(NoMount) /\ ~NoMount.used
  BY DEF MountTyped, NoMount
<1>5. MountsTyped(mountTable')
  BY <1>3, <1>4 DEF VfsInv, MountsTyped
<1>6. RootsTrue(mountTable', ramNodes')
  BY <1>1, <1>3, <1>4 DEF VfsInv, RootsTrue
<1> QED
  BY <1>1, <1>5, <1>6 DEF VfsInv

(* A node is made where none was.                                          *)
LEMMA Planted ==
  ASSUME NEW nodes, RamsTyped(nodes), KidsNamed(nodes), KidsOnce(nodes),
         NEW i \in RamIds, ~nodes[i].live, NEW name, NEW new, new = WithNew(nodes, i, name)
  PROVE  /\ RamsTyped(new) /\ KidsNamed(new) /\ KidsOnce(new)
         /\ new[i] = NewRam(name) /\ \A k \in RamIds : k # i => new[k] = nodes[k]
         /\ NobodysKid(i, new)
         /\ \A r \in RamIds : NobodysKid(r, nodes) => NobodysKid(r, new)
<1>1. DOMAIN nodes = RamIds
  BY DEF RamsTyped
<1>2. DOMAIN new = RamIds /\ \A k \in RamIds : new[k] = IF k = i THEN NewRam(name) ELSE nodes[k]
  BY <1>1 DEF WithNew
<1>3. RamTyped(NewRam(name)) /\ NewRam(name).kids = <<>> /\ NewRam(name).live
  BY NoRamTyped
<1>4. RamsTyped(new)
  BY <1>2, <1>3 DEF RamsTyped
<1>5. Len(<<>>) = 0
  BY EmptySeq
<1>6. ASSUME NEW p \in RamIds, NEW j \in 1 .. Len(new[p].kids)
      PROVE  p # i /\ new[p] = nodes[p] /\ j \in 1 .. Len(nodes[p].kids) /\ new[p].kids[j] \in RamIds /\ new[p].kids[j] # i
  <2>1. p # i
    BY <1>2, <1>3, <1>5
  <2>2. new[p] = nodes[p]
    BY <1>2, <2>1
  <2>3. nodes[p].kids \in Seq(RamIds)
    BY DEF RamsTyped, RamTyped
  <2>4. nodes[p].kids[j] \in RamIds
    BY <2>2, <2>3, ElementOfSeq
  <2>5. nodes[nodes[p].kids[j]].live
    BY <2>2 DEF KidsNamed
  <2> QED
    BY <2>1, <2>2, <2>4, <2>5
<1>7. KidsNamed(new)
  BY <1>2, <1>6 DEF KidsNamed
<1>8. KidsOnce(new)
  BY <1>6 DEF KidsOnce
<1>9. NobodysKid(i, new)
  BY <1>6 DEF NobodysKid
<1>10. \A r \in RamIds : NobodysKid(r, nodes) => NobodysKid(r, new)
  BY <1>6 DEF NobodysKid
<1> QED
  BY <1>2, <1>4, <1>7, <1>8, <1>9, <1>10

(* What is live stays where it is.                                         *)
LEMMA LiveStays ==
  ASSUME NEW nodes, NEW new, NEW tb, NEW op, OpenedTrue(op, nodes, tb),
         \A k \in RamIds : nodes[k].live => new[k].live
  PROVE  OpenedTrue(op, new, tb)
<1>1. ASSUME NEW n, NodeTrue(n, nodes, tb) PROVE NodeTrue(n, new, tb)
  <2>1. n \in VfsNodes
    BY <1>1 DEF NodeTrue
  <2>2. n.fs = "ramfs" => n.at \in RamIds
    BY <2>1, NodeKinds
  <2> QED
    BY <1>1, <2>2 DEF NodeTrue
<1> QED
  BY <1>1 DEF OpenedTrue

LEMMA NobodyHas ==
  ASSUME NEW nodes, NEW tb, NEW op, OpenedTrue(op, nodes, tb), NEW i \in RamIds, ~nodes[i].live
  PROVE  Having(op, i) = {} /\ Cardinality(Having(op, i)) = 0
<1>1. ASSUME NEW u \in Users, op[u].fs = "ramfs", op[u].at = i PROVE FALSE
  <2>1. op[u] # NoNode
    BY <1>1 DEF NoNode
  <2> QED
    BY <1>1, <2>1 DEF OpenedTrue, NodeTrue
<1>2. Having(op, i) = {}
  BY <1>1 DEF Having
<1> QED
  BY <1>2, FS_EmptySet

(* Names are put into free entries of the tables that nodes point into.    *)
LEMMA NamesStay ==
  ASSUME NEW nodes, NEW tb, NEW new, NEW op, OpenedTrue(op, nodes, tb),
         \A f \in {"devfs", "procfs"} : \A j \in 1 .. EntrySlots : tb[f][j] # <<>> => new[f][j] = tb[f][j]
  PROVE  OpenedTrue(op, nodes, new)
<1>1. ASSUME NEW n, NodeTrue(n, nodes, tb) PROVE NodeTrue(n, nodes, new)
  <2>1. n \in VfsNodes
    BY <1>1 DEF NodeTrue
  <2>2. n.name # <<>> /\ (n.fs # "ramfs" => n.at \in 0 .. EntrySlots) /\ EntrySlots \in Nat
    BY <2>1, NodeKinds, VfsFacts
  <2>3. ASSUME n.fs \in {"devfs", "procfs"}, n.at # 0 PROVE new[n.fs][n.at] = n.name
    <3>1. tb[n.fs][n.at] = n.name
      BY <1>1, <2>3 DEF NodeTrue
    <3>2. n.at \in 1 .. EntrySlots
      BY <2>2, <2>3
    <3> QED
      BY <2>2, <2>3, <3>1, <3>2
  <2> QED
    BY <1>1, <2>3 DEF NodeTrue
<1> QED
  BY <1>1 DEF OpenedTrue

LEMMA MountedRoots ==
  ASSUME NEW mt, MountsTyped(mt), NEW nodes, RootsTrue(mt, nodes), NEW slot \in MountIds,
         NEW path \in MountPaths, NEW root \in RootNodes,
         root.fs = "ramfs" => nodes[root.at].live /\ NobodysKid(root.at, nodes),
         NEW new, new = [mt EXCEPT ![slot] = [used |-> TRUE, path |-> path, root |-> root]]
  PROVE  MountsTyped(new) /\ RootsTrue(new, nodes)
<1>1. PICK m : m = [used |-> TRUE, path |-> path, root |-> root]
  OBVIOUS
<1>2. m.used /\ m.root = root /\ MountTyped(m)
  BY <1>1 DEF MountTyped
<1>3. DOMAIN mt = MountIds
  BY DEF MountsTyped
<1>4. DOMAIN new = MountIds /\ \A j \in MountIds : new[j] = IF j = slot THEN m ELSE mt[j]
  BY <1>1, <1>3
<1>5. MountsTyped(new)
  BY <1>2, <1>4 DEF MountsTyped
<1>6. RootsTrue(new, nodes)
  BY <1>2, <1>4 DEF RootsTrue
<1> QED
  BY <1>5, <1>6

(* The root of a mounted file system, and what its mount made.             *)
LEMMA MountMakes ==
  ASSUME VfsInv, NEW fs \in {"ramfs", "devfs", "procfs", "sysfs"}, NEW root \in Roots,
         CASE fs = "ramfs"  -> RamMount(root)
           [] fs = "devfs"  -> DevMount(root)
           [] fs = "procfs" -> ProcMount(root)
           [] fs = "sysfs"  -> SysMount(root),
         UNCHANGED <<fsRegistry, opened>>
  PROVE  /\ root \in RootNodes \cup {NoNode}
         /\ root.fs = "ramfs" => ramNodes'[root.at].live /\ NobodysKid(root.at, ramNodes')
         /\ TablesTyped(tables') /\ RamsTyped(ramNodes') /\ KidsNamed(ramNodes') /\ KidsOnce(ramNodes')
         /\ RootsTrue(mountTable, ramNodes')
         /\ OpenedTrue(opened', ramNodes', tables') /\ RefsTrue(opened', ramNodes')
         /\ PutsTrue(ramNodes', puts')
<1>1. /\ MountsTyped(mountTable) /\ TablesTyped(tables) /\ RamsTyped(ramNodes) /\ KidsNamed(ramNodes) /\ KidsOnce(ramNodes)
      /\ RootsTrue(mountTable, ramNodes)
      /\ OpenedTrue(opened, ramNodes, tables) /\ RefsTrue(opened, ramNodes) /\ PutsTrue(ramNodes, puts)
  BY DEF VfsInv
<1>2. root \in RootNodes \cup {NoNode}
  BY DEF Roots, RootNodes, Slash
<1>3. NoNode.fs # "ramfs"
  BY DEF NoNode
<1>4. CASE fs = "ramfs"
  <2>1. RamMount(root)
    BY <1>4
  <2>2. PICK i \in RamIds : /\ ~ramNodes[i].live
                            /\ root = [fs |-> "ramfs", at |-> i, name |-> Slash]
                            /\ ramNodes' = [ramNodes EXCEPT ![i] = NewRam(Slash)]
                            /\ puts' = [puts EXCEPT ![i] = {}]
                            /\ UNCHANGED tables
    BY <2>1 DEF RamMount, LiveRam, Slash
  <2>3. /\ RamsTyped(ramNodes') /\ KidsNamed(ramNodes') /\ KidsOnce(ramNodes')
        /\ ramNodes'[i] = NewRam(Slash) /\ \A k \in RamIds : k # i => ramNodes'[k] = ramNodes[k]
        /\ NobodysKid(i, ramNodes')
        /\ \A r \in RamIds : NobodysKid(r, ramNodes) => NobodysKid(r, ramNodes')
    <3>1. PICK new : new = ramNodes'
      OBVIOUS
    <3>2. RamsTyped(ramNodes) /\ KidsNamed(ramNodes) /\ KidsOnce(ramNodes) /\ ~ramNodes[i].live
          /\ new = WithNew(ramNodes, i, Slash)
      BY <1>1, <2>2, <3>1 DEF WithNew
    <3>3. /\ RamsTyped(new) /\ KidsNamed(new) /\ KidsOnce(new)
          /\ new[i] = NewRam(Slash) /\ \A k \in RamIds : k # i => new[k] = ramNodes[k]
          /\ NobodysKid(i, new)
          /\ \A r \in RamIds : NobodysKid(r, ramNodes) => NobodysKid(r, new)
      BY <3>2, Planted
    <3> QED
      BY <3>1, <3>3, Zenon
  <2>4. NewRam(Slash).live /\ NewRam(Slash).refs = 0 /\ NewRam(Slash).bytes = {}
    BY NoRamTyped
  <2>5. \A k \in RamIds : ramNodes[k].live => ramNodes'[k].live
    BY <2>3, <2>4
  <2>6. root.at = i
    BY <2>2
  <2>7. RootsTrue(mountTable, ramNodes')
    BY <1>1, <2>3, <2>5, RootsStay
  <2>8. OpenedTrue(opened', ramNodes', tables')
    BY <1>1, <2>2, <2>5, LiveStays
  <2>9. RefsTrue(opened', ramNodes')
    <3>1. Cardinality(Having(opened, i)) = 0
      BY <1>1, <2>2, NobodyHas
    <3> QED
      BY <1>1, <2>3, <2>4, <3>1 DEF RefsTrue
  <2>10. PutsTrue(ramNodes', puts')
    BY <1>1, <2>2, <2>3, <2>4 DEF PutsTrue
  <2> QED
    BY <1>1, <1>2, <2>2, <2>3, <2>4, <2>6, <2>7, <2>8, <2>9, <2>10
<1>5. CASE fs = "devfs" \/ fs = "procfs"
  <2>1. UNCHANGED <<tables, ramNodes, puts>> /\ root.fs # "ramfs"
    <3>1. DevMount(root) \/ ProcMount(root)
      BY <1>5
    <3>2. /\ root = [fs |-> "devfs", at |-> 0, name |-> <<"/">>] \/ root = [fs |-> "procfs", at |-> 0, name |-> <<"/">>]
          /\ UNCHANGED <<tables, ramNodes, puts>>
      BY <3>1, Zenon DEF DevMount, ProcMount
    <3>3. root.fs # "ramfs"
      BY <3>2
    <3> QED
      BY <3>2, <3>3
  <2> QED
    BY <1>1, <1>2, <2>1
<1>6. CASE fs = "sysfs"
  <2>1. SysMount(root)
    BY <1>6
  <2>2. UNCHANGED <<ramNodes, puts>> /\ root.fs # "ramfs"
    BY <1>3, <2>1 DEF SysMount
  <2>3. PICK p : p = Padded(Entries["sysfs"]) /\ p \in [1 .. EntrySlots -> VfsNames \cup {<<>>}]
    <3>1. "sysfs" \in TableFs
      BY VfsFacts
    <3> QED
      BY <3>1, PaddedTyped
  <2>4. tables' = [tables EXCEPT !["sysfs"] = p]
    BY <2>1, <2>3 DEF SysMount
  <2>5. TablesTyped(tables')
    BY <1>1, <2>3, <2>4 DEF TablesTyped
  <2>6. OpenedTrue(opened', ramNodes', tables')
    <3>1. \A f \in {"devfs", "procfs"} : tables'[f] = tables[f]
      <4>1. DOMAIN tables = TableFs /\ {"devfs", "procfs"} \subseteq TableFs
        BY <1>1, VfsFacts DEF TablesTyped
      <4> QED
        BY <2>4, <4>1
    <3> QED
      BY <1>1, <2>2, <3>1, NamesStay
  <2> QED
    BY <1>1, <1>2, <2>2, <2>5, <2>6
<1> QED
  BY <1>4, <1>5, <1>6

LEMMA MountKeeps ==
  ASSUME VfsInv, NEW path \in MountPaths, NEW fs \in {"ramfs", "devfs", "procfs", "sysfs"}, VfsMount(path, fs)
  PROVE  VfsInv'
<1>1. PICK slot : slot = Min({i \in MountIds : ~mountTable[i].used}) /\ slot \in MountIds
  <2>1. PICK t : t = {i \in MountIds : ~mountTable[i].used}
    OBVIOUS
  <2>2. t # {} /\ t \subseteq Nat
    BY <2>1 DEF VfsMount, MountIds
  <2>3. Min(t) \in t
    BY <2>2, MinFacts
  <2> QED
    BY <2>1, <2>3
<1>2. PICK root \in Roots :
        /\ CASE fs = "ramfs"  -> RamMount(root)
             [] fs = "devfs"  -> DevMount(root)
             [] fs = "procfs" -> ProcMount(root)
             [] fs = "sysfs"  -> SysMount(root)
        /\ mountTable' = IF root = NoNode THEN mountTable
                         ELSE [mountTable EXCEPT ![slot] = [used |-> TRUE, path |-> path, root |-> root]]
  BY <1>1 DEF VfsMount
<1>3. UNCHANGED <<fsRegistry, opened>>
  BY DEF VfsMount
<1>4. /\ root \in RootNodes \cup {NoNode}
      /\ root.fs = "ramfs" => ramNodes'[root.at].live /\ NobodysKid(root.at, ramNodes')
      /\ TablesTyped(tables') /\ RamsTyped(ramNodes') /\ KidsNamed(ramNodes') /\ KidsOnce(ramNodes')
      /\ RootsTrue(mountTable, ramNodes')
      /\ OpenedTrue(opened', ramNodes', tables') /\ RefsTrue(opened', ramNodes')
      /\ PutsTrue(ramNodes', puts')
  BY <1>2, <1>3, MountMakes
<1>5. MountsTyped(mountTable') /\ RootsTrue(mountTable', ramNodes')
  <2>1. MountsTyped(mountTable)
    BY DEF VfsInv
  <2>2. CASE root = NoNode
    BY <1>2, <1>4, <2>1, <2>2
  <2>3. CASE root # NoNode
    <3>1. mountTable' = [mountTable EXCEPT ![slot] = [used |-> TRUE, path |-> path, root |-> root]]
      BY <1>2, <2>3
    <3>2. root \in RootNodes
      BY <1>4, <2>3
    <3> QED
      BY <1>1, <1>4, <2>1, <3>1, <3>2, MountedRoots
  <2> QED
    BY <2>2, <2>3
<1> QED
  BY <1>3, <1>4, <1>5 DEF VfsInv

(* A live node that was nobody's child becomes the first one of another.   *)
LEMMA Adopted ==
  ASSUME NEW nodes, RamsTyped(nodes), KidsNamed(nodes), KidsOnce(nodes),
         NEW p \in RamIds, NEW i \in RamIds, i # p, nodes[i].live, nodes[i].name \in NewNames, NobodysKid(i, nodes),
         NEW new, new = WithKid(nodes, p, i)
  PROVE  /\ RamsTyped(new) /\ KidsNamed(new) /\ KidsOnce(new)
         /\ \A k \in RamIds : /\ new[k].live = nodes[k].live /\ new[k].refs = nodes[k].refs
                              /\ new[k].bytes = nodes[k].bytes
         /\ \A k \in RamIds : k # i /\ NobodysKid(k, nodes) => NobodysKid(k, new)
<1>1. DOMAIN nodes = RamIds /\ \A k \in RamIds : RamTyped(nodes[k])
  BY DEF RamsTyped
<1>2. PICK n \in Nat, old \in Seq(RamIds) : old = nodes[p].kids /\ n = Len(old)
  <2>1. nodes[p].kids \in Seq(RamIds)
    BY <1>1 DEF RamTyped
  <2> QED
    BY <2>1, LenProperties
<1>3. PICK kids \in Seq(RamIds) : /\ kids = <<i>> \o old /\ Len(kids) = n + 1 /\ kids[1] = i
                                  /\ \A j \in 1 .. n : kids[1 + j] = old[j]
  <2>1. <<i>> \in Seq(RamIds) /\ Len(<<i>>) = 1 /\ <<i>>[1] = i
    BY LineSingle
  <2>2. PICK one : one = <<i>> /\ one \in Seq(RamIds) /\ Len(one) = 1 /\ one[1] = i
    BY <2>1
  <2>3. /\ one \o old \in Seq(RamIds) /\ Len(one \o old) = 1 + n
        /\ \A j \in 1 .. 1 : (one \o old)[j] = one[j]
        /\ \A j \in 1 .. n : (one \o old)[1 + j] = old[j]
    BY <1>2, <2>2, LineJoined
  <2>4. PICK kids \in Seq(RamIds) : kids = one \o old
    BY <2>3
  <2>5. Len(kids) = n + 1 /\ kids[1] = i /\ \A j \in 1 .. n : kids[1 + j] = old[j]
    BY <2>2, <2>3, <2>4
  <2> QED
    BY <2>2, <2>4, <2>5
<1>4. PICK r : r = [nodes[p] EXCEPT !.kids = kids]
  OBVIOUS
<1>5. /\ RamTyped(r) /\ r.live = nodes[p].live /\ r.refs = nodes[p].refs /\ r.bytes = nodes[p].bytes
      /\ r.name = nodes[p].name /\ r.kids = kids
  <2>1. DOMAIN nodes[p] = RamFields
    BY <1>1 DEF RamTyped
  <2>2. /\ DOMAIN r = RamFields /\ r.kids = kids /\ r.live = nodes[p].live /\ r.name = nodes[p].name
        /\ r.alloc = nodes[p].alloc /\ r.size = nodes[p].size /\ r.bytes = nodes[p].bytes /\ r.refs = nodes[p].refs
    BY <1>4, <2>1 DEF RamFields
  <2>3. RamTyped(nodes[p])
    BY <1>1
  <2>4. RamTyped(r)
    BY <2>2, <2>3 DEF RamTyped
  <2> QED
    BY <2>2, <2>4
<1>6. DOMAIN new = RamIds /\ \A k \in RamIds : new[k] = IF k = p THEN r ELSE nodes[k]
  BY <1>1, <1>2, <1>3, <1>4 DEF WithKid
<1>7. \A k \in RamIds : /\ new[k].live = nodes[k].live /\ new[k].refs = nodes[k].refs
                        /\ new[k].bytes = nodes[k].bytes /\ new[k].name = nodes[k].name
                        /\ k # p => new[k].kids = nodes[k].kids
  BY <1>5, <1>6
<1>8. new[p].kids = kids
  BY <1>5, <1>6
<1>9. RamsTyped(new)
  BY <1>1, <1>5, <1>6 DEF RamsTyped
<1>10. ASSUME NEW q \in RamIds, NEW j \in 1 .. Len(new[q].kids)
       PROVE  \/ q = p /\ j = 1 /\ new[q].kids[j] = i
              \/ \E l \in 1 .. Len(nodes[q].kids) :
                    new[q].kids[j] = nodes[q].kids[l] /\ j = IF q = p THEN l + 1 ELSE l
  <2>1. CASE q # p
    BY <1>7, <2>1
  <2>2. CASE q = p /\ j = 1
    BY <1>3, <1>8, <2>2
  <2>3. CASE q = p /\ j # 1
    <3>1. j \in 1 .. n + 1
      BY <1>3, <1>8, <1>10, <2>3
    <3>2. PICK l \in 1 .. n : j = l + 1
      <4>1. j - 1 \in 1 .. n /\ j = (j - 1) + 1
        BY <2>3, <3>1
      <4> QED
        BY <4>1
    <3>3. kids[j] = old[l]
      BY <1>3, <3>2
    <3> QED
      BY <1>2, <1>8, <2>3, <3>2, <3>3
  <2> QED
    BY <2>1, <2>2, <2>3
<1>11. \A q \in RamIds : \A l \in 1 .. Len(nodes[q].kids) : nodes[q].kids[l] \in RamIds /\ nodes[q].kids[l] # i
  BY <1>1, ElementOfSeq DEF RamTyped, NobodysKid
<1>12. KidsNamed(new)
  <2> SUFFICES ASSUME NEW q \in RamIds, NEW j \in 1 .. Len(new[q].kids), NEW k, k = new[q].kids[j]
               PROVE  new[k].live /\ new[k].name \in NewNames /\ k # q
    BY DEF KidsNamed
  <2>1. CASE q = p /\ j = 1 /\ k = i
    BY <1>7, <2>1
  <2>2. CASE \E l \in 1 .. Len(nodes[q].kids) : k = nodes[q].kids[l]
    <3>1. PICK l \in 1 .. Len(nodes[q].kids) : k = nodes[q].kids[l]
      BY <2>2
    <3>2. nodes[k].live /\ nodes[k].name \in NewNames /\ k # q /\ k \in RamIds
      BY <1>11, <3>1 DEF KidsNamed
    <3> QED
      BY <1>7, <3>2
  <2> QED
    BY <1>10, <2>1, <2>2
<1> HIDE <1>10
<1>a. \A q \in RamIds : \A j \in 1 .. Len(new[q].kids) :
        \/ q = p /\ j = 1 /\ new[q].kids[j] = i
        \/ \E l \in 1 .. Len(nodes[q].kids) :
              new[q].kids[j] = nodes[q].kids[l] /\ j = IF q = p THEN l + 1 ELSE l
  BY <1>10
<1>13. KidsOnce(new)
  <2> SUFFICES ASSUME NEW q \in RamIds, NEW s \in RamIds, NEW j \in 1 .. Len(new[q].kids), NEW m \in 1 .. Len(new[s].kids),
                      new[q].kids[j] = new[s].kids[m]
               PROVE  q = s /\ j = m
    BY DEF KidsOnce
  <2>1. \/ q = p /\ j = 1 /\ new[q].kids[j] = i
        \/ \E l \in 1 .. Len(nodes[q].kids) :
              new[q].kids[j] = nodes[q].kids[l] /\ j = IF q = p THEN l + 1 ELSE l
    BY <1>a
  <2>2. \/ s = p /\ m = 1 /\ new[s].kids[m] = i
        \/ \E l \in 1 .. Len(nodes[s].kids) :
              new[s].kids[m] = nodes[s].kids[l] /\ m = IF s = p THEN l + 1 ELSE l
    BY <1>a
  <2>3. CASE new[q].kids[j] = i
    <3>1. q = p /\ j = 1
      BY <1>11, <2>1, <2>3
    <3>2. new[s].kids[m] = i
      BY <2>3
    <3>3. s = p /\ m = 1
      BY <1>11, <2>2, <3>2
    <3> QED
      BY <3>1, <3>3
  <2>4. CASE new[q].kids[j] # i
    <3>1. PICK l \in 1 .. Len(nodes[q].kids) :
             new[q].kids[j] = nodes[q].kids[l] /\ j = IF q = p THEN l + 1 ELSE l
      BY <2>1, <2>4, Zenon
    <3>2. PICK t \in 1 .. Len(nodes[s].kids) :
             new[s].kids[m] = nodes[s].kids[t] /\ m = IF s = p THEN t + 1 ELSE t
      BY <2>2, <2>4, Zenon
    <3>3. nodes[q].kids[l] = nodes[s].kids[t]
      BY <3>1, <3>2
    <3>4. q = s /\ l = t
      <4>1. \A x, y \in RamIds : \A c \in 1 .. Len(nodes[x].kids), d \in 1 .. Len(nodes[y].kids) :
                  nodes[x].kids[c] = nodes[y].kids[d] => x = y /\ c = d
        BY Zenon DEF KidsOnce
      <4> QED
        BY <3>3, <4>1
    <3> QED
      BY <3>1, <3>2, <3>4, Zenon
  <2> QED
    BY <2>3, <2>4
<1>14. ASSUME NEW k \in RamIds, k # i, NobodysKid(k, nodes) PROVE NobodysKid(k, new)
  <2>1. \A q \in RamIds : \A l \in 1 .. Len(nodes[q].kids) : nodes[q].kids[l] # k
    BY <1>14, Zenon DEF NobodysKid
  <2> SUFFICES ASSUME NEW q \in RamIds, NEW j \in 1 .. Len(new[q].kids) PROVE new[q].kids[j] # k
    BY DEF NobodysKid
  <2>2. \/ new[q].kids[j] = i
        \/ \E l \in 1 .. Len(nodes[q].kids) : new[q].kids[j] = nodes[q].kids[l]
    BY <1>a, Zenon
  <2> QED
    BY <1>14, <2>1, <2>2, Zenon
<1> QED
  BY <1>7, <1>9, <1>12, <1>13, <1>14

LEMMA MkdirKeeps ==
  ASSUME VfsInv, NEW p \in RamIds, NEW name \in NewNames, RamMkdir(p, name)
  PROVE  VfsInv'
<1>1. /\ MountsTyped(mountTable) /\ TablesTyped(tables) /\ RamsTyped(ramNodes) /\ KidsNamed(ramNodes) /\ KidsOnce(ramNodes)
      /\ RootsTrue(mountTable, ramNodes)
      /\ OpenedTrue(opened, ramNodes, tables) /\ RefsTrue(opened, ramNodes) /\ PutsTrue(ramNodes, puts)
  BY DEF VfsInv
<1>2. ramNodes[p].live
  BY DEF RamMkdir, LiveRam
<1>3. PICK i \in RamIds : /\ ~ramNodes[i].live
                          /\ ramNodes' = [ramNodes EXCEPT ![i] = NewRam(name), ![p].kids = <<i>> \o @]
                          /\ puts' = [puts EXCEPT ![i] = {}]
  BY DEF RamMkdir, LiveRam
<1>a. ramNodes[p].live /\ i # p /\ DOMAIN ramNodes = RamIds
  BY <1>1, <1>2, <1>3 DEF RamsTyped
<1>b. ramNodes' = WithKid(WithNew(ramNodes, i, name), p, i)
  BY <1>3, <1>a DEF WithKid, WithNew
<1>c. ~ramNodes[i].live /\ puts' = [puts EXCEPT ![i] = {}]
  BY <1>3
<1> HIDE <1>3
<1>4. UNCHANGED <<mountTable, fsRegistry, tables, opened>>
  BY DEF RamMkdir
<1>5. PICK mid : mid = WithNew(ramNodes, i, name)
  OBVIOUS
<1>6. /\ RamsTyped(mid) /\ KidsNamed(mid) /\ KidsOnce(mid)
      /\ mid[i] = NewRam(name) /\ \A k \in RamIds : k # i => mid[k] = ramNodes[k]
      /\ NobodysKid(i, mid)
      /\ \A r \in RamIds : NobodysKid(r, ramNodes) => NobodysKid(r, mid)
  BY <1>1, <1>c, <1>5, Planted
<1>7. NewRam(name).live /\ NewRam(name).refs = 0 /\ NewRam(name).bytes = {} /\ NewRam(name).name = name
  BY NoRamTyped
<1>8. i # p
  BY <1>a
<1>9. PICK new : new = ramNodes' /\ new = WithKid(mid, p, i)
  BY <1>b, <1>5
<1>10. /\ RamsTyped(new) /\ KidsNamed(new) /\ KidsOnce(new)
       /\ \A k \in RamIds : /\ new[k].live = mid[k].live /\ new[k].refs = mid[k].refs
                            /\ new[k].bytes = mid[k].bytes
       /\ \A k \in RamIds : k # i /\ NobodysKid(k, mid) => NobodysKid(k, new)
  <2>1. mid[i].live /\ mid[i].name \in NewNames
    BY <1>6, <1>7
  <2> QED
    BY <1>6, <1>8, <1>9, <2>1, Adopted
<1>11. \A k \in RamIds : ramNodes[k].live => k # i /\ new[k].live
  BY <1>c, <1>6, <1>10
<1>12. RootsTrue(mountTable, new)
  <2>1. \A k \in RamIds : ramNodes[k].live /\ NobodysKid(k, ramNodes) => new[k].live /\ NobodysKid(k, new)
    BY <1>6, <1>10, <1>11
  <2> QED
    BY <1>1, <2>1, RootsStay
<1>13. OpenedTrue(opened, new, tables)
  BY <1>1, <1>11, LiveStays
<1>14. RefsTrue(opened, new)
  <2>1. Cardinality(Having(opened, i)) = 0
    BY <1>1, <1>c, NobodyHas
  <2> QED
    BY <1>1, <1>6, <1>7, <1>10, <2>1 DEF RefsTrue
<1>15. PutsTrue(new, puts')
  BY <1>1, <1>c, <1>6, <1>7, <1>10, ZenonT(30) DEF PutsTrue
<1>16. fsRegistry \in Seq(Range(BootOrder)) /\ Len(fsRegistry) <= Len(BootOrder)
  BY DEF VfsInv
<1> QED
  BY <1>1, <1>4, <1>9, <1>10, <1>12, <1>13, <1>14, <1>15, <1>16 DEF VfsInv

(* A node is taken out of the list it is in, and freed.                    *)
LEMMA KidUnlinked ==
  ASSUME NEW nodes, RamsTyped(nodes), KidsNamed(nodes), KidsOnce(nodes),
         NEW p \in RamIds, NEW m \in 1 .. Len(nodes[p].kids), NEW k, k = nodes[p].kids[m],
         NEW new, new = WithoutKid(nodes, p, m)
  PROVE  /\ k \in RamIds /\ k # p
         /\ RamsTyped(new) /\ KidsNamed(new) /\ KidsOnce(new) /\ new[k] = NoRam
         /\ \A r \in RamIds : r # k => /\ new[r].live = nodes[r].live /\ new[r].refs = nodes[r].refs
                                       /\ new[r].bytes = nodes[r].bytes
         /\ \A r \in RamIds : NobodysKid(r, nodes) => NobodysKid(r, new)
<1>1. DOMAIN nodes = RamIds /\ \A r \in RamIds : RamTyped(nodes[r])
  BY DEF RamsTyped
<1>2. PICK n \in Nat, old \in Seq(RamIds) : old = nodes[p].kids /\ n = Len(old)
  <2>1. nodes[p].kids \in Seq(RamIds)
    BY <1>1 DEF RamTyped
  <2> QED
    BY <2>1, LenProperties
<1>3. k \in RamIds /\ k # p
  <2>1. k \in RamIds
    BY <1>2, ElementOfSeq
  <2> QED
    BY <2>1 DEF KidsNamed
<1>4. PICK kids \in Seq(RamIds) : /\ kids = RemoveAt(old, m) /\ Len(kids) = n - 1
                                  /\ \A j \in 1 .. n - 1 : kids[j] = IF j < m THEN old[j] ELSE old[j + 1]
  <2>1. /\ RemoveAt(old, m) \in Seq(RamIds) /\ Len(RemoveAt(old, m)) = n - 1
        /\ \A j \in 1 .. n - 1 : RemoveAt(old, m)[j] = IF j < m THEN old[j] ELSE old[j + 1]
    BY <1>2, Removing
  <2> QED
    BY <2>1
<1>5. PICK r : r = [nodes[p] EXCEPT !.kids = kids]
  OBVIOUS
<1>6. /\ RamTyped(r) /\ r.live = nodes[p].live /\ r.refs = nodes[p].refs /\ r.bytes = nodes[p].bytes
      /\ r.name = nodes[p].name /\ r.kids = kids
  <2>1. DOMAIN nodes[p] = RamFields
    BY <1>1 DEF RamTyped
  <2>2. /\ DOMAIN r = RamFields /\ r.kids = kids /\ r.live = nodes[p].live /\ r.name = nodes[p].name
        /\ r.alloc = nodes[p].alloc /\ r.size = nodes[p].size /\ r.bytes = nodes[p].bytes /\ r.refs = nodes[p].refs
    BY <1>5, <2>1 DEF RamFields
  <2>3. RamTyped(nodes[p])
    BY <1>1
  <2>4. RamTyped(r)
    BY <2>2, <2>3 DEF RamTyped
  <2> QED
    BY <2>2, <2>4
<1>7. DOMAIN new = RamIds /\ \A q \in RamIds : new[q] = IF q = p THEN r ELSE IF q = k THEN NoRam ELSE nodes[q]
  BY <1>1, <1>2, <1>3, <1>4, <1>5 DEF WithoutKid
<1>8. RamTyped(NoRam) /\ NoRam.kids = <<>> /\ Len(<<>>) = 0
  BY NoRamTyped, EmptySeq
<1>9. RamsTyped(new)
  BY <1>1, <1>6, <1>7, <1>8 DEF RamsTyped
<1>10. \A q \in RamIds : q # k => /\ new[q].live = nodes[q].live /\ new[q].refs = nodes[q].refs
                                  /\ new[q].bytes = nodes[q].bytes /\ new[q].name = nodes[q].name
  BY <1>6, <1>7
<1>11. new[k] = NoRam
  BY <1>3, <1>7
<1>12. ASSUME NEW q \in RamIds, NEW j \in 1 .. Len(new[q].kids)
       PROVE  \E l \in 1 .. Len(nodes[q].kids) :
                /\ new[q].kids[j] = nodes[q].kids[l] /\ new[q].kids[j] # k /\ new[q].kids[j] \in RamIds
                /\ j = IF q = p /\ l > m THEN l - 1 ELSE l
  <2>0. q # k
    <3>1. Len(new[k].kids) = 0
      BY <1>8, <1>11, Zenon
    <3> QED
      BY <3>1
  <2>a. ASSUME NEW l \in 1 .. Len(nodes[q].kids), q # p \/ l # m PROVE nodes[q].kids[l] # k /\ nodes[q].kids[l] \in RamIds
    <3>1. nodes[q].kids \in Seq(RamIds)
      BY <1>1 DEF RamTyped
    <3> QED
      BY <2>a, <3>1, ElementOfSeq DEF KidsOnce
  <2>1. CASE q # p
    <3>1. new[q] = nodes[q]
      BY <1>7, <2>0, <2>1
    <3> QED
      BY <2>1, <2>a, <3>1
  <2>2. CASE q = p
    <3>1. new[q].kids = kids
      BY <1>6, <1>7, <2>2
    <3>2. j \in 1 .. n - 1
      BY <1>4, <3>1
    <3>3. m \in 1 .. n
      BY <1>2
    <3>4. PICK l \in 1 .. n : l = IF j < m THEN j ELSE j + 1
      BY <3>2, <3>3
    <3>5. l # m /\ j = IF l > m THEN l - 1 ELSE l
      <4>1. j \in Int /\ m \in Int /\ (j < m => l = j) /\ (j >= m => l = j + 1)
        BY <3>2, <3>3, <3>4
      <4>2. CASE j < m
        BY <4>1, <4>2
      <4>3. CASE j >= m
        BY <4>1, <4>3
      <4> QED
        BY <4>1, <4>2, <4>3
    <3>6. kids[j] = old[l]
      BY <1>4, <3>2, <3>4
    <3>7. l \in 1 .. Len(nodes[q].kids)
      BY <1>2, <2>2
    <3>8. nodes[q].kids[l] # k /\ nodes[q].kids[l] \in RamIds
      BY <2>a, <3>5, <3>7
    <3> QED
      BY <1>2, <2>2, <3>1, <3>5, <3>6, <3>7, <3>8
  <2> QED
    BY <2>1, <2>2
<1> HIDE <1>12
<1>a. \A q \in RamIds : \A j \in 1 .. Len(new[q].kids) :
        \E l \in 1 .. Len(nodes[q].kids) :
          /\ new[q].kids[j] = nodes[q].kids[l] /\ new[q].kids[j] # k /\ new[q].kids[j] \in RamIds
          /\ j = IF q = p /\ l > m THEN l - 1 ELSE l
  BY <1>12
<1>13. KidsNamed(new)
  <2> SUFFICES ASSUME NEW q \in RamIds, NEW j \in 1 .. Len(new[q].kids)
               PROVE  new[new[q].kids[j]].live /\ new[new[q].kids[j]].name \in NewNames /\ new[q].kids[j] # q
    BY DEF KidsNamed
  <2>1. PICK l \in 1 .. Len(nodes[q].kids) :
           new[q].kids[j] = nodes[q].kids[l] /\ new[q].kids[j] # k /\ new[q].kids[j] \in RamIds
    BY <1>a, Zenon
  <2>2. PICK x : x = new[q].kids[j]
    OBVIOUS
  <2>3. nodes[x].live /\ nodes[x].name \in NewNames /\ x # q
    BY <2>1, <2>2 DEF KidsNamed
  <2>4. new[x].live /\ new[x].name \in NewNames
    BY <1>10, <2>1, <2>2, <2>3
  <2> QED
    BY <2>2, <2>3, <2>4, Zenon
<1>14. KidsOnce(new)
  <2> SUFFICES ASSUME NEW q \in RamIds, NEW s \in RamIds, NEW j \in 1 .. Len(new[q].kids), NEW t \in 1 .. Len(new[s].kids),
                      new[q].kids[j] = new[s].kids[t]
               PROVE  q = s /\ j = t
    BY DEF KidsOnce
  <2>1. PICK l \in 1 .. Len(nodes[q].kids) :
           new[q].kids[j] = nodes[q].kids[l] /\ j = IF q = p /\ l > m THEN l - 1 ELSE l
    BY <1>a, ZenonT(45)
  <2>2. PICK u \in 1 .. Len(nodes[s].kids) :
           new[s].kids[t] = nodes[s].kids[u] /\ t = IF s = p /\ u > m THEN u - 1 ELSE u
    BY <1>a, ZenonT(45)
  <2>3. nodes[q].kids[l] = nodes[s].kids[u]
    BY <2>1, <2>2, Zenon
  <2>4. q = s /\ l = u
    <3>1. \A x, y \in RamIds : \A c \in 1 .. Len(nodes[x].kids), d \in 1 .. Len(nodes[y].kids) :
                nodes[x].kids[c] = nodes[y].kids[d] => x = y /\ c = d
      BY Zenon DEF KidsOnce
    <3> QED
      BY <2>3, <3>1
  <2> QED
    BY <2>1, <2>2, <2>4, Zenon
<1>15. ASSUME NEW s \in RamIds, NobodysKid(s, nodes) PROVE NobodysKid(s, new)
  <2>1. \A q \in RamIds : \A l \in 1 .. Len(nodes[q].kids) : nodes[q].kids[l] # s
    BY <1>15, Zenon DEF NobodysKid
  <2> SUFFICES ASSUME NEW q \in RamIds, NEW j \in 1 .. Len(new[q].kids) PROVE new[q].kids[j] # s
    BY DEF NobodysKid
  <2>2. \E l \in 1 .. Len(nodes[q].kids) : new[q].kids[j] = nodes[q].kids[l]
    BY <1>a, Zenon
  <2> QED
    BY <2>1, <2>2, Zenon
<1> QED
  BY <1>3, <1>9, <1>10, <1>11, <1>13, <1>14, <1>15

LEMMA UnlinkKeeps ==
  ASSUME VfsInv, NEW p \in RamIds, NEW name, RamUnlink(p, name)
  PROVE  VfsInv'
<1>1. /\ MountsTyped(mountTable) /\ TablesTyped(tables) /\ RamsTyped(ramNodes) /\ KidsNamed(ramNodes) /\ KidsOnce(ramNodes)
      /\ RootsTrue(mountTable, ramNodes)
      /\ OpenedTrue(opened, ramNodes, tables) /\ RefsTrue(opened, ramNodes) /\ PutsTrue(ramNodes, puts)
  BY DEF VfsInv
<1>2. PICK kids, same : /\ kids = ramNodes[p].kids
                        /\ same = {j \in DOMAIN kids : ramNodes[kids[j]].name = name}
  OBVIOUS
<1>3. /\ same # {} /\ ramNodes[kids[Min(same)]].refs = 0
      /\ ramNodes' = [ramNodes EXCEPT ![kids[Min(same)]] = NoRam, ![p].kids = RemoveAt(@, Min(same))]
      /\ puts' = [puts EXCEPT ![kids[Min(same)]] = {}]
      /\ UNCHANGED <<mountTable, fsRegistry, tables, opened>>
  BY <1>2 DEF RamUnlink
<1>4. PICK m \in 1 .. Len(ramNodes[p].kids) : m = Min(same)
  <2>1. kids \in Seq(RamIds)
    BY <1>1, <1>2 DEF RamsTyped, RamTyped
  <2>2. DOMAIN kids = 1 .. Len(kids)
    BY <2>1, LenProperties
  <2>3. same \subseteq Nat
    BY <1>2, <2>2
  <2>4. Min(same) \in same
    BY <1>3, <2>3, MinFacts
  <2> QED
    BY <1>2, <2>2, <2>4
<1>5. PICK k : k = ramNodes[p].kids[m]
  OBVIOUS
<1>6. PICK new : new = ramNodes' /\ new = WithoutKid(ramNodes, p, m)
  BY <1>2, <1>3, <1>4, <1>5 DEF WithoutKid
<1>7. /\ k \in RamIds /\ k # p
      /\ RamsTyped(new) /\ KidsNamed(new) /\ KidsOnce(new) /\ new[k] = NoRam
      /\ \A r \in RamIds : r # k => /\ new[r].live = ramNodes[r].live /\ new[r].refs = ramNodes[r].refs
                                    /\ new[r].bytes = ramNodes[r].bytes
      /\ \A r \in RamIds : NobodysKid(r, ramNodes) => NobodysKid(r, new)
  BY <1>1, <1>5, <1>6, KidUnlinked
<1>8. Having(opened, k) = {}
  <2>1. Cardinality(Having(opened, k)) = 0
    BY <1>1, <1>2, <1>3, <1>4, <1>5, <1>7 DEF RefsTrue
  <2>2. IsFiniteSet(Having(opened, k))
    <3>1. Having(opened, k) \subseteq Users
      BY DEF Having
    <3> QED
      BY <3>1, VfsAssumption, FS_Subset
  <2> QED
    BY <2>1, <2>2, FS_EmptySet
<1>9. RootsTrue(mountTable, new)
  <2>1. ~NobodysKid(k, ramNodes)
    BY <1>5 DEF NobodysKid
  <2>2. \A r \in RamIds : ramNodes[r].live /\ NobodysKid(r, ramNodes) => new[r].live /\ NobodysKid(r, new)
    BY <1>7, <2>1
  <2> QED
    BY <1>1, <2>2, RootsStay
<1>10. OpenedTrue(opened, new, tables)
  <2>1. ASSUME NEW u \in Users, opened[u] # NoNode PROVE NodeTrue(opened[u], new, tables)
    <3>1. NodeTrue(opened[u], ramNodes, tables)
      BY <1>1, <2>1 DEF OpenedTrue
    <3>2. opened[u] \in VfsNodes
      BY <3>1 DEF NodeTrue
    <3>3. opened[u].fs = "ramfs" => opened[u].at \in RamIds /\ opened[u].at # k
      BY <1>8, <3>2, NodeKinds DEF Having
    <3> QED
      BY <1>7, <3>1, <3>3 DEF NodeTrue
  <2> QED
    BY <1>1, <2>1 DEF OpenedTrue
<1>11. NoRam.refs = 0 /\ NoRam.bytes = {}
  BY NoRamTyped
<1>12. RefsTrue(opened, new)
  <2>1. Cardinality(Having(opened, k)) = 0
    BY <1>8, FS_EmptySet
  <2> QED
    BY <1>1, <1>7, <1>11, <2>1 DEF RefsTrue
<1>13. PutsTrue(new, puts')
  <2>1. puts' = [puts EXCEPT ![k] = {}]
    BY <1>2, <1>3, <1>4, <1>5
  <2> QED
    BY <1>1, <1>7, <1>11, <2>1 DEF PutsTrue
<1>14. fsRegistry \in Seq(Range(BootOrder)) /\ Len(fsRegistry) <= Len(BootOrder)
  BY DEF VfsInv
<1> QED
  BY <1>1, <1>3, <1>6, <1>7, <1>9, <1>10, <1>12, <1>13, <1>14 DEF VfsInv

LEMMA TopOfTwo ==
  ASSUME NEW n \in Nat, NEW t \in SUBSET (0 .. n), t # {}
  PROVE  Max(t) \in t /\ \A x \in t : Max(t) >= x
<1>1. PICK down : down = {n - x : x \in t}
  OBVIOUS
<1>2. \A x \in t : x \in Nat /\ n - x \in down /\ n - x \in Nat
  BY <1>1
<1>3. down # {} /\ down \subseteq Nat
  BY <1>1, <1>2
<1>4. PICK y \in down : \A z \in down : y <= z
  BY <1>3, LeastNumber
<1>5. PICK x \in t : y = n - x
  BY <1>1, <1>4
<1>6. \A z \in t : n - x <= n - z
  BY <1>2, <1>4, <1>5
<1>7. \A z \in t : x >= z
  BY <1>2, <1>6
<1> QED
  BY <1>7 DEF Max

LEMMA HavingFinite ==
  ASSUME NEW op, NEW i
  PROVE  IsFiniteSet(Having(op, i)) /\ Cardinality(Having(op, i)) \in Nat
<1>1. Having(op, i) \subseteq Users
  BY DEF Having
<1>2. IsFiniteSet(Having(op, i))
  BY <1>1, VfsAssumption, FS_Subset
<1> QED
  BY <1>2, FS_CardinalityType

(* A node's references change with the users that have it.                 *)
RefsChanged(nodes, new, i, n) ==
  /\ RamsTyped(new) /\ SameTree(nodes, new) /\ new[i].refs = n
  /\ \A k \in RamIds : new[k].bytes = nodes[k].bytes /\ (k # i => new[k].refs = nodes[k].refs)

LEMMA Referred ==
  ASSUME NEW nodes, RamsTyped(nodes), NEW i \in RamIds, NEW refs \in Nat,
         NEW new, new = WithRefs(nodes, i, refs)
  PROVE  RefsChanged(nodes, new, i, refs)
<1>1. PICK r : r = [nodes[i] EXCEPT !.refs = refs]
  OBVIOUS
<1>2. RamTyped(nodes[i]) /\ DOMAIN nodes = RamIds
  BY DEF RamsTyped
<1>3. /\ DOMAIN r = RamFields /\ r.kids = nodes[i].kids /\ r.live = nodes[i].live /\ r.name = nodes[i].name
      /\ r.alloc = nodes[i].alloc /\ r.size = nodes[i].size /\ r.bytes = nodes[i].bytes /\ r.refs = refs
  <2>1. DOMAIN nodes[i] = RamFields
    BY <1>2 DEF RamTyped
  <2> QED
    BY <1>1, <2>1 DEF RamFields
<1>4. RamTyped(r)
  BY <1>2, <1>3 DEF RamTyped
<1>5. new = WithNode(nodes, i, r)
  BY <1>1, <1>2 DEF WithNode, WithRefs
<1>6. RamsTyped(new) /\ SameTree(nodes, new) /\ new[i] = r /\ \A k \in RamIds : k # i => new[k] = nodes[k]
  BY <1>3, <1>4, <1>5, NodeChanged
<1> QED
  BY <1>3, <1>6 DEF RefsChanged

(* With the tree as it is, what asks for it stays true.                    *)
LEMMA SameTreeRest ==
  ASSUME NEW nodes, NEW new, SameTree(nodes, new), RamsTyped(nodes), KidsNamed(nodes), KidsOnce(nodes),
         NEW mt, MountsTyped(mt), RootsTrue(mt, nodes), NEW op, NEW tb, OpenedTrue(op, nodes, tb)
  PROVE  KidsNamed(new) /\ KidsOnce(new) /\ RootsTrue(mt, new) /\ OpenedTrue(op, new, tb)
<1>1. KidsNamed(new) /\ KidsOnce(new)
  BY SameTreeKeeps
<1>2. \A k \in RamIds : nodes[k].live => new[k].live
  BY DEF SameTree
<1>3. \A k \in RamIds : NobodysKid(k, nodes) => NobodysKid(k, new)
  BY DEF SameTree, NobodysKid
<1>4. RootsTrue(mt, new)
  BY <1>2, <1>3, RootsStay
<1>5. OpenedTrue(op, new, tb)
  BY <1>2, LiveStays
<1> QED
  BY <1>1, <1>4, <1>5

LEMMA OpenKeeps ==
  ASSUME VfsInv, NEW u \in Users, NEW C, NEW path \in Seq(C), VfsOpen(u, path)
  PROVE  VfsInv'
<1>1. /\ MountsTyped(mountTable) /\ TablesTyped(tables) /\ RamsTyped(ramNodes) /\ KidsNamed(ramNodes) /\ KidsOnce(ramNodes)
      /\ RootsTrue(mountTable, ramNodes)
      /\ OpenedTrue(opened, ramNodes, tables) /\ RefsTrue(opened, ramNodes) /\ PutsTrue(ramNodes, puts)
  BY DEF VfsInv
<1>2. PICK n : n = VfsLookup(path) /\ n # NoNode /\ NodeTrue(n, ramNodes, tables)
  BY LookupTrue DEF VfsOpen
<1>3. /\ opened[u] = NoNode /\ opened' = [opened EXCEPT ![u] = n] /\ ramNodes' = Referenced(n, 1)
      /\ UNCHANGED <<mountTable, fsRegistry, tables, puts>>
  BY <1>2 DEF VfsOpen
<1>4. n \in VfsNodes /\ (n.fs = "ramfs" => n.at \in RamIds)
  <2>1. n \in VfsNodes
    BY <1>2 DEF NodeTrue
  <2> QED
    BY <2>1, NodeKinds
<1>5. opened \in [Users -> VfsNodes \cup {NoNode}]
  BY <1>1 DEF OpenedTrue
<1>6. PICK op : op = opened' /\ op \in [Users -> VfsNodes \cup {NoNode}]
                /\ op[u] = n /\ \A v \in Users : v # u => op[v] = opened[v]
  BY <1>3, <1>4, <1>5
<1>7. OpenedTrue(op, ramNodes, tables)
  BY <1>1, <1>2, <1>6 DEF OpenedTrue
<1>8. NoNode.fs # "ramfs"
  BY DEF NoNode
<1>9. fsRegistry \in Seq(Range(BootOrder)) /\ Len(fsRegistry) <= Len(BootOrder)
  BY DEF VfsInv
<1>10. CASE n.fs = "ramfs"
  <2>1. PICK i \in RamIds : i = n.at
    BY <1>4, <1>10
  <2>2. PICK refs \in Nat : refs = ramNodes[i].refs
    BY <1>1 DEF RamsTyped, RamTyped
  <2>3. PICK new : new = ramNodes' /\ new = WithRefs(ramNodes, i, refs + 1) /\ refs + 1 \in Nat
    BY <1>3, <1>10, <2>1, <2>2 DEF Referenced, WithRefs
  <2>4. /\ RamsTyped(new) /\ SameTree(ramNodes, new) /\ new[i].refs = refs + 1
        /\ \A k \in RamIds : new[k].bytes = ramNodes[k].bytes /\ (k # i => new[k].refs = ramNodes[k].refs)
    <3>1. PICK n1 \in Nat : n1 = refs + 1
      BY <2>2
    <3>2. RamsTyped(ramNodes) /\ new = WithRefs(ramNodes, i, n1)
      BY <1>1, <2>3, <3>1
    <3>3. RefsChanged(ramNodes, new, i, n1)
      BY <3>2, Referred
    <3> QED
      BY <3>1, <3>3, Zenon DEF RefsChanged
  <2>5. KidsNamed(new) /\ KidsOnce(new) /\ RootsTrue(mountTable, new) /\ OpenedTrue(op, new, tables)
    BY <1>1, <1>7, <2>4, SameTreeRest
  <2>6. RefsTrue(op, new)
    <3>1. Having(op, i) = Having(opened, i) \cup {u} /\ u \notin Having(opened, i)
      BY <1>3, <1>6, <1>8, <1>10, <2>1 DEF Having
    <3>2. \A k \in RamIds : k # i => Having(op, k) = Having(opened, k)
      BY <1>3, <1>6, <1>8, <1>10, <2>1 DEF Having
    <3>3. Cardinality(Having(opened, i)) = refs /\ IsFiniteSet(Having(opened, i))
      BY <1>1, <2>2, HavingFinite DEF RefsTrue
    <3>4. Cardinality(Having(opened, i) \cup {u}) = Cardinality(Having(opened, i)) + 1
      BY <3>1, <3>3, FS_AddElement
    <3>5. Cardinality(Having(op, i)) = refs + 1
      BY <3>1, <3>3, <3>4
    <3> QED
      BY <1>1, <2>4, <3>2, <3>5 DEF RefsTrue
  <2>7. PutsTrue(new, puts)
    BY <1>1, <2>4 DEF PutsTrue
  <2> QED
    BY <1>1, <1>3, <1>6, <1>9, <2>3, <2>4, <2>5, <2>6, <2>7 DEF VfsInv
<1>11. CASE n.fs # "ramfs"
  <2>1. ramNodes' = ramNodes
    BY <1>3, <1>11 DEF Referenced
  <2>2. \A k : Having(op, k) = Having(opened, k)
    BY <1>3, <1>6, <1>8, <1>11 DEF Having
  <2>3. RefsTrue(op, ramNodes)
    BY <1>1, <2>2 DEF RefsTrue
  <2> QED
    BY <1>1, <1>3, <1>6, <1>7, <1>9, <2>1, <2>3 DEF VfsInv
<1> QED
  BY <1>10, <1>11

LEMMA CloseKeeps ==
  ASSUME VfsInv, NEW u \in Users, VfsClose(u)
  PROVE  VfsInv'
<1>1. /\ MountsTyped(mountTable) /\ TablesTyped(tables) /\ RamsTyped(ramNodes) /\ KidsNamed(ramNodes) /\ KidsOnce(ramNodes)
      /\ RootsTrue(mountTable, ramNodes)
      /\ OpenedTrue(opened, ramNodes, tables) /\ RefsTrue(opened, ramNodes) /\ PutsTrue(ramNodes, puts)
  BY DEF VfsInv
<1>2. PICK n : n = opened[u] /\ n # NoNode /\ NodeTrue(n, ramNodes, tables)
  BY <1>1 DEF VfsClose, OpenedTrue
<1>3. /\ opened' = [opened EXCEPT ![u] = NoNode]
      /\ ramNodes' = IF n.fs = "ramfs" /\ ramNodes[n.at].refs > 0 THEN Referenced(n, -1) ELSE ramNodes
      /\ UNCHANGED <<mountTable, fsRegistry, tables, puts>>
  BY <1>2 DEF VfsClose
<1>4. n \in VfsNodes /\ (n.fs = "ramfs" => n.at \in RamIds)
  <2>1. n \in VfsNodes
    BY <1>2 DEF NodeTrue
  <2> QED
    BY <2>1, NodeKinds
<1>5. opened \in [Users -> VfsNodes \cup {NoNode}]
  BY <1>1 DEF OpenedTrue
<1>6. PICK op : op = opened' /\ op \in [Users -> VfsNodes \cup {NoNode}]
                /\ op[u] = NoNode /\ \A v \in Users : v # u => op[v] = opened[v]
  BY <1>3, <1>5
<1>7. OpenedTrue(op, ramNodes, tables)
  BY <1>1, <1>6 DEF OpenedTrue
<1>8. NoNode.fs # "ramfs"
  BY DEF NoNode
<1>9. fsRegistry \in Seq(Range(BootOrder)) /\ Len(fsRegistry) <= Len(BootOrder)
  BY DEF VfsInv
<1>10. CASE n.fs = "ramfs"
  <2>1. PICK i \in RamIds : i = n.at
    BY <1>4, <1>10
  <2>2. PICK refs \in Nat : refs = ramNodes[i].refs
    BY <1>1 DEF RamsTyped, RamTyped
  <2>3. Cardinality(Having(opened, i)) = refs /\ IsFiniteSet(Having(opened, i)) /\ u \in Having(opened, i)
    <3>1. u \in Having(opened, i)
      BY <1>2, <1>10, <2>1 DEF Having
    <3> QED
      BY <1>1, <2>2, <3>1, HavingFinite DEF RefsTrue
  <2>4. /\ IsFiniteSet(Having(opened, i) \ {u})
        /\ Cardinality(Having(opened, i) \ {u}) = Cardinality(Having(opened, i)) - 1
    BY <2>3, FS_RemoveElement
  <2>5. Cardinality(Having(opened, i) \ {u}) \in Nat
    BY <2>4, FS_CardinalityType
  <2>6. PICK less \in Nat : less = Cardinality(Having(opened, i) \ {u}) /\ refs = less + 1
    BY <2>3, <2>4, <2>5
  <2>7. PICK new : new = ramNodes' /\ new = WithRefs(ramNodes, i, less)
    <3>1. ramNodes' = [ramNodes EXCEPT ![i].refs = ramNodes[i].refs + (-1)]
      BY <1>3, <1>10, <2>1, <2>2, <2>6 DEF Referenced
    <3>2. ramNodes[i].refs + (-1) = less
      BY <2>2, <2>6
    <3> QED
      BY <3>1, <3>2 DEF WithRefs
  <2>8. /\ RamsTyped(new) /\ SameTree(ramNodes, new) /\ new[i].refs = less
        /\ \A k \in RamIds : new[k].bytes = ramNodes[k].bytes /\ (k # i => new[k].refs = ramNodes[k].refs)
    <3>1. RamsTyped(ramNodes) /\ new = WithRefs(ramNodes, i, less)
      BY <1>1, <2>7
    <3>2. RefsChanged(ramNodes, new, i, less)
      BY <3>1, Referred
    <3> QED
      BY <3>2, Zenon DEF RefsChanged
  <2>9. KidsNamed(new) /\ KidsOnce(new) /\ RootsTrue(mountTable, new) /\ OpenedTrue(op, new, tables)
    BY <1>1, <1>7, <2>8, SameTreeRest
  <2>10. RefsTrue(op, new)
    <3>1. Having(op, i) = Having(opened, i) \ {u}
      BY <1>6, <1>8 DEF Having
    <3>2. \A k \in RamIds : k # i => Having(op, k) = Having(opened, k)
      BY <1>2, <1>6, <1>8, <1>10, <2>1 DEF Having
    <3> QED
      BY <1>1, <2>6, <2>8, <3>1, <3>2 DEF RefsTrue
  <2>11. PutsTrue(new, puts)
    BY <1>1, <2>8 DEF PutsTrue
  <2> QED
    BY <1>1, <1>3, <1>6, <1>9, <2>7, <2>8, <2>9, <2>10, <2>11 DEF VfsInv
<1>11. CASE n.fs # "ramfs"
  <2>1. ramNodes' = ramNodes
    BY <1>3, <1>11
  <2>2. \A k : Having(op, k) = Having(opened, k)
    BY <1>2, <1>6, <1>8, <1>11 DEF Having
  <2>3. RefsTrue(op, ramNodes)
    BY <1>1, <2>2 DEF RefsTrue
  <2> QED
    BY <1>1, <1>3, <1>6, <1>7, <1>9, <2>1, <2>3 DEF VfsInv
<1> QED
  BY <1>10, <1>11

(* A size in whole blocks is not more than the limit, which is one.        *)
LEMMA WholeBlocks ==
  ASSUME NEW needed \in Nat, needed <= RAMMAX
  PROVE  /\ RAMBLOCK * ((needed + RAMBLOCK - 1) \div RAMBLOCK) \in 0 .. RAMMAX
         /\ RAMBLOCK * ((needed + RAMBLOCK - 1) \div RAMBLOCK) >= needed
<1>1. PICK b \in Nat \ {0} : b = RAMBLOCK
  BY VfsAssumption
<1>2. PICK m \in Nat : m = RAMMAX
  BY VfsAssumption
<1>3. PICK q \in Int : q = m \div b /\ m = b * q + (m % b) /\ (m % b) = 0
  <2>1. m \div b \in Int /\ m = b * (m \div b) + (m % b)
    BY <1>1, <1>2
  <2>2. (m % b) = 0
    BY <1>1, <1>2, VfsAssumption
  <2> QED
    BY <2>1, <2>2
<1>4. m = b * q
  BY <1>3
<1>5. PICK a \in Nat : a = needed + b - 1
  BY <1>1
<1>6. PICK d \in Int, r \in 0 .. b - 1 : d = a \div b /\ a = b * d + r
  <2>1. a \div b \in Int /\ (a % b) \in 0 .. b - 1 /\ a = b * (a \div b) + (a % b)
    BY <1>1, <1>5
  <2> QED
    BY <2>1
<1>7. b * d = needed + (b - 1) - r
  BY <1>5, <1>6
<1>8. b * d >= needed
  BY <1>7, <1>6
<1>9. b * d < b * q + b
  BY <1>2, <1>4, <1>6, <1>7
<1>10. b * (d - q) < b
  BY <1>3, <1>6, <1>9
<1>11. d - q < 1
  BY <1>1, <1>3, <1>6, <1>10, SMTT(30)
<1>12. b * d <= b * q
  <2>1. d <= q
    BY <1>3, <1>6, <1>11
  <2> QED
    BY <1>1, <1>3, <1>6, <2>1, SMTT(30)
<1>13. RAMBLOCK * ((needed + RAMBLOCK - 1) \div RAMBLOCK) = b * d
  BY <1>1, <1>5, <1>6
<1>14. b * d \in Int
  BY <1>1, <1>6
<1> QED
  BY <1>2, <1>4, <1>8, <1>12, <1>13, <1>14

LEMMA RamWriteKeeps ==
  ASSUME VfsInv, NEW u \in Users, NEW w \in RamWrites, RamWrite(u, w)
  PROVE  VfsInv'
<1>1. /\ MountsTyped(mountTable) /\ TablesTyped(tables) /\ RamsTyped(ramNodes) /\ KidsNamed(ramNodes) /\ KidsOnce(ramNodes)
      /\ RootsTrue(mountTable, ramNodes)
      /\ OpenedTrue(opened, ramNodes, tables) /\ RefsTrue(opened, ramNodes) /\ PutsTrue(ramNodes, puts)
  BY DEF VfsInv
<1>2. PICK i \in RamIds : i = opened[u].at
  <2>1. opened[u].fs = "ramfs"
    BY DEF RamWrite
  <2>2. opened[u] # NoNode
    BY <2>1 DEF NoNode
  <2>3. opened[u] \in VfsNodes
    BY <1>1, <2>2 DEF OpenedTrue
  <2> QED
    BY <2>1, <2>3, NodeKinds
<1>3. PICK at \in Nat, needed \in Nat : at = w.at /\ needed = w.at + w.len /\ at <= needed /\ needed <= RAMMAX
  <2>1. w.at \in Nat /\ w.len \in Nat
    BY VfsAssumption
  <2>2. w.at + w.len <= RAMMAX
    BY DEF RamWrite
  <2>3. w.at + w.len \in Nat /\ w.at <= w.at + w.len
    BY <2>1
  <2> QED
    BY <2>1, <2>2, <2>3
<1>4. PICK o : o = ramNodes[i] /\ RamTyped(o)
  BY <1>1 DEF RamsTyped
<1>5. PICK span : span = at .. needed - 1
  OBVIOUS
<1>6. PICK grown : grown = IF needed > o.alloc THEN RAMBLOCK * ((needed + RAMBLOCK - 1) \div RAMBLOCK) ELSE o.alloc
  OBVIOUS
<1>7. PICK size : size = Max({o.size, needed})
  OBVIOUS
<1>8. /\ ramNodes' = [ramNodes EXCEPT ![i].alloc = grown, ![i].bytes = @ \cup span, ![i].size = Max({@, needed})]
      /\ puts' = [puts EXCEPT ![i] = @ \cup span]
      /\ UNCHANGED <<mountTable, fsRegistry, tables, opened>>
  BY <1>2, <1>3, <1>4, <1>5, <1>6 DEF RamWrite
<1>9. /\ DOMAIN o = RamFields /\ o.alloc \in 0 .. RAMMAX /\ o.size \in 0 .. o.alloc /\ o.bytes \subseteq 0 .. o.size - 1
      /\ RAMMAX \in Nat
  BY <1>4, VfsAssumption DEF RamTyped
<1>10. size \in Nat /\ size >= o.size /\ size >= needed /\ (size = o.size \/ size = needed)
  <2>1. PICK t : t = {o.size, needed} /\ t \subseteq 0 .. RAMMAX
    <3>1. {o.size, needed} \subseteq 0 .. RAMMAX
      BY <1>3, <1>9
    <3> QED
      BY <3>1, Zenon
  <2>2. size \in t /\ \A x \in t : size >= x
    BY <1>7, <1>9, <2>1, TopOfTwo
  <2> QED
    BY <1>3, <1>9, <2>1, <2>2
<1>11. grown \in 0 .. RAMMAX /\ grown >= o.alloc /\ grown >= needed
  <2>1. /\ RAMBLOCK * ((needed + RAMBLOCK - 1) \div RAMBLOCK) \in 0 .. RAMMAX
        /\ RAMBLOCK * ((needed + RAMBLOCK - 1) \div RAMBLOCK) >= needed
    BY <1>3, WholeBlocks
  <2>2. CASE needed > o.alloc
    <3>1. grown = RAMBLOCK * ((needed + RAMBLOCK - 1) \div RAMBLOCK)
      BY <1>6, <2>2
    <3>2. grown \in 0 .. RAMMAX /\ grown >= needed
      BY <2>1, <3>1
    <3> QED
      BY <1>9, <2>2, <3>2
  <2>3. CASE ~(needed > o.alloc)
    BY <1>6, <1>9, <2>3
  <2> QED
    BY <2>2, <2>3
<1>12. PICK r : r = [o EXCEPT !.alloc = grown, !.bytes = @ \cup span, !.size = size]
  OBVIOUS
<1>13. /\ DOMAIN r = RamFields /\ r.alloc = grown /\ r.bytes = o.bytes \cup span /\ r.size = size
       /\ r.live = o.live /\ r.kids = o.kids /\ r.name = o.name /\ r.refs = o.refs
  BY <1>9, <1>12 DEF RamFields
<1>14. RamTyped(r)
  <2>1. size \in 0 .. grown
    BY <1>9, <1>10, <1>11
  <2>2. \A b \in o.bytes \cup span : b \in 0 .. size - 1
    BY <1>3, <1>5, <1>9, <1>10
  <2>3. o.live \in BOOLEAN /\ o.kids \in Seq(RamIds) /\ o.refs \in Nat
    BY <1>4 DEF RamTyped
  <2>4. r.live \in BOOLEAN /\ r.kids \in Seq(RamIds) /\ r.refs \in Nat
    BY <1>13, <2>3, Zenon
  <2>5. r.alloc \in 0 .. RAMMAX /\ r.size \in 0 .. r.alloc /\ r.bytes \subseteq 0 .. r.size - 1
    BY <1>11, <1>13, <2>1, <2>2
  <2> QED
    BY <1>13, <2>4, <2>5, Zenon DEF RamTyped
<1>15. PICK new : new = ramNodes' /\ new = WithNode(ramNodes, i, r)
  <2>1. DOMAIN ramNodes = RamIds
    BY <1>1 DEF RamsTyped
  <2>2. ramNodes' = WithNode(ramNodes, i, r)
    BY <1>4, <1>7, <1>8, <1>9, <1>12, <2>1 DEF RamFields, WithNode
  <2> QED
    BY <2>2
<1>16. RamsTyped(new) /\ SameTree(ramNodes, new) /\ new[i] = r /\ \A k \in RamIds : k # i => new[k] = ramNodes[k]
  BY <1>1, <1>4, <1>13, <1>14, <1>15, NodeChanged
<1>17. KidsNamed(new) /\ KidsOnce(new) /\ RootsTrue(mountTable, new) /\ OpenedTrue(opened, new, tables)
  BY <1>1, <1>16, SameTreeRest
<1>18. RefsTrue(opened, new)
  BY <1>1, <1>4, <1>13, <1>16 DEF RefsTrue
<1>19. PutsTrue(new, puts')
  <2>1. span \subseteq Offsets
    BY <1>3, <1>5, <1>9 DEF Offsets
  <2>2. puts' \in [RamIds -> SUBSET Offsets]
    BY <1>1, <1>8, <2>1 DEF PutsTrue
  <2>3. \A k \in RamIds : puts'[k] = new[k].bytes
    BY <1>1, <1>4, <1>8, <1>13, <1>16 DEF PutsTrue
  <2> QED
    BY <2>2, <2>3 DEF PutsTrue
<1>20. fsRegistry \in Seq(Range(BootOrder)) /\ Len(fsRegistry) <= Len(BootOrder)
  BY DEF VfsInv
<1> QED
  BY <1>1, <1>8, <1>15, <1>16, <1>17, <1>18, <1>19, <1>20 DEF VfsInv

(* One entry of a table gets another name.                                 *)
LEMMA EntryChanged ==
  ASSUME VfsInv, NEW f \in TableFs, NEW j \in 1 .. EntrySlots, NEW name \in VfsNames \cup {<<>>},
         tables' = [tables EXCEPT ![f][j] = name], f = "sysfs" \/ tables[f][j] = <<>>,
         UNCHANGED <<mountTable, fsRegistry, ramNodes, opened, puts>>
  PROVE  VfsInv'
<1>1. TablesTyped(tables) /\ OpenedTrue(opened, ramNodes, tables)
  BY DEF VfsInv
<1>2. tables \in [TableFs -> [1 .. EntrySlots -> VfsNames \cup {<<>>}]]
  BY <1>1 DEF TablesTyped
<1>3. PICK row : row = [tables[f] EXCEPT ![j] = name]
  OBVIOUS
<1>4. /\ row \in [1 .. EntrySlots -> VfsNames \cup {<<>>}]
      /\ \A l \in 1 .. EntrySlots : l # j => row[l] = tables[f][l]
  BY <1>2, <1>3
<1>5. PICK tb : tb = tables' /\ tb \in [TableFs -> [1 .. EntrySlots -> VfsNames \cup {<<>>}]]
                /\ tb[f] = row /\ \A g \in TableFs : g # f => tb[g] = tables[g]
  <2>1. tables' = [tables EXCEPT ![f] = row]
    BY <1>2, <1>3
  <2> QED
    BY <1>2, <1>4, <2>1
<1>6. \A g \in {"devfs", "procfs"} : \A l \in 1 .. EntrySlots : tables[g][l] # <<>> => tb[g][l] = tables[g][l]
  <2>1. {"devfs", "procfs"} \subseteq TableFs
    BY VfsFacts
  <2> QED
    BY <1>4, <1>5, <2>1
<1>7. OpenedTrue(opened, ramNodes, tb)
  BY <1>1, <1>6, NamesStay
<1>8. TablesTyped(tb)
  BY <1>5 DEF TablesTyped
<1> QED
  BY <1>5, <1>7, <1>8 DEF VfsInv

LEMMA InFirstFreeKeeps ==
  ASSUME VfsInv, NEW f \in TableFs, NEW name \in NewNames, InFirstFree(f, name)
  PROVE  VfsInv'
<1>1. PICK j : j = Min(IndexOf(f, <<>>))
  OBVIOUS
<1>2. j \in 1 .. EntrySlots /\ tables[f][j] = <<>>
  BY <1>1, Indexed DEF InFirstFree
<1>3. tables' = [tables EXCEPT ![f][j] = name] /\ UNCHANGED <<mountTable, fsRegistry, ramNodes, opened, puts>>
  BY <1>1 DEF InFirstFree
<1>4. name \in VfsNames
  BY VfsFacts
<1> QED
  BY <1>2, <1>3, <1>4, EntryChanged

LEMMA SysUnregisterKeeps ==
  ASSUME VfsInv, NEW name, SysUnregister(name)
  PROVE  VfsInv'
<1>1. PICK j : j = Min(IndexOf("sysfs", name))
  OBVIOUS
<1>2. j \in 1 .. EntrySlots
  BY <1>1, Indexed DEF SysUnregister
<1>3. tables' = [tables EXCEPT !["sysfs"][j] = <<>>] /\ UNCHANGED <<mountTable, fsRegistry, ramNodes, opened, puts>>
  BY <1>1 DEF SysUnregister
<1>4. "sysfs" \in TableFs
  BY VfsFacts
<1> QED
  BY <1>2, <1>3, <1>4, EntryChanged

LEMMA NamedPathSeq ==
  ASSUME NEW path \in NamedPaths
  PROVE  \E C : path \in Seq(C)
<1>1. CASE path \in MountPaths
  BY <1>1, VfsFacts
<1>2. CASE path \in {p \o <<"/">> \o n : p \in MountPaths, n \in NewNames}
  <2>1. PICK p \in MountPaths, n \in NewNames : path = p \o <<"/">> \o n
    BY <1>2
  <2>2. p \in Seq(Range(p)) /\ n \in Seq(Range(n))
    BY VfsFacts
  <2>3. PICK C : C = Range(p) \cup Range(n) \cup {"/"}
    OBVIOUS
  <2>4. p \in Seq(C)
    BY <2>2, <2>3, SeqMonotonic
  <2>5. n \in Seq(C)
    BY <2>2, <2>3, SeqMonotonic
  <2>6. <<"/">> \in Seq(C)
    BY <2>3, LineSingle
  <2>7. p \o <<"/">> \in Seq(C)
    BY <2>4, <2>6, LineJoined
  <2>8. (p \o <<"/">>) \o n \in Seq(C)
    BY <2>5, <2>7, LineJoined
  <2> QED
    BY <2>1, <2>8
<1> QED
  BY <1>1, <1>2 DEF NamedPaths

LEMMA VfsStep ==
  ASSUME VfsInv, [VfsNext]_vfsVars
  PROVE  VfsInv'
<1>1. CASE VfsRegister
  BY <1>1, RegisterFsKeeps
<1>2. CASE \E path \in MountPaths : VfsUmount(path) \/ \E f \in {"ramfs"} \cup TableFs : VfsMount(path, f)
  <2>1. PICK path \in MountPaths : VfsUmount(path) \/ \E f \in {"ramfs"} \cup TableFs : VfsMount(path, f)
    BY <1>2
  <2>2. CASE VfsUmount(path)
    BY <2>2, UmountKeeps
  <2>3. ASSUME NEW f \in {"ramfs"} \cup TableFs, VfsMount(path, f) PROVE VfsInv'
    <3>1. f \in {"ramfs", "devfs", "procfs", "sysfs"}
      BY VfsFacts
    <3> QED
      BY <2>3, <3>1, MountKeeps
  <2> QED
    BY <2>1, <2>2, <2>3
<1>3. CASE \E u \in Users : VfsClose(u) \/ (\E p \in NamedPaths : VfsOpen(u, p)) \/ (\E w \in RamWrites : RamWrite(u, w))
  <2>1. PICK u \in Users : VfsClose(u) \/ (\E p \in NamedPaths : VfsOpen(u, p)) \/ (\E w \in RamWrites : RamWrite(u, w))
    BY <1>3
  <2>2. CASE VfsClose(u)
    BY <2>2, CloseKeeps
  <2>3. ASSUME NEW p \in NamedPaths, VfsOpen(u, p) PROVE VfsInv'
    <3>1. PICK C : p \in Seq(C)
      BY NamedPathSeq
    <3> QED
      BY <2>3, <3>1, OpenKeeps
  <2>4. ASSUME NEW w \in RamWrites, RamWrite(u, w) PROVE VfsInv'
    BY <2>4, RamWriteKeeps
  <2> QED
    BY <2>1, <2>2, <2>3, <2>4
<1>4. CASE \E i \in RamIds, n \in NewNames : RamMkdir(i, n) \/ RamUnlink(i, n)
  <2>1. PICK i \in RamIds, n \in NewNames : RamMkdir(i, n) \/ RamUnlink(i, n)
    BY <1>4
  <2>2. CASE RamMkdir(i, n)
    BY <2>2, MkdirKeeps
  <2>3. CASE RamUnlink(i, n)
    BY <2>3, UnlinkKeeps
  <2> QED
    BY <2>1, <2>2, <2>3
<1>5. CASE \E n \in NewNames : DevRegister(n) \/ SysRegister(n) \/ SysUnregister(n)
  <2>1. PICK n \in NewNames : DevRegister(n) \/ SysRegister(n) \/ SysUnregister(n)
    BY <1>5
  <2>0. "devfs" \in TableFs /\ "sysfs" \in TableFs
    BY VfsFacts
  <2>2. CASE DevRegister(n)
    <3>1. InFirstFree("devfs", n)
      BY <2>2 DEF DevRegister
    <3> QED
      BY <2>0, <3>1, InFirstFreeKeeps
  <2>3. CASE SysRegister(n)
    <3>1. InFirstFree("sysfs", n)
      BY <2>3 DEF SysRegister
    <3> QED
      BY <2>0, <3>1, InFirstFreeKeeps
  <2>4. CASE SysUnregister(n)
    BY <2>4, SysUnregisterKeeps
  <2> QED
    BY <2>1, <2>2, <2>3, <2>4
<1>6. CASE UNCHANGED vfsVars
  BY <1>6 DEF vfsVars, VfsInv
<1> QED
  BY <1>1, <1>2, <1>3, <1>4, <1>5, <1>6 DEF VfsNext

=============================================================================
