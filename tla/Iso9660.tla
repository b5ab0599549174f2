------------------------------ MODULE Iso9660 ------------------------------
(***************************************************************************)
(* Reading a CD-ROM volume, src/kernal/fs/iso9660.c, one sector a step;    *)
(* any of them may not be readable.  The code takes the root record from   *)
(* the offset its structure gives it, 134, where ECMA-119 has it at 156;   *)
(* the volume here is what the code reads there.                           *)
(***************************************************************************)
EXTENDS Integers, FiniteSets, SequencesExt

CONSTANTS
  ISOSECTOR,   \* ISO_SECTOR_SIZE
  IsoVolumes,  \* the discs: [magic, lba, size, records], records by sector
  CleanName,   \* of a recorded name: lower case, without its version
  IsoReads,    \* the reads that are tried: [at, len]
  IsoNames     \* the names that are looked for

(* what is used of the volume descriptor and of a directory record         *)
Descriptor(v) == v.magic \in BOOLEAN /\ v.lba \in Nat /\ v.size \in Nat
Record(r)     == r.name \in DOMAIN CleanName /\ r.dir \in BOOLEAN /\ r.lba \in Nat /\ r.size \in Nat

Sectors(bytes) == (bytes + ISOSECTOR - 1) \div ISOSECTOR

(* neither the record of the directory itself nor that of its parent       *)
Proper(name) == name \notin {"\\0", "\\1"}

OnDisc(v, extent) == \A k \in 0 .. Sectors(extent.size) - 1 : extent.lba + k \in DOMAIN v.records

(* A directory lies on the disc; its own record and its parent's have      *)
(* names that no path has.                                                 *)
ASSUME IsoAssumption ==
  /\ ISOSECTOR \in Nat \ {0}
  /\ \A r \in IsoReads : r.at \in Nat /\ r.len \in Nat
  /\ \A n \in DOMAIN CleanName : ~Proper(n) => CleanName[n] \notin IsoNames
  /\ \A v \in IsoVolumes :
       /\ Descriptor(v) /\ \A s \in DOMAIN v.records : v.records[s] \in Seq(Range(v.records[s]))
       /\ \A s \in DOMAIN v.records : \A r \in Range(v.records[s]) :
            Record(r) /\ (r.dir => OnDisc(v, r))
       /\ OnDisc(v, v)

VARIABLES
  isoVol,   \* the disc
  isoRoot,  \* iso9660_mount has returned a node
  isoJob    \* the call that is running, or the last one

isoVars == <<isoVol, isoRoot, isoJob>>

IsoIdle == [phase |-> "idle", op |-> "none", lba |-> 0, size |-> 0, from |-> 0, ask |-> "",
            sec |-> 0, left |-> 0, got |-> <<>>, seen |-> 0, failed |-> FALSE]

IsoTypeOK ==
  /\ isoVol \in IsoVolumes /\ isoRoot \in BOOLEAN
  /\ isoJob.phase \in {"idle", "sector", "done"} /\ isoJob.op \in {"none", "read", "list", "find"}
  /\ isoJob.left >= 0

IsoInit == isoVol \in IsoVolumes /\ isoRoot = FALSE /\ isoJob = IsoIdle

(* iso9660_mount: sector 16 can be read and is a volume descriptor         *)
IsoMount ==
  /\ ~isoRoot /\ isoVol.magic
  /\ isoRoot' = TRUE
  /\ UNCHANGED <<isoVol, isoJob>>

Records == UNION {Range(isoVol.records[s]) : s \in DOMAIN isoVol.records}
IsoDirs == {[lba |-> isoVol.lba, size |-> isoVol.size]} \cup {[lba |-> r.lba, size |-> r.size] : r \in {q \in Records : q.dir}}
IsoBegin(op, extent, from, len, ask) ==
  /\ isoRoot /\ isoJob.phase \in {"idle", "done"}
  /\ isoJob' = [IsoIdle EXCEPT
       !.phase = IF op # "read" /\ extent.size = 0 THEN "done" ELSE "sector",
       !.op = op, !.lba = extent.lba, !.size = extent.size, !.from = from, !.ask = ask,
       !.sec = IF op = "read" THEN from \div ISOSECTOR ELSE 0,
       !.left = IF op # "read" THEN 0 ELSE IF from + len > extent.size THEN extent.size - from ELSE len]
  /\ UNCHANGED <<isoVol, isoRoot>>

IsoRead(file, r)          == r.at < file.size /\ IsoBegin("read", file, r.at, r.len, "")
IsoFind(extent, name)     == IsoBegin("find", extent, 0, 0, name)
IsoReaddir(extent, index) == IsoBegin("list", extent, index, 0, "")

(* iso9660_read                                                            *)
IsoReadSector ==
  /\ isoJob.phase = "sector" /\ isoJob.op = "read"
  /\ LET intra == IF isoJob.got = <<>> THEN isoJob.from % ISOSECTOR ELSE 0
         chunk == Min({isoJob.left, ISOSECTOR - intra})
     IN isoJob' = [isoJob EXCEPT
          !.got = @ \o [i \in 1 .. chunk |-> <<isoJob.lba + isoJob.sec, intra + i - 1>>],
          !.left = @ - chunk, !.sec = @ + 1,
          !.phase = IF isoJob.left = chunk THEN "done" ELSE "sector"]
  /\ UNCHANGED <<isoVol, isoRoot>>

IsoFails ==
  /\ isoJob.phase = "sector"
  /\ isoJob' = [isoJob EXCEPT !.phase = "done", !.failed = TRUE]
  /\ UNCHANGED <<isoVol, isoRoot>>

(* the two directory loops: readdir passes over the records of the         *)
(* directory itself and its parent, finddir takes the last record of a     *)
(* sector that has the name, an earlier one or none without memory for it  *)
Shown(here) == {i \in DOMAIN here : Proper(here[i].name)}

IsoScan ==
  /\ isoJob.phase = "sector" /\ isoJob.op \in {"list", "find"}
  /\ LET here == isoVol.records[isoJob.lba + isoJob.sec]
         indexed == {i \in Shown(here) : isoJob.seen + Cardinality({j \in Shown(here) : j < i}) = isoJob.from}
         same == {i \in DOMAIN here : CleanName[here[i].name] = isoJob.ask}
         found(hit, failed) == isoJob' = [isoJob EXCEPT
           !.got = hit, !.failed = failed, !.sec = @ + 1, !.seen = @ + Cardinality(Shown(here)),
           !.phase = IF hit # <<>> \/ isoJob.sec + 1 = Sectors(isoJob.size) THEN "done" ELSE "sector"]
     IN \/ isoJob.op = "list" /\ found(IF indexed = {} THEN <<>> ELSE <<here[Min(indexed)]>>, isoJob.failed)
        \/ isoJob.op = "find" /\ found(IF same = {} THEN <<>> ELSE <<here[Max(same)]>>, isoJob.failed)
        \/ isoJob.op = "find" /\ \E i \in (same \cup {0}) \ {Max(same \cup {0})} :
             found(IF i = 0 THEN <<>> ELSE <<here[i]>>, TRUE)
  /\ UNCHANGED <<isoVol, isoRoot>>

IsoNext ==
  \/ IsoMount \/ IsoReadSector \/ IsoFails \/ IsoScan
  \/ \E f \in {q \in Records : ~q.dir}, r \in IsoReads : IsoRead(f, r)
  \/ \E d \in IsoDirs : (\E n \in IsoNames : IsoFind(d, n)) \/ (\E i \in 0 .. 3 : IsoReaddir(d, i))

-----------------------------------------------------------------------------
(* where the records of a directory are, without itself and its parent:    *)
(* sector and place in it; and which of them come before one               *)
IsoPlaces(job) ==
  UNION {{<<k, i>> : i \in Shown(isoVol.records[job.lba + k])} : k \in 0 .. Sectors(job.size) - 1}
IsoAt(job, p)     == isoVol.records[job.lba + p[1]][p[2]]
IsoBefore(job, p) == {q \in IsoPlaces(job) : q[1] < p[1] \/ (q[1] = p[1] /\ q[2] < p[2])}

(* A read gives the bytes of the file's extent, fewer only when the disk   *)
(* failed.  What is listed is at its place, with as many others before it  *)
(* as its index says; what is found has the name, and a name that is       *)
(* recorded is found.                                                      *)
IsoTrue ==
  isoJob.phase = "done" =>
    CASE isoJob.op = "read" ->
           /\ isoJob.got = [i \in 1 .. Len(isoJob.got) |->
                              <<isoJob.lba + ((isoJob.from + i - 1) \div ISOSECTOR), (isoJob.from + i - 1) % ISOSECTOR>>]
           /\ isoJob.left = 0 \/ isoJob.failed
      [] isoJob.op = "list" ->
           IF isoJob.got # <<>>
           THEN \E p \in IsoPlaces(isoJob) :
                  isoJob.got = <<IsoAt(isoJob, p)>> /\ Cardinality(IsoBefore(isoJob, p)) = isoJob.from
           ELSE isoJob.failed \/ isoJob.from >= Cardinality(IsoPlaces(isoJob))
      [] isoJob.op = "find" ->
           LET same == {p \in IsoPlaces(isoJob) : CleanName[IsoAt(isoJob, p).name] = isoJob.ask}
           IN IF isoJob.got # <<>> THEN \E p \in same : isoJob.got = <<IsoAt(isoJob, p)>>
              ELSE isoJob.failed \/ same = {}

=============================================================================
