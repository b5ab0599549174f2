------------------------------- MODULE Fat32 -------------------------------
(***************************************************************************)
(* Reading a FAT32 volume, src/kernal/fs/fat32.c, one disk access a step;  *)
(* any of them may fail.  A cluster that cannot be read ends the loop; an  *)
(* entry of the FAT that cannot be read counts as the end of the chain.    *)
(* A byte is known by where it is on the disk: <<sector, place in it>>.    *)
(* IDE sectors have SECTOR bytes; the code also mounts volumes with larger *)
(* ones but reads sectors of SECTOR bytes at their numbers, so what it     *)
(* gets there is neither the FAT nor the file: on those nothing is read.   *)
(***************************************************************************)
EXTENDS Integers, FiniteSets, SequencesExt

CONSTANTS
  SECTOR,       \* 512
  SectorSizes,  \* the values of bytes_per_sector that are accepted
  FatVolumes,   \* the volumes that may be in the drive
  FatReads,     \* the reads that are tried: [at, len]
  FatNames,     \* the names that are looked for
  Twelve        \* of a name, its first 12 characters, all that strncmp compares

EOC == 0 \* FAT32_EOC and above, the end of a chain; clusters begin at 2

(* what is used of the boot sector and of an entry of a directory: the     *)
(* kinds are those the loops tell apart by the first character of the name *)
(* and the attributes ("label" is the volume's, long names are "lfn")      *)
BootSector(v) == /\ {v.bps, v.spc, v.fats, v.reserved} \subseteq Nat \ {0}
                 /\ v.fatSize \in Nat /\ DOMAIN v.fat \subseteq Nat \ {0, 1}
DirEntry(e)   == /\ e.kind \in {"end", "deleted", "lfn", "label", "dir", "file"}
                 /\ e.name \in DOMAIN Twelve /\ e.first \in Nat /\ e.size \in Nat

(* the clusters of a file or directory that begins with the first          *)
Chain(v, first) ==
  LET nth[n \in Nat] == IF n = 0 THEN first ELSE v.fat[nth[n - 1]]
      length == CHOOSE n \in 1 .. Cardinality(DOMAIN v.fat) :
                  v.fat[nth[n - 1]] = EOC /\ \A m \in 1 .. n - 1 : v.fat[nth[m - 1]] # EOC
  IN [i \in 1 .. length |-> nth[i - 1]]

(* On a volume in order a chain leads from cluster to cluster to its end,  *)
(* is as long as the file, and has the entries of the directory.           *)
Chained(v, c) ==
  /\ c \in Seq(DOMAIN v.fat) /\ c # <<>>
  /\ \A i \in DOMAIN c : v.fat[c[i]] = IF i = Len(c) THEN EOC ELSE c[i + 1]
Stored(v, file)   == LET c == Chain(v, file.first)
                     IN Chained(v, c) /\ c[1] = file.first /\ file.size <= v.bps * v.spc * Len(c)
Opens(v, dir) == LET c == Chain(v, dir)
                     IN Chained(v, c) /\ c[1] = dir /\ Range(c) \subseteq DOMAIN v.slots

ASSUME FatAssumption ==
  /\ SECTOR \in Nat \ {0}
  /\ \A r \in FatReads : r.at \in Nat /\ r.len \in Nat \ {0}
  /\ \A v \in FatVolumes :
       /\ BootSector(v) /\ Opens(v, v.root)
       /\ \A c \in DOMAIN v.slots :
            /\ v.slots[c] \in Seq(Range(v.slots[c]))
            /\ \A e \in Range(v.slots[c]) :
                 /\ DirEntry(e)
                 /\ e.kind = "file" /\ e.size > 0 => Stored(v, e)
                 /\ e.kind = "dir" => Opens(v, e.first)

VARIABLES
  fatVol,    \* what is in the drive
  fatRoot,   \* fat32_mount has returned a node
  fatJob     \* the call that is running, or the last one

fatVars == <<fatVol, fatRoot, fatJob>>

(* seek, load and next are places in fat32_read and the directory loops    *)
FatIdle == [phase |-> "idle", op |-> "none", file |-> [first |-> EOC, size |-> 0], from |-> 0, ask |-> "",
            cluster |-> EOC, skip |-> 0, intra |-> 0, left |-> 0, got |-> <<>>, seen |-> 0, failed |-> FALSE]

FatTypeOK ==
  /\ fatVol \in FatVolumes /\ fatRoot \in BOOLEAN
  /\ fatJob.phase \in {"idle", "seek", "load", "next", "done"}
  /\ fatJob.op \in {"none", "read", "list", "find"}
  /\ fatJob.left >= 0 /\ fatJob.skip >= 0

FatInit == fatVol \in FatVolumes /\ fatRoot = FALSE /\ fatJob = FatIdle

BytesPerCluster == fatVol.bps * fatVol.spc

(* cluster_to_lba with the geometry that fat32_mount takes from the volume *)
ClusterLba(c) == fatVol.reserved + fatVol.fats * fatVol.fatSize + (c - 2) * fatVol.spc

(* the j-th byte of the buffer after fat32_read_sectors                    *)
Loaded(c, j) == <<ClusterLba(c) + j \div SECTOR, j % SECTOR>>

(* which entries of a cluster the loops do not skip                        *)
Live(e)    == e.kind \in {"file", "dir"}
Ended(s)   == \E i \in DOMAIN s : s[i].kind = "end"
Scanned(s) == {i \in DOMAIN s : Live(s[i]) /\ \A j \in 1 .. i : s[j].kind # "end"}

-----------------------------------------------------------------------------
(* fat32_mount: sector 0 can be read and passes the sanity checks.  It is  *)
(* the drive's first sector whatever partition the device names.           *)
FatMount ==
  /\ ~fatRoot /\ fatVol.bps \in SectorSizes /\ fatVol.fatSize # 0
  /\ fatRoot' = TRUE
  /\ UNCHANGED <<fatVol, fatJob>>

FatFiles == {e \in UNION {Range(fatVol.slots[c]) : c \in DOMAIN fatVol.slots} : e.kind = "file"}
FatDirs  == {[first |-> fatVol.root, size |-> 0]} \cup
            {e \in UNION {Range(fatVol.slots[c]) : c \in DOMAIN fatVol.slots} : e.kind = "dir"}

(* a call begins; what is left to read ends with the file                  *)
FatBegin(op, file, at, len, ask) ==
  /\ fatRoot /\ fatVol.bps = SECTOR /\ fatJob.phase \in {"idle", "done"}
  /\ fatJob' = [FatIdle EXCEPT
       !.op = op, !.file = [first |-> file.first, size |-> file.size], !.from = at, !.ask = ask,
       !.cluster = file.first, !.skip = at \div BytesPerCluster, !.intra = at % BytesPerCluster,
       !.left = IF at + len > file.size THEN file.size - at ELSE len,
       !.phase = IF at \div BytesPerCluster > 0 THEN "seek" ELSE "load"]
  /\ UNCHANGED <<fatVol, fatRoot>>

FatRead(file, r)    == r.at < file.size /\ FatBegin("read", file, r.at, r.len, "")
FatFind(dir, name)  == FatBegin("find", [first |-> dir.first, size |-> 0], 0, 0, name)
(* the index is as many entries as the loop counts before it is there      *)
FatReaddir(dir, index) ==
  /\ fatRoot /\ fatVol.bps = SECTOR /\ fatJob.phase \in {"idle", "done"}
  /\ fatJob' = [FatIdle EXCEPT !.op = "list", !.file = [first |-> dir.first, size |-> 0], !.from = index,
                               !.cluster = dir.first, !.phase = "load"]
  /\ UNCHANGED <<fatVol, fatRoot>>

(* fat32_next_cluster                                                      *)
NextCluster(next, failed) == \/ next = fatVol.fat[fatJob.cluster] /\ failed = fatJob.failed
                             \/ next = EOC /\ failed = TRUE

(* the walk to the cluster of the offset                                   *)
FatSeek ==
  /\ fatJob.phase = "seek"
  /\ \E next \in {EOC, fatVol.fat[fatJob.cluster]}, failed \in BOOLEAN :
       /\ NextCluster(next, failed)
       /\ fatJob' = [fatJob EXCEPT !.cluster = next, !.failed = failed, !.skip = @ - 1,
            !.phase = IF next = EOC THEN "done" ELSE IF fatJob.skip = 1 THEN "load" ELSE "seek"]
  /\ UNCHANGED <<fatVol, fatRoot>>

(* the body of the three loops with the cluster in the buffer              *)
FatLoad ==
  /\ fatJob.phase = "load"
  /\ LET c == fatJob.cluster
         chunk == Min({fatJob.left, BytesPerCluster - fatJob.intra})
         here  == fatVol.slots[c]
         shown == Scanned(here)
         hits  == {i \in shown : IF fatJob.op = "list" THEN fatJob.seen + Cardinality({j \in shown : j < i}) = fatJob.from
                                 ELSE Twelve[here[i].name] = Twelve[fatJob.ask]}
     IN fatJob' = IF fatJob.op = "read"
          THEN [fatJob EXCEPT !.got = @ \o [i \in 1 .. chunk |-> Loaded(c, fatJob.intra + i - 1)],
                              !.left = @ - chunk, !.intra = 0, !.phase = "next"]
          ELSE IF hits # {}
          THEN [fatJob EXCEPT !.got = <<here[Min(hits)]>>, !.phase = "next"]
          ELSE [fatJob EXCEPT !.seen = @ + Cardinality(shown), !.phase = IF Ended(here) THEN "done" ELSE "next"]
  /\ UNCHANGED <<fatVol, fatRoot>>

FatLoadFails ==
  /\ fatJob.phase = "load"
  /\ fatJob' = [fatJob EXCEPT !.phase = "done", !.failed = TRUE]
  /\ UNCHANGED <<fatVol, fatRoot>>

(* the next cluster is looked up even when nothing is left to do           *)
FatFollow ==
  /\ fatJob.phase = "next"
  /\ \E next \in {EOC, fatVol.fat[fatJob.cluster]}, failed \in BOOLEAN :
       /\ NextCluster(next, failed)
       /\ LET finished == IF fatJob.op = "read" THEN fatJob.left = 0 ELSE fatJob.got # <<>>
          IN fatJob' = [fatJob EXCEPT !.cluster = next, !.failed = failed,
                          !.phase = IF finished \/ next = EOC THEN "done" ELSE "load"]
  /\ UNCHANGED <<fatVol, fatRoot>>

FatNext ==
  \/ FatMount \/ FatSeek \/ FatLoad \/ FatLoadFails \/ FatFollow
  \/ \E f \in FatFiles, r \in FatReads : FatRead(f, r)
  \/ \E d \in FatDirs : (\E n \in FatNames : FatFind(d, n)) \/ (\E i \in 0 .. 3 : FatReaddir(d, i))

-----------------------------------------------------------------------------
(* What the format says of the bytes of a file, and of the entries of a    *)
(* directory, by the cluster of the chain and the place in it.             *)
FileByte(file, k) ==
  LET cluster == Chain(fatVol, file.first)[k \div BytesPerCluster + 1]
      address == (fatVol.reserved + fatVol.fats * fatVol.fatSize) * fatVol.bps
                 + (cluster - 2) * BytesPerCluster + (k % BytesPerCluster)
  IN <<address \div SECTOR, address % SECTOR>>

FatPlaces(dir) ==
  LET c == Chain(fatVol, dir.first)
      reached == {k \in 0 .. Len(c) - 1 : \A m \in 1 .. k : ~Ended(fatVol.slots[c[m]])}
  IN UNION {{<<k, i>> : i \in Scanned(fatVol.slots[c[k + 1]])} : k \in reached}
FatAt(dir, p)       == fatVol.slots[Chain(fatVol, dir.first)[p[1] + 1]][p[2]]
FatAhead(places, p) == {q \in places : q[1] < p[1] \/ (q[1] = p[1] /\ q[2] < p[2])}

(* A read gives the file's bytes from the offset on, fewer only when the   *)
(* disk failed; an entry is found by its name, the first of that name, and *)
(* listed at its place; nothing is found that is not there.                *)
FatTrue ==
  fatJob.phase = "done" =>
    CASE fatJob.op = "read" ->
           /\ fatJob.got = [i \in 1 .. Len(fatJob.got) |-> FileByte(fatJob.file, fatJob.from + i - 1)]
           /\ fatJob.left = 0 \/ fatJob.failed
      [] fatJob.op = "list" ->
           LET entries == FatPlaces(fatJob.file)
           IN IF fatJob.got # <<>>
              THEN \E p \in entries : /\ fatJob.got = <<FatAt(fatJob.file, p)>>
                                      /\ Cardinality(FatAhead(entries, p)) = fatJob.from
              ELSE fatJob.failed \/ fatJob.from >= Cardinality(entries)
      [] fatJob.op = "find" ->
           LET same == {p \in FatPlaces(fatJob.file) : Twelve[FatAt(fatJob.file, p).name] = Twelve[fatJob.ask]}
           IN IF fatJob.got # <<>>
              THEN \E p \in same : fatJob.got = <<FatAt(fatJob.file, p)>> /\ FatAhead(same, p) = {}
              ELSE fatJob.failed \/ same = {}

=============================================================================
