------------------------------- MODULE Drives -------------------------------
(***************************************************************************)
(* The block drivers: PIO on one IDE channel (src/kernal/drivers/ide.c),   *)
(* the partition table read through it (fs/partition.c), and the queues of *)
(* an NVMe controller (drivers/nvme.c).  A behaviour is about one of them. *)
(*                                                                         *)
(* ide_read and ide_write take no lock although any task may call them:    *)
(* the registers of the channel are shared by the tasks and by its two     *)
(* drives.  What an overlapping call does to another is modelled, and the  *)
(* property speaks of calls nothing overlapped.                            *)
(***************************************************************************)
EXTENDS Integers, FiniteSets, SequencesExt

CONSTANTS
  IdeTasks, IdeDrives, Lbas, IdeValues,
  TaskWrites,  \* of a task: what it writes
  MaxIdeCalls, \* bound on the calls
  PART_MAX, ENTRYSECTORS, ENTRYSECTOR, \* the latter: entry_buf has at most 32 sectors of 512 bytes
  PartDisks,   \* the disks whose tables are read
  QSIZE,       \* NVME_IO_QUEUE_SIZE, NVME_ADMIN_QUEUE_SIZE
  MaxCommands  \* bound on the commands submitted to a queue

(* what is used of a disk: of its first sector the signature and the types *)
(* of the four entries, whether sector 1 is a GPT header, and which of the *)
(* GPT's entries have a type, each of esize bytes                          *)
BootRecord(d) == d.signed \in BOOLEAN /\ d.types \in Seq(STRING) /\ Len(d.types) = 4
GptHeader(d)  == d.gpt \in BOOLEAN /\ d.esize \in Nat \ {0}
GptEntries(d) == d.entries \in Seq(BOOLEAN)

ASSUME DrivesAssumption ==
  /\ Cardinality(Lbas) \in Nat \ {0} /\ Lbas = 0 .. Cardinality(Lbas) - 1
  /\ 0 \in IdeDrives /\ IdeValues # {}
  /\ PART_MAX \in Nat /\ PART_MAX >= 4 \* an MBR has four entries, and fits
  /\ ENTRYSECTORS \in Nat \ {0} /\ ENTRYSECTOR \in Nat \ {0} /\ QSIZE \in Nat /\ QSIZE >= 2
  /\ TaskWrites \in [IdeTasks -> IdeValues]
  /\ \A d \in PartDisks : BootRecord(d) /\ GptHeader(d) /\ GptEntries(d)

VARIABLES
  ideReg,   \* the channel's registers: [drive, lba, count]
  ideDev,   \* the drive's command under way: [cmd, drive, lba, left]
  ideDisk,  \* what is stored, by drive and sector
  ideJob,   \* of a task: its call
  ideCalls, \* number of calls so far
  partJob,  \* [disk, phase, table]: a run of partition_read
  nv        \* the controller and the driver's side of its two queues

ideVars    == <<ideReg, ideDev, ideDisk, ideJob, ideCalls>>
driveVars  == <<ideVars, partJob, nv>>

-----------------------------------------------------------------------------
(* IDE.                                                                    *)

IdeIdle == [phase |-> "idle", op |-> "none", drive |-> 0, lba |-> 0, count |-> 0, s |-> 0,
            got |-> <<>>, alone |-> TRUE]
NoCommand == [cmd |-> "none", drive |-> 0, lba |-> 0, left |-> 0]
Calling(t) == ideJob[t].phase \notin {"idle", "ok", "failed"}

IdeInit ==
  /\ ideReg = [drive |-> 0, lba |-> 0, count |-> 0] /\ ideDev = NoCommand
  /\ ideDisk = [d \in IdeDrives |-> [l \in Lbas |-> CHOOSE v \in IdeValues : TRUE]]
  /\ ideJob = [t \in IdeTasks |-> IdeIdle] /\ ideCalls = 0

(* ghost: calls that are under way at the same time are not alone; what a  *)
(* call of another task brought has been used by then                      *)
Noted(t, job) ==
  [u \in IdeTasks |->
     IF u = t THEN [job EXCEPT !.alone = @ /\ \A w \in IdeTasks \ {t} : ~Calling(w)]
     ELSE IF Calling(u) THEN [ideJob[u] EXCEPT !.alone = FALSE] ELSE IdeIdle]

(* ide_wait, whose result is not looked at here, and ide_select_lba        *)
IdeCall(t, op, drive, lba, count) ==
  /\ ~Calling(t) /\ ideCalls < MaxIdeCalls /\ lba + count - 1 \in Lbas
  /\ ideReg' = [drive |-> drive, lba |-> lba, count |-> count]
  /\ ideJob' = Noted(t, [IdeIdle EXCEPT !.phase = "command", !.op = op, !.drive = drive,
                                        !.lba = lba, !.count = count])
  /\ ideCalls' = ideCalls + 1
  /\ UNCHANGED <<ideDev, ideDisk>>

(* the command register: the drive takes the parameters as they are now    *)
IdeCommand(t) ==
  /\ ideJob[t].phase = "command"
  /\ ideDev' = [cmd |-> ideJob[t].op, drive |-> ideReg.drive, lba |-> ideReg.lba, left |-> ideReg.count]
  /\ ideJob' = Noted(t, [ideJob[t] EXCEPT !.phase = "data"])
  /\ UNCHANGED <<ideReg, ideDisk, ideCalls>>

(* DRQ is set and one sector goes through the data register                *)
IdeSector(t) ==
  /\ ideJob[t].phase = "data" /\ ideDev.left > 0
  /\ LET job == ideJob[t]
         ends == IF job.s + 1 < job.count THEN "data" ELSE IF job.op = "write" THEN "flush" ELSE "ok"
         moved == [job EXCEPT !.s = @ + 1, !.phase = ends]
     IN /\ ideDev' = [ideDev EXCEPT !.lba = (@ + 1) % Cardinality(Lbas), !.left = @ - 1]
        /\ IF job.op = "read"
           THEN /\ \E v \in IF ideDev.cmd = "read" THEN {ideDisk[ideDev.drive][ideDev.lba]} ELSE IdeValues :
                     ideJob' = Noted(t, [moved EXCEPT !.got = Append(@, v)])
                /\ UNCHANGED ideDisk
           ELSE /\ ideJob' = Noted(t, moved)
                /\ ideDisk' = IF ideDev.cmd = "write"
                              THEN [ideDisk EXCEPT ![ideDev.drive][ideDev.lba] = TaskWrites[t]] ELSE ideDisk
  /\ UNCHANGED <<ideReg, ideCalls>>

(* an error, or no DRQ in time; the sectors before it have been moved      *)
IdeSectorFails(t) ==
  /\ ideJob[t].phase = "data"
  /\ ideJob' = Noted(t, [ideJob[t] EXCEPT !.phase = "failed"])
  /\ UNCHANGED <<ideReg, ideDev, ideDisk, ideCalls>>

(* the cache is flushed, and whether it could be is not looked at          *)
IdeFlush(t) ==
  /\ ideJob[t].phase = "flush"
  /\ ideDev' = NoCommand
  /\ ideJob' = Noted(t, [ideJob[t] EXCEPT !.phase = "ok"])
  /\ UNCHANGED <<ideReg, ideDisk, ideCalls>>

IdeNext ==
  \E t \in IdeTasks :
    \/ IdeCommand(t) \/ IdeSector(t) \/ IdeSectorFails(t) \/ IdeFlush(t)
    \/ \E op \in {"read", "write"}, d \in IdeDrives, l \in Lbas, n \in 1 .. 2 : IdeCall(t, op, d, l, n)

(* A call that nothing overlapped and that says it succeeded has moved its *)
(* own sectors, all of them, between its buffer and its drive.             *)
IdeTrue ==
  \A t \in IdeTasks :
    LET job == ideJob[t]
    IN (job.phase = "ok" /\ job.alone) =>
         IF job.op = "read" THEN job.got = [i \in 1 .. job.count |-> ideDisk[job.drive][job.lba + i - 1]]
         ELSE \A i \in 0 .. job.count - 1 : ideDisk[job.drive][job.lba + i] = TaskWrites[t]

-----------------------------------------------------------------------------
(* partition_read.  A disk is [signed, types, gpt, entries, esize]: an     *)
(* entry is TRUE when its type GUID is not zero, a type "gpt", "empty" or  *)
(* another.                                                                *)

PartInit == \E d \in PartDisks : partJob = [disk |-> d, phase |-> "mbr", isGpt |-> FALSE, parts |-> <<>>]

(* the places in ascending order, as the loops over the entries fill parts *)
Ascending(s) == \A i, j \in DOMAIN s : i < j => s[i] < s[j]
Nonempty(places) == CHOOSE s \in [1 .. Cardinality(places) -> places] : Range(s) = places /\ Ascending(s)
Ends(phase) == partJob' = [partJob EXCEPT !.phase = phase]

(* sector 0: no signature, a protective entry, or the four entries         *)
PartMbr ==
  /\ partJob.phase = "mbr"
  /\ LET types == partJob.disk.types
     IN IF ~partJob.disk.signed THEN Ends("failed")
        ELSE IF "gpt" \in Range(types) THEN partJob' = [partJob EXCEPT !.isGpt = TRUE, !.phase = "header"]
        ELSE partJob' = [partJob EXCEPT !.parts = Nonempty({i \in DOMAIN types : types[i] # "empty"}), !.phase = "ok"]

PartHeader == partJob.phase = "header" /\ Ends(IF partJob.disk.gpt THEN "entries" ELSE "failed")

(* the entries that are looked at, and those of them in the sectors read   *)
MaxEntries == Min({Len(partJob.disk.entries), PART_MAX})
SectorsNeeded == Min({(MaxEntries * partJob.disk.esize + ENTRYSECTOR - 1) \div ENTRYSECTOR, ENTRYSECTORS})
InBuffer == Min({MaxEntries, (SectorsNeeded * ENTRYSECTOR) \div partJob.disk.esize})

(* an entry behind the buffer is whatever the heap has there               *)
PartEntries ==
  /\ partJob.phase = "entries"
  /\ \E beyond \in [InBuffer + 1 .. MaxEntries -> BOOLEAN] :
       LET seen == [i \in 1 .. MaxEntries |-> IF i <= InBuffer THEN partJob.disk.entries[i] ELSE beyond[i]]
       IN partJob' = [partJob EXCEPT !.parts = Nonempty({i \in DOMAIN seen : seen[i]}), !.phase = "ok"]

PartFails == partJob.phase \in {"mbr", "header", "entries"} /\ Ends("failed")

PartNext == PartMbr \/ PartHeader \/ PartEntries \/ PartFails

(* The table has the disk's partitions in order, of the kind the first     *)
(* sector announces and never more than fit, where all entries looked at   *)
(* fit the sectors that are read.                                          *)
PartTrue ==
  partJob.phase = "ok" =>
    /\ partJob.isGpt <=> \E i \in 1 .. 4 : partJob.disk.types[i] = "gpt"
    /\ Len(partJob.parts) <= PART_MAX
    /\ MaxEntries * partJob.disk.esize <= ENTRYSECTORS * ENTRYSECTOR =>
         Range(partJob.parts) =
           IF partJob.isGpt THEN {i \in 1 .. Len(partJob.disk.entries) : i <= PART_MAX /\ partJob.disk.entries[i]}
           ELSE {i \in 1 .. 4 : partJob.disk.types[i] # "empty"}
    /\ \A i \in 1 .. Len(partJob.parts) - 1 : partJob.parts[i] < partJob.parts[i + 1]

-----------------------------------------------------------------------------
(* NVMe: two rings a queue, filled and emptied by the driver and the       *)
(* controller; an entry of the completion ring is new when its phase bit   *)
(* is the expected one.  The identifier in the answer is never compared.   *)
(* Commands are numbered in the order of their submission.                 *)

Ring == 0 .. QSIZE - 1
NvQueue == [sq |-> [i \in Ring |-> 0], tail |-> 0, fetched |-> 0,
            cq |-> [i \in Ring |-> [phase |-> 0, of |-> 0]], head |-> 0, phase |-> 1, posted |-> 0, bit |-> 1,
            sent |-> 0, waits |-> FALSE, taken |-> <<>>, timeouts |-> 0, overrun |-> FALSE]
NvInit == nv = [stage |-> "off", admin |-> NvQueue, io |-> NvQueue]

Step(i) == (i + 1) % QSIZE

(* nvme_init up to the queues; that the controller never gets ready is not *)
(* noticed: the counter is below zero when the loop ends by it             *)
NvStart == nv.stage = "off" /\ nv' = [nv EXCEPT !.stage = "create_cq"]

(* nvme_admin_submit and nvme_io_submit put the command into the ring; no  *)
(* look at whether there is room                                           *)
NvSubmit(name) ==
  LET q == nv[name] IN
  /\ ~q.waits /\ q.sent < MaxCommands
  /\ nv' = [nv EXCEPT ![name] = [q EXCEPT !.sq[q.tail] = q.sent + 1, !.tail = Step(@), !.sent = @ + 1,
                                          !.waits = TRUE, !.overrun = @ \/ Step(q.tail) = q.fetched]]

(* the commands of nvme_init, one a stage; nvme_read and nvme_write, which *)
(* need nvme_ok                                                            *)
NvInitCommand == nv.stage \notin {"off", "failed", "ready"} /\ NvSubmit("admin")
NvTransfer    == nv.stage = "ready" /\ NvSubmit("io")

(* the controller: in order, while it knows of room for the answer         *)
NvComplete(name) ==
  LET q == nv[name] IN
  /\ q.fetched # q.tail /\ Step(q.posted) # q.head
  /\ nv' = [nv EXCEPT ![name] = [q EXCEPT !.cq[q.posted] = [phase |-> q.bit, of |-> q.sq[q.fetched]],
                                          !.fetched = Step(@), !.posted = Step(@),
                                          !.bit = IF Step(q.posted) = 0 THEN 1 - @ ELSE @]]

(* what nvme_init does next after an answer or a timeout; the two identify *)
(* commands may fail                                                       *)
NextStage(ok) ==
  CASE nv.stage = "create_cq" -> IF ok THEN "create_sq" ELSE "failed"
    [] nv.stage = "create_sq" -> IF ok THEN "controller" ELSE "failed"
    [] nv.stage = "controller" -> "namespace"
    [] OTHER -> "ready"

(* the loop that waits for the phase bit, and its end                      *)
NvTake(name) ==
  LET q == nv[name] IN
  /\ q.waits /\ q.cq[q.head].phase = q.phase
  /\ \E ok \in BOOLEAN :
       nv' = [nv EXCEPT !.stage = NextStage(ok),
                        ![name] = [q EXCEPT !.waits = FALSE, !.head = Step(@),
                                            !.taken = Append(@, [asked |-> q.sent, of |-> q.cq[q.head].of]),
                                            !.phase = IF Step(q.head) = 0 THEN 1 - @ ELSE @]]

NvTimeout(name) ==
  LET q == nv[name] IN
  /\ q.waits /\ q.cq[q.head].phase # q.phase
  /\ nv' = [nv EXCEPT !.stage = NextStage(FALSE), ![name] = [q EXCEPT !.waits = FALSE, !.timeouts = @ + 1]]

NvNext ==
  \/ NvStart \/ NvInitCommand \/ NvTransfer
  \/ \E name \in {"admin", "io"} : NvTake(name) \/ NvTimeout(name) \/ NvComplete(name)

(* Every answer is taken once and in order over any number of rounds of    *)
(* the rings, unless so many commands timed out that they filled the ring: *)
(* the answer a command takes is its own while none before it has timed    *)
(* out, and from then on that of an earlier one.                           *)
NvTrue ==
  \A name \in {"admin", "io"} :
    LET q == nv[name]
    IN ~q.overrun =>
         /\ \A k \in DOMAIN q.taken : q.taken[k].of = k /\ q.taken[k].asked >= k
         /\ q.timeouts = 0 => \A k \in DOMAIN q.taken : q.taken[k].asked = q.taken[k].of
         /\ q.sent = Len(q.taken) + q.timeouts + (IF q.waits THEN 1 ELSE 0)

-----------------------------------------------------------------------------
DriveSides == {"ide", "partitions", "nvme"}

DriveTypeOK ==
  /\ ideReg.drive \in IdeDrives /\ ideReg.lba \in Lbas /\ ideDev.lba \in Lbas
  /\ \A t \in IdeTasks : ideJob[t].s <= ideJob[t].count
  /\ partJob.disk \in PartDisks /\ partJob.phase \in {"mbr", "header", "entries", "ok", "failed"}
  /\ \A name \in {"admin", "io"} : nv[name].tail \in Ring /\ nv[name].head \in Ring

=============================================================================
