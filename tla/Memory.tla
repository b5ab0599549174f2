------------------------------- MODULE Memory -------------------------------
(***************************************************************************)
(* What the kernel keeps in memory and on disks, beside the page allocator *)
(* (Pmm.tla).  In memory: the heap, the cache of the areas of processes,   *)
(* swapping, and the tables of Unix sockets and environment variables.     *)
(* Files: the file system layer with the file systems in memory, those on  *)
(* disks, the drivers of the disks, and programs loaded from files.  And   *)
(* the two tools that change the kernel's own code and halt it.  What one  *)
(* takes from another (memory, a sector) is given or refused at will in    *)
(* its own module, so that they share no state and a behaviour is one of   *)
(* one of them.                                                            *)
(***************************************************************************)
EXTENDS KHeap, Process, Swap, UnixSock, Env, Vfs, Fat32, Ext2, Iso9660, Drives, Exe, Debug

VARIABLE side  \* which of them this behaviour is about

memoryVars == <<heapVars, leakVars, procVars, sigVars, swapVars, sockVars, envVars>>
fileVars   == <<vfsVars, fatVars, extVars, isoVars, driveVars, exeVars, elfVars>>
debugVars  == <<probeVars, gdbVars>>
vars       == <<side, memoryVars, fileVars, debugVars>>

MemorySides == {"heap", "leaks", "areas", "signals", "swap", "sockets", "environment"}
FileSides   == {"files", "fat32", "ext2", "iso9660", "images", "programs"} \cup DriveSides
DebugSides  == {"probes", "debugger"}
Sides       == MemorySides \cup FileSides \cup DebugSides

(* what a side starts from is chosen only where it is about that side      *)
Init ==
  /\ side \in Sides
  /\ HeapInit /\ LeakInit /\ ProcInit /\ SigInit /\ SwapInit /\ SockInit /\ EnvInit
  /\ side # "swap" => pte = CHOOSE p \in [Pages -> FrameSet] : IsInjective(p)
  /\ VfsInit /\ ExtInit /\ IdeInit /\ NvInit /\ PagingInit /\ ProbeInit /\ GdbInit
  /\ FatInit  /\ (side # "fat32" => fatVol = CHOOSE v \in FatVolumes : TRUE)
  /\ IsoInit  /\ (side # "iso9660" => isoVol = CHOOSE v \in IsoVolumes : TRUE)
  /\ PartInit /\ (side # "partitions" => partJob.disk = CHOOSE d \in PartDisks : TRUE)
  /\ ExeInit  /\ (side # "images" => archive = CHOOSE a \in Archives : TRUE)

MemoryNext ==
  \/ side = "heap" /\ HeapNext
     /\ UNCHANGED <<leakVars, procVars, sigVars, swapVars, sockVars, envVars>>
  \/ side = "areas" /\ ProcNext
     /\ UNCHANGED <<leakVars, heapVars, sigVars, swapVars, sockVars, envVars>>
  \/ side = "signals" /\ SigNext
     /\ UNCHANGED <<leakVars, heapVars, procVars, swapVars, sockVars, envVars>>
  \/ side = "swap" /\ SwapNext
     /\ UNCHANGED <<leakVars, heapVars, procVars, sigVars, sockVars, envVars>>
  \/ side = "sockets" /\ SockNext
     /\ UNCHANGED <<leakVars, heapVars, procVars, sigVars, swapVars, envVars>>
  \/ side = "environment" /\ EnvNext
     /\ UNCHANGED <<leakVars, heapVars, procVars, sigVars, swapVars, sockVars>>
  \/ side = "leaks" /\ LeakNext
     /\ UNCHANGED <<heapVars, procVars, sigVars, swapVars, sockVars, envVars>>

FilesNext ==
  \/ side = "files" /\ VfsNext /\ UNCHANGED <<fatVars, extVars, isoVars, driveVars, exeVars, elfVars>>
  \/ side = "fat32" /\ FatNext /\ UNCHANGED <<vfsVars, extVars, isoVars, driveVars, exeVars, elfVars>>
  \/ side = "ext2" /\ ExtNext /\ UNCHANGED <<vfsVars, fatVars, isoVars, driveVars, exeVars, elfVars>>
  \/ side = "iso9660" /\ IsoNext /\ UNCHANGED <<vfsVars, fatVars, extVars, driveVars, exeVars, elfVars>>
  \/ side = "ide" /\ IdeNext /\ UNCHANGED <<vfsVars, fatVars, extVars, isoVars, partJob, nv, exeVars, elfVars>>
  \/ side = "partitions" /\ PartNext /\ UNCHANGED <<vfsVars, fatVars, extVars, isoVars, ideVars, nv, exeVars, elfVars>>
  \/ side = "nvme" /\ NvNext /\ UNCHANGED <<vfsVars, fatVars, extVars, isoVars, ideVars, partJob, exeVars, elfVars>>
  \/ side = "images" /\ ExeNext /\ UNCHANGED <<vfsVars, fatVars, extVars, isoVars, driveVars, elfVars>>
  \/ side = "programs" /\ ElfNext /\ UNCHANGED <<vfsVars, fatVars, extVars, isoVars, driveVars, exeVars>>

DebugNext ==
  \/ side = "probes" /\ ProbeNext /\ UNCHANGED gdbVars
  \/ side = "debugger" /\ GdbNext /\ UNCHANGED probeVars

Next ==
  /\ UNCHANGED side
  /\ \/ MemoryNext /\ UNCHANGED <<fileVars, debugVars>>
     \/ FilesNext /\ UNCHANGED <<memoryVars, debugVars>>
     \/ DebugNext /\ UNCHANGED <<memoryVars, fileVars>>

Spec == Init /\ [][Next]_vars

-----------------------------------------------------------------------------
(* The types of all of them: heap_brk stays below KHEAP_MAX, a socket's    *)
(* ring within its buffer, the tables within their sizes.                  *)
TypeOK ==
  /\ side \in Sides
  /\ side = "heap" => HeapTypeOK
  /\ side = "areas" => ProcTypeOK
  /\ side = "signals" => SigTypeOK
  /\ side = "swap" => SwapTypeOK
  /\ side = "sockets" => SockTypeOK
  /\ side = "environment" => EnvTypeOK
  /\ side = "files" => VfsTypeOK
  /\ side = "fat32" => FatTypeOK
  /\ side = "ext2" => ExtTypeOK
  /\ side = "iso9660" => IsoTypeOK
  /\ side \in DriveSides => DriveTypeOK
  /\ side = "images" => ExeTypeOK
  /\ side = "programs" => ElfTypeOK
  /\ side = "probes" => ProbeTypeOK
  /\ side = "debugger" => GdbTypeOK

(* The process table keeps its books: on the areas, object by object, and  *)
(* on what became of a process that signals end, stop and continue.        *)
ProcessesTrue == ObjectsOwned /\ EndsOnce

(* What was put into a socket or a variable comes out of it: whole         *)
(* messages at the peer, the value that was last set.  And what is in a    *)
(* file comes out of it: a listed name is found and leads to its entry, a  *)
(* read gives the file's bytes from its offset on and fewer only when the  *)
(* disk failed, a driver's answer is the one to the call, and a program in *)
(* memory is the one in its file.  The code under a probe is kept, and a   *)
(* debugger's commands are those that are run.                             *)
StoredIsFound ==
  /\ side = "sockets" => MessagesWhole
  /\ side = "environment" => LastSetWins
  /\ side = "leaks" => LeaksListed
  /\ side = "files" => ListedIsFound /\ OpenIsEntry /\ RamKept
  /\ side = "fat32" => FatTrue
  /\ side = "ext2" => ExtTrue
  /\ side = "iso9660" => IsoTrue
  /\ side \in DriveSides => IdeTrue /\ PartTrue /\ NvTrue
  /\ side = "images" => ImageTrue /\ InitrdTrue
  /\ side = "programs" => TranslationTrue /\ ElfTrue
  /\ side \in DebugSides => ProbesTrue /\ GdbTrue

=============================================================================
