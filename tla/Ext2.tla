-------------------------------- MODULE Ext2 --------------------------------
(***************************************************************************)
(* Reading an ext2 volume, src/kernal/fs/ext2.c: the table of mounts, a    *)
(* file's blocks through direct and indirect pointers, and the directories *)
(* of which only the direct blocks are searched.  Each step stands for the *)
(* disk accesses of one inode or block; they fail together.                *)
(*                                                                         *)
(* Everything is read from drive 0 at offsets from the start of the drive. *)
(* A pointer of 0 is not taken as a hole: block 0 is read.  An offset has  *)
(* 32 bits, of which OFFSETS stands for the range.                         *)
(***************************************************************************)
EXTENDS Integers, FiniteSets, SequencesExt

CONSTANTS
  ExtSlots,    \* EXT2_MAX_MOUNTS
  ExtVolume,   \* what is on the drive: [magic, inodes, pointers, entries]
  BLOCK,       \* block_size
  DIRECT,      \* the direct pointers of an inode, 12
  PTRS,        \* pointers in a block
  OFFSETS,     \* 2^32
  ExtReads,    \* the reads that are tried: [at, len]
  ExtNames     \* the names that are looked for

(* what is used of the superblock, an inode and an entry of a directory    *)
Superblock(v)  == v.magic \in BOOLEAN /\ BLOCK \in Nat \ {0} /\ DOMAIN v.inodes \subseteq Nat \ {0}
InodeRecord(i) == i.dir \in BOOLEAN /\ i.size \in Nat /\ i.ptr \in Seq(Nat) /\ Len(i.ptr) = DIRECT + 2
DirRecord(e)   == e.inode \in {0} \cup DOMAIN ExtVolume.inodes

(* ext2_read_inode_block: the block a pointer leads to, -1 beyond those    *)
Pointer(block, i) == ExtVolume.pointers[block][i + 1]
RealBlock(inode, k) ==
  IF k < DIRECT THEN inode.ptr[k + 1]
  ELSE IF k < DIRECT + PTRS THEN Pointer(inode.ptr[DIRECT + 1], k - DIRECT)
  ELSE IF k < DIRECT + PTRS + PTRS * PTRS
  THEN LET rel == k - DIRECT - PTRS
       IN Pointer(Pointer(inode.ptr[DIRECT + 2], rel \div PTRS), rel % PTRS)
  ELSE -1

(* Up to its size a file is recorded, at offsets of 32 bits as far as the  *)
(* pointers reach; behind a directory's first free pointer is no block.    *)
OnDrive(inode) ==
  \A at \in 0 .. inode.size - 1 :
    RealBlock(inode, at \div BLOCK) = -1 \/
      /\ RealBlock(inode, at \div BLOCK) \in Nat
      /\ (RealBlock(inode, at \div BLOCK) + 1) * BLOCK <= OFFSETS
Directory(inode) ==
  \A k \in 1 .. DIRECT : IF inode.ptr[k] = 0 THEN \A m \in k .. DIRECT : inode.ptr[m] = 0
                         ELSE inode.ptr[k] \in DOMAIN ExtVolume.entries

ASSUME ExtAssumption ==
  /\ Superblock(ExtVolume) /\ DIRECT \in Nat \ {0} /\ PTRS \in Nat \ {0} /\ OFFSETS \in Nat
  /\ \A n \in DOMAIN ExtVolume.inodes : LET inode == ExtVolume.inodes[n]
       IN InodeRecord(inode) /\ OnDrive(inode) /\ (inode.dir => Directory(inode))
  /\ \A b \in DOMAIN ExtVolume.entries :
       /\ ExtVolume.entries[b] \in Seq(Range(ExtVolume.entries[b]))
       /\ \A e \in Range(ExtVolume.entries[b]) : DirRecord(e)
  /\ \A r \in ExtReads : r.at \in Nat /\ r.len \in Nat

VARIABLES
  mounts,   \* mounts: [used, bgdt], bgdt whether the descriptor table is on the heap
  extJob    \* the call that is running, or the last one

extVars == <<mounts, extJob>>

ExtIdle == [phase |-> "idle", op |-> "none", ino |-> 0, from |-> 0, len |-> 0, ask |-> "",
            slot |-> 0, bi |-> 0, child |-> 0, got |-> <<>>, seen |-> 0, failed |-> FALSE]

ExtSlotIds == 1 .. ExtSlots
Inodes     == DOMAIN ExtVolume.inodes
Inode      == ExtVolume.inodes[extJob.ino]

ExtTypeOK ==
  /\ mounts \in [ExtSlotIds -> [used : BOOLEAN, bgdt : BOOLEAN]]
  /\ extJob.phase \in {"idle", "root", "inode", "block", "child", "done"}
  /\ extJob.ino \in Inodes \cup {0} /\ extJob.bi \in 0 .. DIRECT
  /\ extJob.op = "read" => Len(extJob.got) <= extJob.len

ExtInit == mounts = [i \in ExtSlotIds |-> [used |-> FALSE, bgdt |-> FALSE]] /\ extJob = ExtIdle

-----------------------------------------------------------------------------
(* ext2_vfs_mount: the superblock has the magic and the descriptor table   *)
(* could be read into the first free slot, which is in use from here on    *)
ExtMount ==
  /\ ExtVolume.magic /\ extJob.phase \in {"idle", "done"}
  /\ \E i \in ExtSlotIds :
       /\ ~mounts[i].used /\ \A j \in 1 .. i - 1 : mounts[j].used
       /\ mounts' = [mounts EXCEPT ![i] = [used |-> TRUE, bgdt |-> TRUE]]
       /\ extJob' = [ExtIdle EXCEPT !.phase = "root", !.slot = i]

ExtRoot ==
  /\ extJob.phase = "root"
  /\ extJob' = ExtIdle
  /\ UNCHANGED mounts

(* the root inode cannot be read or its node not be made: all is undone    *)
ExtRootFails ==
  /\ extJob.phase = "root"
  /\ mounts' = [mounts EXCEPT ![extJob.slot] = [used |-> FALSE, bgdt |-> FALSE]]
  /\ extJob' = ExtIdle

(* ext2_vfs_unmount; vfs_umount never calls it                             *)
ExtUnmount ==
  \E i \in ExtSlotIds :
    /\ mounts[i].used /\ extJob.phase \in {"idle", "done"}
    /\ mounts' = [mounts EXCEPT ![i] = [used |-> FALSE, bgdt |-> FALSE]]
    /\ UNCHANGED extJob

-----------------------------------------------------------------------------
(* ext2_read_block: the sector offset at which a block is read             *)
BlockAt(nr) == (nr * BLOCK) % OFFSETS

ExtBegin(op, ino, from, len, ask) ==
  /\ \E i \in ExtSlotIds : mounts[i].used
  /\ extJob.phase \in {"idle", "done"}
  /\ extJob' = [ExtIdle EXCEPT !.phase = "inode", !.op = op, !.ino = ino, !.from = from, !.len = len, !.ask = ask]
  /\ UNCHANGED mounts

(* ext2_read_inode for the node; readdir asks whether it is a directory    *)
ExtInode ==
  /\ extJob.phase = "inode"
  /\ LET clipped == IF extJob.from >= Inode.size THEN 0
                    ELSE IF extJob.from + extJob.len > Inode.size THEN Inode.size - extJob.from ELSE extJob.len
         nothing == IF extJob.op = "read" THEN clipped = 0
                    ELSE (extJob.op = "list" /\ ~Inode.dir) \/ Inode.ptr[1] = 0
     IN extJob' = [extJob EXCEPT !.len = IF extJob.op = "read" THEN clipped ELSE 0,
                                 !.phase = IF nothing THEN "done" ELSE "block"]
  /\ UNCHANGED mounts

(* ext2_vfs_read: what the block has of what is still to be read           *)
ExtReadBlock ==
  /\ extJob.phase = "block" /\ extJob.op = "read"
  /\ LET off == extJob.from + Len(extJob.got)
         real == RealBlock(Inode, off \div BLOCK)
         count == Min({BLOCK - (off % BLOCK), extJob.len - Len(extJob.got)})
         bytes == [i \in 1 .. count |-> BlockAt(real) + (off % BLOCK) + i - 1]
     IN /\ real # -1
        /\ extJob' = [extJob EXCEPT !.got = @ \o bytes,
                        !.phase = IF Len(extJob.got) + count = extJob.len THEN "done" ELSE "block"]
  /\ UNCHANGED mounts

(* an inode or a block cannot be read, or lies behind the double indirect  *)
ExtFails ==
  /\ extJob.phase \in {"inode", "block"}
  /\ extJob' = [extJob EXCEPT !.phase = "done", !.failed = TRUE]
  /\ UNCHANGED mounts

(* the next block of a directory, if there is one                          *)
NextBlock(job) == [job EXCEPT !.bi = @ + 1,
  !.phase = IF job.bi + 1 = DIRECT \/ Inode.ptr[job.bi + 2] = 0 THEN "done" ELSE "block"]

(* the entries of a block of a directory whose inode is not 0              *)
Used(block) == {i \in DOMAIN ExtVolume.entries[block] : ExtVolume.entries[block][i].inode # 0}

ExtScan ==
  /\ extJob.phase = "block" /\ extJob.op \in {"list", "find"}
  /\ LET here == ExtVolume.entries[Inode.ptr[extJob.bi + 1]]
         used == Used(Inode.ptr[extJob.bi + 1])
         hits == {i \in used : IF extJob.op = "list" THEN extJob.seen + Cardinality({j \in used : j < i}) = extJob.from
                               ELSE here[i].name = extJob.ask}
     IN extJob' = IF hits = {} THEN NextBlock([extJob EXCEPT !.seen = @ + Cardinality(used)])
                  ELSE IF extJob.op = "list" THEN [extJob EXCEPT !.got = <<here[Min(hits)]>>, !.phase = "done"]
                  ELSE [extJob EXCEPT !.child = here[Min(hits)].inode, !.phase = "child"]
  /\ UNCHANGED mounts

(* the found entry's inode; when it cannot be read the search leaves the   *)
(* block and goes on with the next                                         *)
ExtChild ==
  /\ extJob.phase = "child"
  /\ extJob' = [extJob EXCEPT !.got = <<[name |-> extJob.ask, inode |-> extJob.child]>>, !.phase = "done"]
  /\ UNCHANGED mounts

ExtChildFails ==
  /\ extJob.phase = "child"
  /\ extJob' = NextBlock([extJob EXCEPT !.failed = TRUE, !.child = 0])
  /\ UNCHANGED mounts

ExtNext ==
  \/ ExtMount \/ ExtRoot \/ ExtRootFails \/ ExtUnmount
  \/ ExtInode \/ ExtReadBlock \/ ExtFails \/ ExtScan \/ ExtChild \/ ExtChildFails
  \/ \E ino \in Inodes : \/ \E r \in ExtReads : ExtBegin("read", ino, r.at, r.len, "")
                         \/ \E index \in 0 .. 3 : ExtBegin("list", ino, index, 0, "")
                         \/ \E name \in ExtNames : ExtBegin("find", ino, 0, 0, name)

-----------------------------------------------------------------------------
(* What the format says of the order of a file's blocks: the direct ones,  *)
(* those of the indirect block, and those of each block of the double one. *)
Leaves == ({0} \X (1 .. DIRECT)) \cup ((1 .. PTRS + 1) \X (1 .. PTRS))
Leaf(inode, p) ==
  CASE p[1] = 0 -> inode.ptr[p[2]]
    [] p[1] = 1 -> ExtVolume.pointers[inode.ptr[DIRECT + 1]][p[2]]
    [] OTHER    -> ExtVolume.pointers[ExtVolume.pointers[inode.ptr[DIRECT + 2]][p[1] - 1]][p[2]]

(* the entries of a directory by block and place in it                     *)
Entered(inode) ==
  UNION {{<<k, i>> : i \in Used(inode.ptr[k + 1])} : k \in {k \in 0 .. DIRECT - 1 : inode.ptr[k + 1] # 0}}
Entry(inode, p) == ExtVolume.entries[inode.ptr[p[1] + 1]][p[2]]

Ahead(places, p) == {q \in places : q[1] < p[1] \/ (q[1] = p[1] /\ q[2] < p[2])}

(* A read gives the bytes of the file's blocks, fewer only when the disk   *)
(* failed; listing and finding agree with the entries of the directory;    *)
(* the descriptor tables on the heap are those of the mounts in use.  It   *)
(* is so on drives whose every offset has 32 bits.                         *)
ExtTrue ==
  /\ \A i \in ExtSlotIds : mounts[i].used <=> mounts[i].bgdt
  /\ extJob.phase = "done" =>
       LET file == ExtVolume.inodes[extJob.ino]
           entries == Entered(file)
       IN CASE extJob.op = "read" ->
                 /\ \A i \in DOMAIN extJob.got :
                      LET at == extJob.from + i - 1
                      IN \E p \in Leaves : /\ Cardinality(Ahead(Leaves, p)) = at \div BLOCK
                                           /\ extJob.got[i] = Leaf(file, p) * BLOCK + (at % BLOCK)
                 /\ Len(extJob.got) = extJob.len \/ extJob.failed
            [] extJob.op = "list" /\ file.dir ->
                 IF extJob.got # <<>>
                 THEN \E p \in entries :
                        extJob.got = <<Entry(file, p)>> /\ Cardinality(Ahead(entries, p)) = extJob.from
                 ELSE extJob.failed \/ extJob.from >= Cardinality(entries)
            [] extJob.op = "find" /\ file.dir ->
                 LET same == {p \in entries : Entry(file, p).name = extJob.ask}
                 IN IF extJob.got # <<>>
                    THEN \E p \in same : /\ extJob.got[1].inode = Entry(file, p).inode
                                         /\ extJob.failed \/ Ahead(same, p) = {}
                    ELSE extJob.failed \/ same = {}
            [] OTHER -> TRUE

=============================================================================
