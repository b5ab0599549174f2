-------------------------------- MODULE Vfs --------------------------------
(***************************************************************************)
(* The file system layer of src/kernal/fs/vfs.c with the file systems that *)
(* live in memory: ramfs.c (a tree of nodes on the heap) and the tables of *)
(* devfs.c, procfs.c and sysfs.c.  A path is a sequence of characters and  *)
(* is resolved as the code does it: the mount point whose characters begin *)
(* it and are most, then piece by piece between slashes.                   *)
(*                                                                         *)
(* A table's node knows its entry or its name; it is allocated anew by     *)
(* every lookup and belongs to no table, so it is a value here.  Nothing   *)
(* in the kernel calls mkdir or unlink of ramfs yet; they are modelled as  *)
(* the interface offers them, unlink for nodes that are not open or used.  *)
(***************************************************************************)
EXTENDS Integers, FiniteSets, SequencesExt

CONSTANTS
  MountSlots,  \* VFS_MAX_MOUNTS
  MountPaths,  \* where file systems are mounted, sequences of characters
  BootOrder,   \* the file systems kernel_main registers, in its order
  EntrySlots,  \* DEVFS_MAX_DEVICES, SYSFS_ENTRIES_MAX
  Entries,     \* the names a table file system has at first
  NewNames,    \* names that are registered or made later
  RamIds,      \* where on the heap a ramfs node can be
  RAMBLOCK, RAMMAX, \* RAMFS_BLOCK_SIZE, RAMFS_MAX_SIZE
  RamWrites,   \* the writes that are tried: [at, len]
  Users

(* What has a name has one that is not empty.                              *)
ASSUME VfsAssumption ==
  /\ MountSlots \in Nat \ {0} /\ EntrySlots \in Nat \ {0}
  /\ BootOrder \in Seq(Range(BootOrder)) /\ DOMAIN Entries = {"devfs", "procfs", "sysfs"}
  /\ \A f \in DOMAIN Entries : Entries[f] \in Seq(Range(Entries[f])) /\ Len(Entries[f]) <= EntrySlots
  /\ \A n \in NewNames \cup UNION {Range(Entries[f]) : f \in DOMAIN Entries} : n \in Seq(Range(n)) /\ n # <<>>
  /\ \A p \in MountPaths : p \in Seq(Range(p))
  /\ RAMBLOCK \in Nat \ {0} /\ RAMMAX \in Nat /\ RAMMAX % RAMBLOCK = 0
  /\ \A w \in RamWrites : w.at \in Nat /\ w.len \in Nat
  /\ IsFiniteSet(Users)

VARIABLES
  mountTable, \* mount_table
  fsRegistry, \* fs_registry
  tables,     \* of a table file system: the names of its entries, <<>> where none
  ramNodes,   \* the ramfs nodes on the heap
  opened,     \* of a user: the node vfs_open gave it
  puts        \* ghost: of a ramfs node, at an offset: a byte was written there

vfsVars == <<mountTable, fsRegistry, tables, ramNodes, opened, puts>>

TableFs  == DOMAIN Entries
Offsets  == 0 .. RAMMAX - 1
NoNode   == [fs |-> "none", at |-> 0, name |-> <<>>]
NoRam    == [live |-> FALSE, name |-> <<>>, kids |-> <<>>, alloc |-> 0, size |-> 0, bytes |-> {}, refs |-> 0]
NewRam(name) == [NoRam EXCEPT !.live = TRUE, !.name = name]
NoMount  == [used |-> FALSE, path |-> <<>>, root |-> NoNode]
MountIds == 1 .. MountSlots

LiveRam == {i \in RamIds : ramNodes[i].live}

VfsTypeOK ==
  /\ \A i \in MountIds : mountTable[i].path \in MountPaths \cup {<<>>}
  /\ Len(fsRegistry) <= Len(BootOrder)
  /\ \A f \in TableFs : Len(tables[f]) = EntrySlots
  /\ \A i \in RamIds : ramNodes[i].size <= ramNodes[i].alloc /\ ramNodes[i].alloc <= RAMMAX
  /\ opened \in [Users -> {NoNode} \cup [fs : {"ramfs"} \cup TableFs, at : RamIds \cup (0 .. EntrySlots),
                                          name : {n : n \in UNION {Range(Entries[f]) : f \in TableFs}} \cup NewNames \cup {<<"/">>}]]
  /\ puts \in [RamIds -> SUBSET Offsets]

Padded(names) == [i \in 1 .. EntrySlots |-> IF i <= Len(names) THEN names[i] ELSE <<>>]

(* after devfs_init; the table of sysfs is filled by its mount             *)
VfsInit ==
  /\ mountTable = [i \in MountIds |-> NoMount]
  /\ fsRegistry = <<>>
  /\ tables = [f \in TableFs |-> Padded(IF f = "sysfs" THEN <<>> ELSE Entries[f])]
  /\ ramNodes = [i \in RamIds |-> NoRam]
  /\ opened = [u \in Users |-> NoNode]
  /\ puts = [i \in RamIds |-> {}]

-----------------------------------------------------------------------------
(* Looking up.                                                             *)

IndexOf(f, name) == {i \in 1 .. EntrySlots : tables[f][i] = name}

(* finddir.  The tables do not look at the node that is searched; a node   *)
(* of devfs or procfs leads to its entry, one of sysfs knows its name only *)
RamFindDir(node, name) ==
  LET kids == ramNodes[node.at].kids
      same == {j \in DOMAIN kids : ramNodes[kids[j]].name = name}
  IN IF same = {} THEN NoNode ELSE [fs |-> "ramfs", at |-> kids[Min(same)], name |-> name]

EntryNode(f, name) ==
  IF IndexOf(f, name) = {} THEN NoNode ELSE [fs |-> f, at |-> Min(IndexOf(f, name)), name |-> name]
DevFindDir(name)  == EntryNode("devfs", name)
ProcFindDir(name) == EntryNode("procfs", name)
SysFindDir(name)  == IF IndexOf("sysfs", name) = {} THEN NoNode ELSE [fs |-> "sysfs", at |-> 0, name |-> name]

FindDir(node, name) ==
  CASE node.fs = "ramfs"  -> RamFindDir(node, name)
    [] node.fs = "devfs"  -> DevFindDir(name)
    [] node.fs = "procfs" -> ProcFindDir(name)
    [] node.fs = "sysfs"  -> SysFindDir(name)

(* readdir with all its indices, without the "." and ".." of ramfs         *)
RamReadDir(node) == {ramNodes[kid].name : kid \in Range(ramNodes[node.at].kids)}
DevReadDir       == Range(tables["devfs"]) \ {<<>>}
ProcReadDir      == Range(tables["procfs"]) \ {<<>>}
SysReadDir       == Range(tables["sysfs"]) \ {<<>>}

ReadDir(node) ==
  CASE node.fs = "ramfs"  -> RamReadDir(node)
    [] node.fs = "devfs"  -> DevReadDir
    [] node.fs = "procfs" -> ProcReadDir
    [] node.fs = "sysfs"  -> SysReadDir

(* the entry whose callback a read or a write of an open node calls, by    *)
(* its place in the table; 0 for a root, and where there is none any more  *)
DevEntry(node)  == node.at
ProcEntry(node) == node.at
SysEntry(node)  == IF IndexOf("sysfs", node.name) = {} THEN 0 ELSE Min(IndexOf("sysfs", node.name))

EntryOf(node) ==
  CASE node.fs = "devfs" -> DevEntry(node) [] node.fs = "procfs" -> ProcEntry(node) [] node.fs = "sysfs" -> SysEntry(node)

(* the pieces of a path between its slashes; one that is empty, where      *)
(* slashes follow each other, is skipped                                   *)
OneMore(done, c) == IF c = "/" THEN Append(done, <<>>) ELSE [done EXCEPT ![Len(done)] = Append(@, c)]
Pieces(path)     == FoldLeft(OneMore, << <<>> >>, path)

Onward(node, piece) == IF node = NoNode \/ piece = <<>> THEN node ELSE FindDir(node, piece)

(* the mount points that begin a path, and the longest: the first of equals *)
Begin(path) == {i \in MountIds : mountTable[i].used /\ IsPrefix(mountTable[i].path, path)}
Best(path)  ==
  CHOOSE i \in Begin(path) : \A j \in Begin(path) :
    \/ Len(mountTable[j].path) < Len(mountTable[i].path)
    \/ Len(mountTable[j].path) = Len(mountTable[i].path) /\ i <= j

VfsLookup(path) ==
  IF Begin(path) = {} THEN NoNode
  ELSE FoldLeft(Onward, mountTable[Best(path)].root, Pieces(SubSeq(path, Len(mountTable[Best(path)].path) + 1, Len(path))))

-----------------------------------------------------------------------------
(* vfs_register_fs, as often as kernel_main calls it                       *)
VfsRegister ==
  /\ Len(fsRegistry) < Len(BootOrder)
  /\ fsRegistry' = Append(fsRegistry, BootOrder[Len(fsRegistry) + 1])
  /\ UNCHANGED <<mountTable, tables, ramNodes, opened, puts>>

(* the mount of each file system: it gives the root.  One of ramfs makes   *)
(* a node; one of sysfs fills the table anew, also when it then has no     *)
(* memory for the root and none is given.                                  *)
RamMount(root) ==
  \E i \in RamIds \ LiveRam :
    /\ root = [fs |-> "ramfs", at |-> i, name |-> <<"/">>]
    /\ ramNodes' = [ramNodes EXCEPT ![i] = NewRam(<<"/">>)]
    /\ puts' = [puts EXCEPT ![i] = {}]
    /\ UNCHANGED tables
DevMount(root)  == root = [fs |-> "devfs", at |-> 0, name |-> <<"/">>] /\ UNCHANGED <<tables, ramNodes, puts>>
ProcMount(root) == root = [fs |-> "procfs", at |-> 0, name |-> <<"/">>] /\ UNCHANGED <<tables, ramNodes, puts>>
SysMount(root)  ==
  /\ root \in {NoNode, [fs |-> "sysfs", at |-> 0, name |-> <<"/">>]}
  /\ tables' = [tables EXCEPT !["sysfs"] = Padded(Entries["sysfs"])]
  /\ UNCHANGED <<ramNodes, puts>>

Roots == {NoNode} \cup [fs : {"ramfs"}, at : RamIds, name : {<<"/">>}] \cup [fs : TableFs, at : {0}, name : {<<"/">>}]

(* vfs_mount: the first free slot gets the root                            *)
VfsMount(path, fs) ==
  /\ \E i \in MountIds : ~mountTable[i].used
  /\ fs \in Range(fsRegistry)
  /\ \E root \in Roots :
       /\ CASE fs = "ramfs"  -> RamMount(root)
            [] fs = "devfs"  -> DevMount(root)
            [] fs = "procfs" -> ProcMount(root)
            [] fs = "sysfs"  -> SysMount(root)
       /\ LET slot == Min({i \in MountIds : ~mountTable[i].used})
          IN mountTable' = IF root = NoNode THEN mountTable
                           ELSE [mountTable EXCEPT ![slot] = [used |-> TRUE, path |-> path, root |-> root]]
  /\ UNCHANGED <<fsRegistry, opened>>

(* vfs_umount: the first slot with this path; the root stays on the heap   *)
VfsUmount(path) ==
  \E i \in MountIds :
    /\ mountTable[i].used /\ mountTable[i].path = path
    /\ \A j \in 1 .. i - 1 : ~(mountTable[j].used /\ mountTable[j].path = path)
    /\ mountTable' = [mountTable EXCEPT ![i] = NoMount]
    /\ UNCHANGED <<fsRegistry, tables, ramNodes, opened, puts>>

(* ref_count of a node that a table's finddir made is read by nobody       *)
Referenced(node, by) ==
  IF node.fs = "ramfs" THEN [ramNodes EXCEPT ![node.at].refs = @ + by] ELSE ramNodes

VfsOpen(u, path) ==
  /\ opened[u] = NoNode /\ VfsLookup(path) # NoNode
  /\ opened' = [opened EXCEPT ![u] = VfsLookup(path)]
  /\ ramNodes' = Referenced(VfsLookup(path), 1)
  /\ UNCHANGED <<mountTable, fsRegistry, tables, puts>>

VfsClose(u) ==
  /\ opened[u] # NoNode
  /\ opened' = [opened EXCEPT ![u] = NoNode]
  /\ ramNodes' = IF opened[u].fs = "ramfs" /\ ramNodes[opened[u].at].refs > 0
                 THEN Referenced(opened[u], -1) ELSE ramNodes
  /\ UNCHANGED <<mountTable, fsRegistry, tables, puts>>

(* ramfs_write: the buffer grows by whole blocks, what it kept stays       *)
RamWrite(u, w) ==
  /\ opened[u].fs = "ramfs" /\ w.at + w.len <= RAMMAX
  /\ LET i == opened[u].at
         needed == w.at + w.len
         span == w.at .. needed - 1
         grown == IF needed > ramNodes[i].alloc
                  THEN RAMBLOCK * ((needed + RAMBLOCK - 1) \div RAMBLOCK) ELSE ramNodes[i].alloc
     IN /\ ramNodes' = [ramNodes EXCEPT ![i].alloc = grown, ![i].bytes = @ \cup span,
                                        ![i].size = Max({@, needed})]
        /\ puts' = [puts EXCEPT ![i] = @ \cup span]
  /\ UNCHANGED <<mountTable, fsRegistry, tables, opened>>

(* ramfs_read: the offsets whose bytes are copied                          *)
RamRead(node, at, len) ==
  IF ramNodes[node.at].alloc = 0 \/ at >= ramNodes[node.at].size THEN {}
  ELSE at .. at + Min({len, ramNodes[node.at].size - at}) - 1

-----------------------------------------------------------------------------
(* ramfs_mkdir: the new node is put in front of the others                 *)
RamMkdir(parent, name) ==
  /\ parent \in LiveRam
  /\ \E i \in RamIds \ LiveRam :
       /\ ramNodes' = [ramNodes EXCEPT ![i] = NewRam(name), ![parent].kids = <<i>> \o @]
       /\ puts' = [puts EXCEPT ![i] = {}]
  /\ UNCHANGED <<mountTable, fsRegistry, tables, opened>>

(* ramfs_unlink of an entry nobody uses; its children stay on the heap     *)
RamUnlink(parent, name) ==
  /\ parent \in LiveRam
  /\ LET kids == ramNodes[parent].kids
         same == {j \in DOMAIN kids : ramNodes[kids[j]].name = name}
     IN /\ same # {} /\ ramNodes[kids[Min(same)]].refs = 0
        /\ ramNodes' = [ramNodes EXCEPT ![kids[Min(same)]] = NoRam, ![parent].kids = RemoveAt(@, Min(same))]
        /\ puts' = [puts EXCEPT ![kids[Min(same)]] = {}]
  /\ UNCHANGED <<mountTable, fsRegistry, tables, opened>>

(* devfs_register, sysfs_register: the first free entry                    *)
InFirstFree(fs, name) ==
  /\ IndexOf(fs, <<>>) # {}
  /\ tables' = [tables EXCEPT ![fs][Min(IndexOf(fs, <<>>))] = name]
  /\ UNCHANGED <<mountTable, fsRegistry, ramNodes, opened, puts>>
DevRegister(name) == InFirstFree("devfs", name)
SysRegister(name) == InFirstFree("sysfs", name)

SysUnregister(name) ==
  /\ IndexOf("sysfs", name) # {}
  /\ tables' = [tables EXCEPT !["sysfs"][Min(IndexOf("sysfs", name))] = <<>>]
  /\ UNCHANGED <<mountTable, fsRegistry, ramNodes, opened, puts>>

-----------------------------------------------------------------------------
NamedPaths == MountPaths \cup {p \o <<"/">> \o n : p \in MountPaths, n \in NewNames}

VfsNext ==
  \/ VfsRegister
  \/ \E path \in MountPaths : VfsUmount(path) \/ \E f \in {"ramfs"} \cup TableFs : VfsMount(path, f)
  \/ \E u \in Users : VfsClose(u) \/ (\E p \in NamedPaths : VfsOpen(u, p)) \/ (\E w \in RamWrites : RamWrite(u, w))
  \/ \E i \in RamIds, n \in NewNames : RamMkdir(i, n) \/ RamUnlink(i, n)
  \/ \E n \in NewNames : DevRegister(n) \/ SysRegister(n) \/ SysUnregister(n)

-----------------------------------------------------------------------------
(* What a directory of a mount point lists is what its path finds, as the  *)
(* first entry of that name.  Two things hide an entry: a mount point that *)
(* begins its path (vfs_lookup compares characters, not pieces: "/dev"     *)
(* also takes "/devices"), and a slash in its name, which is never found   *)
(* although procfs lists "net/dev" and sysfs offers such names.            *)
ListedIsFound ==
  \A i \in MountIds : mountTable[i].used =>
    \A name \in ReadDir(mountTable[i].root) :
      LET path == mountTable[i].path \o <<"/">> \o name
      IN (Best(path) = i /\ "/" \notin Range(name)) =>
           LET found == VfsLookup(path)
           IN /\ found.name = name
              /\ found.fs = mountTable[i].root.fs
              /\ IF found.fs = "ramfs" THEN ramNodes[found.at].live /\ ramNodes[found.at].name = name
                 ELSE tables[found.fs][EntryOf(found)] = name

(* Reading or writing an open entry calls the callbacks of the entry that  *)
(* was opened, whatever was registered and unregistered since, or none.    *)
OpenIsEntry ==
  \A u \in Users : (opened[u] # NoNode /\ opened[u].fs # "ramfs" /\ EntryOf(opened[u]) # 0) =>
    tables[opened[u].fs][EntryOf(opened[u])] = opened[u].name

(* What was written to a ramfs node is read from it, and nobody frees a    *)
(* node that is open: its references are the users that have it.           *)
RamKept ==
  \A i \in LiveRam :
    /\ puts[i] \subseteq RamRead([fs |-> "ramfs", at |-> i], 0, RAMMAX) \cap ramNodes[i].bytes
    /\ ramNodes[i].refs = Cardinality({u \in Users : opened[u].fs = "ramfs" /\ opened[u].at = i})

=============================================================================
