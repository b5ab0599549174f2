------------------------------ MODULE MCMemory ------------------------------
EXTENDS Memory

(* the key "mm" is too long and is stored as "m"                           *)
MCCut == [k \in {"mm"} |-> "m"]

-----------------------------------------------------------------------------
(* Paths of characters: "/de" begins with "/d" but is not below it; the    *)
(* table of procfs has a name with a slash.                                *)
MCMountPaths == {<<"/">>, <<"/", "d">>}
MCBootOrder  == <<"ramfs", "devfs", "procfs", "sysfs">>
MCEntries    == [f \in {"devfs", "procfs", "sysfs"} |->
                   IF f = "procfs" THEN << <<"u">>, <<"n", "/", "d">> >> ELSE << <<"d">> >>]
MCNewNames   == {<<"d", "e">>}
MCRamWrites  == {[at |-> 1, len |-> 2]}

-----------------------------------------------------------------------------
(* A FAT32 volume: the root in clusters 2 and 3, a file of two clusters in *)
(* 5 and 4, a directory in 6; with sectors of the drive's size or twice    *)
(* it, and two that are refused.                                           *)
FatEntry(k, n, c, s) == [kind |-> k, name |-> n, first |-> c, size |-> s]
FatVolume(b) ==
  [bps |-> b, spc |-> 2, reserved |-> 1, fats |-> 2, fatSize |-> 1, root |-> 2,
   fat |-> [c \in 2 .. 6 |-> CASE c = 2 -> 3 [] c = 5 -> 4 [] OTHER -> 0],
   slots |-> [c \in {2, 3, 6} |->
     CASE c = 2 -> <<FatEntry("label", "a", 0, 0), FatEntry("dir", "d", 6, 0)>>
       [] c = 3 -> <<FatEntry("file", "abcdefgh.txt", 5, 3 * b + 1), FatEntry("end", "a", 0, 0)>>
       [] c = 6 -> <<FatEntry("deleted", "a", 0, 0), FatEntry("file", "a", 4, 1)>>]]
MCFatVolumes == {FatVolume(2), FatVolume(4), [FatVolume(2) EXCEPT !.fatSize = 0], [FatVolume(2) EXCEPT !.bps = 3]}
MCFatReads   == {[at |-> 0, len |-> 4], [at |-> 1, len |-> 6], [at |-> 5, len |-> 9]}
MCTwelve     == [n \in {"a", "d", "abcdefgh.txt", "abcdefgh.txtx", "z"} |->
                   IF n = "abcdefgh.txtx" THEN "abcdefgh.txt" ELSE n]

(* An ext2 volume: inode 2 is the root with two blocks, inode 3 a file of  *)
(* eight blocks through all kinds of pointers.                             *)
ExtEntry(n, i) == [name |-> n, inode |-> i]
MCExtVolume ==
  [magic |-> TRUE,
   inodes |-> [i \in {2, 3} |-> IF i = 2 THEN [dir |-> TRUE, size |-> 4, ptr |-> <<10, 11, 0, 0>>]
                                ELSE [dir |-> FALSE, size |-> 15, ptr |-> <<20, 21, 30, 31>>]],
   pointers |-> [b \in 30 .. 33 |-> CASE b = 30 -> <<22, 23>> [] b = 31 -> <<32, 33>>
                                      [] b = 32 -> <<24, 25>> [] b = 33 -> <<26, 27>>],
   entries |-> [b \in {10, 11, 20, 21} |->
     CASE b = 10 -> <<ExtEntry(".", 2), ExtEntry("a", 3), ExtEntry("x", 0)>>
       [] b = 11 -> <<ExtEntry("a", 2), ExtEntry("b", 3)>>
       [] OTHER  -> <<ExtEntry("a", 3)>>]]
MCExtReads == {[at |-> 0, len |-> 20], [at |-> 3, len |-> 4], [at |-> 9, len |-> 6]}

(* A disc: the root in sectors 20 and 21, a directory in 22, two versions  *)
(* of a file.                                                              *)
IsoRecord(n, d, l, s) == [name |-> n, dir |-> d, lba |-> l, size |-> s]
IsoDisc ==
  [magic |-> TRUE, lba |-> 20, size |-> 4,
   records |-> [s \in 20 .. 22 |->
     CASE s = 20 -> <<IsoRecord("\\0", TRUE, 20, 4), IsoRecord("\\1", TRUE, 20, 4),
                      IsoRecord("A;2", FALSE, 30, 5), IsoRecord("A;1", FALSE, 33, 1)>>
       [] s = 21 -> <<IsoRecord("D", TRUE, 22, 2)>>
       [] s = 22 -> <<IsoRecord("\\0", TRUE, 22, 2), IsoRecord("\\1", TRUE, 20, 4), IsoRecord("B;1", FALSE, 31, 2)>>]]
MCIsoVolumes == {IsoDisc, [IsoDisc EXCEPT !.magic = FALSE]}
MCCleanName  == [n \in {"\\0", "\\1", "A;1", "A;2", "B;1", "D"} |->
                   CASE n \in {"A;1", "A;2"} -> "a" [] n = "B;1" -> "b" [] n = "D" -> "d" [] OTHER -> n]
MCIsoReads   == {[at |-> 0, len |-> 9], [at |-> 1, len |-> 3], [at |-> 3, len |-> 2]}

-----------------------------------------------------------------------------
MCTaskWrites == [t \in {"k1", "k2"} |-> IF t = "k1" THEN 1 ELSE 2]

MCPartDisks ==
  [signed : BOOLEAN, gpt : BOOLEAN, esize : {1, 3},
   types : {<<"gpt", "empty", "empty", "empty">>, <<"fat", "empty", "linux", "empty">>, <<"fat", "gpt", "x", "empty">>},
   entries : {<<TRUE, FALSE, TRUE, TRUE, TRUE>>, <<FALSE, TRUE>>}]

(* A program with overlapping sections, one that ends beyond the file, and *)
(* relocations of both kinds; the others fail one check each.              *)
PeSection(v, n, r, a) == [va |-> v, vs |-> n, raw |-> r, at |-> a]
PeReloc(t, a) == [type |-> t, at |-> a]
PeProgram ==
  [size |-> 12, mz |-> TRUE, peOff |-> 2, pe |-> TRUE, i386 |-> TRUE, pe32 |-> TRUE,
   imageBase |-> 16, imageSize |-> 6, headers |-> 2,
   sections |-> <<PeSection(2, 2, 3, 7), PeSection(3, 3, 2, 10), PeSection(5, 1, 4, 10)>>,
   relocs |-> <<PeReloc("HIGHLOW", 2), PeReloc("ABSOLUTE", 0), PeReloc("HIGHLOW", 3)>>]
MCExeFiles ==
  {PeProgram, [PeProgram EXCEPT !.size = 1], [PeProgram EXCEPT !.mz = FALSE], [PeProgram EXCEPT !.peOff = 12],
   [PeProgram EXCEPT !.peOff = 11, !.pe = FALSE], [PeProgram EXCEPT !.size = 5], [PeProgram EXCEPT !.i386 = FALSE],
   [PeProgram EXCEPT !.pe32 = FALSE], [PeProgram EXCEPT !.sections[2].vs = 4]}

InitrdFile(n, s) == [name |-> n, size |-> s]
MCArchives ==
  [magic : BOOLEAN, count : {2, 5}, room : {0, 3, 8, 9, 20},
   files : {<<InitrdFile("a", 2), InitrdFile("b", 3), InitrdFile("a", 1)>>}]

(* ELF programs over both page tables, pages 11 and 12, with a segment     *)
(* that shares a page with the one before it; one whose data the file has  *)
(* not, with a segment that is not loaded; the others fail a check each.   *)
ElfSegment(l, v, m, o, n) == [load |-> l, vaddr |-> v, memsz |-> m, offset |-> o, filesz |-> n]
ElfProgram ==
  [whole |-> TRUE, magic |-> TRUE, exec |-> TRUE, i386 |-> TRUE, size |-> 12,
   segments |-> <<ElfSegment(TRUE, 22, 3, 4, 2), ElfSegment(FALSE, 0, 9, 0, 0), ElfSegment(TRUE, 25, 1, 8, 1)>>]
MCPrograms ==
  {ElfProgram, [ElfProgram EXCEPT !.segments = <<ElfSegment(TRUE, 24, 2, 11, 2)>>],
   [ElfProgram EXCEPT !.whole = FALSE], [ElfProgram EXCEPT !.magic = FALSE],
   [ElfProgram EXCEPT !.exec = FALSE], [ElfProgram EXCEPT !.i386 = FALSE]}

MCGdbCommands == {<<"c">>, <<"s">>, <<"m">>, <<"?">>}

=============================================================================
