-------------------------------- MODULE Exe --------------------------------
(***************************************************************************)
(* What is loaded from images: PE programs (src/kernal/fs/pe.c, started by *)
(* app_launch_exe of src/os/src/app.c), the initial RAM disk               *)
(* (src/kernal/fs/initrd.c) and ELF programs with the page tables they are *)
(* mapped in (src/kernal/ipc/syscall.c, src/kernal/mm/paging.c).  A place  *)
(* of an image is a 32-bit word; it holds a word of the file, known by its *)
(* place there, or zero, to which relocations may have added.              *)
(*                                                                         *)
(* Nothing calls app_launch_exe yet.  Its files are such that headers fit  *)
(* the image and relocations stay inside it: pe_load looks at neither.     *)
(* Offsets are far from 2^32, where its sums would wrap.                   *)
(***************************************************************************)
EXTENDS Integers, FiniteSets, SequencesExt

CONSTANTS
  ExeFiles,   \* the files that are started
  DOSSIZE, COFFSIZE, OPTSIZE,  \* sizes of the headers; the signature has 1
  ExeSlots,   \* APP_MAX_RUNNING
  Addresses,  \* where the heap may put a block
  Archives,   \* the modules GRUB may pass: [magic, count, files, room]
  INITRD_MAX, \* INITRD_MAX_FILES
  ENTRYHEAD,  \* bytes of a file's name and size
  PDSIZE, PTSIZE,         \* PD_ENTRIES, PT_ENTRIES
  RAMTABLES, MIRROR,      \* 64 large pages for the memory, again from 768 on
  MmioTables,             \* the other large pages
  PAGEWORDS,              \* words of a page
  Programs,               \* the ELF files that are loaded
  DevicePages             \* pages drivers map

(* what is used of the headers of a file; peOff is where e_lfanew leads    *)
DosHeader(f)      == f.mz \in BOOLEAN /\ f.peOff \in Nat
FileHeader(f)     == f.pe \in BOOLEAN /\ f.i386 \in BOOLEAN
OptionalHeader(f) == f.pe32 \in BOOLEAN /\ f.imageBase \in Nat /\ f.imageSize \in Nat /\ f.headers \in Nat
SectionHeader(s)  == {s.va, s.vs, s.raw, s.at} \subseteq Nat

ASSUME ExeAssumption ==
  /\ ExeSlots \in Nat /\ Addresses \subseteq Nat
  /\ \A f \in ExeFiles :
       /\ DosHeader(f) /\ FileHeader(f) /\ OptionalHeader(f)
       /\ f.size \in Nat /\ f.headers <= f.imageSize
       /\ f.sections \in Seq(Range(f.sections)) /\ \A s \in Range(f.sections) : SectionHeader(s)
       /\ f.relocs \in Seq([type : {"HIGHLOW", "ABSOLUTE"}, at : 0 .. f.imageSize - 1])

ASSUME InitrdAssumption ==
  /\ INITRD_MAX \in Nat
  /\ \A a \in Archives : /\ a.count \in Nat /\ a.files \in Seq(Range(a.files))
                         /\ \A f \in Range(a.files) : f.size \in Nat

(* Programs are linked to pages that no large page covers: others would    *)
(* have their words written over the memory itself, as the large pages     *)
(* cannot be divided.                                                      *)
ASSUME ElfAssumption ==
  /\ {RAMTABLES, MIRROR, PDSIZE} \subseteq Nat /\ {PTSIZE, PAGEWORDS} \subseteq Nat \ {0}
  /\ 0 < RAMTABLES /\ RAMTABLES <= MIRROR /\ MIRROR + RAMTABLES <= PDSIZE
  /\ DevicePages \subseteq 0 .. PDSIZE * PTSIZE - 1
  /\ \A f \in Programs :
       /\ f.segments \in Seq(Range(f.segments))
       /\ \A i \in {j \in DOMAIN f.segments : f.segments[j].load} :
            LET s == f.segments[i]
                pages == s.vaddr \div PAGEWORDS .. (s.vaddr + s.memsz - 1) \div PAGEWORDS
            IN /\ {s.vaddr, s.memsz, s.offset, s.filesz} \subseteq Nat
               /\ 0 < s.memsz /\ s.filesz <= s.memsz
               /\ pages \cap DevicePages = {}
               /\ \A v \in pages : v \div PTSIZE \in (RAMTABLES .. MIRROR - 1) \ MmioTables

VARIABLES
  exeHeap,   \* the blocks the starts have on the heap
  exeStart,  \* the start that is running: [phase, file, raw]
  exeApps,   \* of a slot: [running, file, base, image]
  archive,   \* the module at boot
  dateien,   \* dateien, as far as datei_count
  initrdOk,  \* initrd_ok
  kernel_pd, \* of a directory entry: nothing, a large page or a table
  ptables,   \* what a frame holds that is a page table
  pmmFree,   \* frames the page allocator can give
  words,     \* what a frame holds that is a page
  elf,       \* the load: [phase, file, segment, page]
  mapped     \* ghost: the frame a page was last mapped to

exeVars == <<exeHeap, exeStart, exeApps, archive, dateien, initrdOk>>
elfVars == <<kernel_pd, ptables, pmmFree, words, elf, mapped>>

NoApp    == [running |-> FALSE, file |-> {}, base |-> 0, image |-> <<>>]
NoStart  == [phase |-> "idle", file |-> {}, raw |-> 0]
ExeIds   == 1 .. ExeSlots
Nothing  == -1

ExeTypeOK ==
  /\ exeHeap \subseteq Addresses
  /\ exeStart.phase \in {"idle", "read", "slot"}
  /\ \A i \in ExeIds : exeApps[i].running => Len(exeApps[i].image) = exeApps[i].file.imageSize
  /\ archive \in Archives /\ Len(dateien) <= INITRD_MAX /\ initrdOk \in BOOLEAN

ExeInit ==
  /\ exeHeap = {} /\ exeStart = NoStart /\ exeApps = [i \in ExeIds |-> NoApp]
  /\ archive \in Archives /\ dateien = <<>> /\ initrdOk = FALSE

-----------------------------------------------------------------------------
(* pe_load's checks: the first that is not met gives the error             *)
PeHeaders(f) ==
  LET coff == f.peOff + 1
      checks == << <<f.size >= DOSSIZE, "PE_ERR_SMALL">>,           <<f.mz, "PE_ERR_MZ">>,
                   <<coff <= f.size, "PE_ERR_SMALL">>,              <<f.pe, "PE_ERR_PE">>,
                   <<coff + COFFSIZE <= f.size, "PE_ERR_SMALL">>,   <<f.i386, "PE_ERR_ARCH">>,
                   <<coff + COFFSIZE + OPTSIZE <= f.size, "PE_ERR_SMALL">>, <<f.pe32, "PE_ERR_OPT">> >>
      unmet == {i \in DOMAIN checks : ~checks[i][1]}
  IN IF unmet = {} THEN "PE_OK" ELSE checks[Min(unmet)][2]

SectionsFit(f) == \A i \in DOMAIN f.sections : f.sections[i].va + f.sections[i].vs <= f.imageSize

(* a section's raw data goes over what is there, as much as its size in    *)
(* memory takes; of one that reaches beyond the file nothing is copied     *)
Copied(image, f, s) ==
  IF s.raw > 0 /\ s.at + s.raw <= f.size
  THEN [p \in DOMAIN image |->
          IF p - 1 >= s.va /\ p - 1 < s.va + Min({s.raw, s.vs}) THEN [word |-> s.at + p - 1 - s.va, add |-> 0] ELSE image[p]]
  ELSE image

HeadersCopied(f) ==
  [p \in 1 .. f.imageSize |-> [word |-> IF p <= Min({f.headers, f.size}) THEN p - 1 ELSE Nothing, add |-> 0]]

(* pe_apply_relocations: padding entries are passed over                   *)
Relocated(image, f, delta) ==
  FoldLeft(LAMBDA im, r : IF r.type = "HIGHLOW" THEN [im EXCEPT ![r.at + 1].add = @ + delta] ELSE im,
           image, IF delta = 0 THEN <<>> ELSE f.relocs)

PeImage(f, base) ==
  Relocated(FoldLeft(LAMBDA im, s : Copied(im, f, s), HeadersCopied(f), f.sections), f, base - f.imageBase)

-----------------------------------------------------------------------------
(* app_launch_exe: the file is open and there is a buffer for it           *)
ExeOpen(f) ==
  /\ exeStart.phase = "idle"
  /\ \E raw \in Addresses \ exeHeap :
       /\ exeHeap' = exeHeap \cup {raw}
       /\ exeStart' = [phase |-> "read", file |-> f, raw |-> raw]
  /\ UNCHANGED <<exeApps, archive, dateien, initrdOk>>

GiveUp == exeHeap' = exeHeap \ {exeStart.raw} /\ exeStart' = NoStart

ExeRead == /\ exeStart.phase = "read"
           /\ exeStart' = [exeStart EXCEPT !.phase = "slot"]
           /\ UNCHANGED <<exeHeap, exeApps, archive, dateien, initrdOk>>

ExeReadFails == exeStart.phase = "read" /\ GiveUp /\ UNCHANGED <<exeApps, archive, dateien, initrdOk>>

Resting == {i \in ExeIds : ~exeApps[i].running}

ExeNoSlot == /\ exeStart.phase = "slot" /\ Resting = {} /\ GiveUp
             /\ UNCHANGED <<exeApps, archive, dateien, initrdOk>>

(* pe_load: the block for the image is given back when a section overruns  *)
(* it; the buffer for the file in any case                                 *)
ExeLoad ==
  /\ exeStart.phase = "slot" /\ Resting # {}
  /\ LET f == exeStart.file IN
     IF PeHeaders(f) = "PE_OK" /\ SectionsFit(f)
     THEN \E base \in Addresses \ exeHeap :
            /\ exeApps' = [exeApps EXCEPT ![Min(Resting)] =
                 [running |-> TRUE, file |-> f, base |-> base, image |-> PeImage(f, base)]]
            /\ exeHeap' = (exeHeap \ {exeStart.raw}) \cup {base}
            /\ exeStart' = NoStart
     ELSE GiveUp /\ exeApps' = [exeApps EXCEPT ![Min(Resting)] = NoApp]
  /\ UNCHANGED <<archive, dateien, initrdOk>>

(* kzalloc has no block for the image: PE_ERR_ALLOC                        *)
ExeLoadFails ==
  /\ exeStart.phase = "slot" /\ Resting # {} /\ PeHeaders(exeStart.file) = "PE_OK"
  /\ GiveUp /\ exeApps' = [exeApps EXCEPT ![Min(Resting)] = NoApp]
  /\ UNCHANGED <<archive, dateien, initrdOk>>

(* app_close with pe_unload                                                *)
ExeClose(i) ==
  /\ exeApps[i].running
  /\ exeHeap' = exeHeap \ {exeApps[i].base}
  /\ exeApps' = [exeApps EXCEPT ![i] = NoApp]
  /\ UNCHANGED <<exeStart, archive, dateien, initrdOk>>

-----------------------------------------------------------------------------
(* initrd_init: the files are taken from the module one after the other    *)
(* until one does not fit what is left of it                               *)
Unpacked(a) ==
  LET end(n) == FoldLeft(LAMBDA sum, f : sum + ENTRYHEAD + f.size, 0, SubSeq(a.files, 1, n))
      whole  == {n \in 0 .. Min({a.count, INITRD_MAX, Len(a.files)}) : \A m \in 1 .. n : end(m) <= a.room}
  IN SubSeq(a.files, 1, Max(whole))

InitrdInit ==
  /\ ~initrdOk /\ archive.magic /\ archive.room > 0
  /\ dateien' = Unpacked(archive)
  /\ initrdOk' = TRUE
  /\ UNCHANGED <<exeHeap, exeStart, exeApps, archive>>

(* initrd_get_file and initrd_finddir: the first of that name              *)
InitrdFind(name) ==
  LET same == {i \in DOMAIN dateien : dateien[i].name = name}
  IN IF same = {} THEN 0 ELSE Min(same)

(* initrd_read: how many bytes of the file with that index                 *)
InitrdRead(i, at, len) ==
  IF i \notin DOMAIN dateien THEN -1
  ELSE IF at >= dateien[i].size THEN 0 ELSE Min({dateien[i].size - at, len})

ExeNext ==
  \/ \E f \in ExeFiles : ExeOpen(f)
  \/ ExeRead \/ ExeReadFails \/ ExeNoSlot \/ ExeLoad \/ ExeLoadFails \/ InitrdInit
  \/ \E i \in ExeIds : ExeClose(i)

-----------------------------------------------------------------------------
(* A running program's image has each word of the file where its last      *)
(* section puts it, corrected by the distance from the address it was      *)
(* linked for wherever its relocations say so, and the heap has the images *)
(* of the running programs and the file being loaded and nothing else.     *)
ImageTrue ==
  /\ \A i \in ExeIds : exeApps[i].running =>
       LET f == exeApps[i].file
           filled(s, p) == s.raw > 0 /\ s.at + s.raw <= f.size /\ p \in s.va .. s.va + Min({s.raw, s.vs}) - 1
       IN \A p \in 0 .. f.imageSize - 1 :
            LET by == {j \in DOMAIN f.sections : filled(f.sections[j], p)}
                fixes == {j \in DOMAIN f.relocs : f.relocs[j] = [type |-> "HIGHLOW", at |-> p]}
            IN /\ exeApps[i].image[p + 1].word =
                    IF by # {} THEN f.sections[Max(by)].at + p - f.sections[Max(by)].va
                    ELSE IF p < f.headers /\ p < f.size THEN p ELSE Nothing
               /\ exeApps[i].image[p + 1].add = Cardinality(fixes) * (exeApps[i].base - f.imageBase)
  /\ exeHeap = {exeApps[i].base : i \in {j \in ExeIds : exeApps[j].running}}
               \cup (IF exeStart.phase = "idle" THEN {} ELSE {exeStart.raw})

(* Every file that the module has whole before the first one it has not is *)
(* found under its name, if it is the first of the name, and can be read   *)
(* to its end.                                                             *)
InitrdTrue ==
  initrdOk =>
    \A n \in 1 .. Len(archive.files) :
      LET whole == \A m \in 1 .. n :
            FoldLeft(LAMBDA sum, f : sum + ENTRYHEAD + f.size, 0, SubSeq(archive.files, 1, m)) <= archive.room
          name == archive.files[n].name
      IN (whole /\ n <= archive.count /\ n <= INITRD_MAX /\ \A m \in 1 .. n - 1 : archive.files[m].name # name) =>
           /\ InitrdFind(name) = n
           /\ InitrdRead(n, 0, archive.files[n].size) = archive.files[n].size

-----------------------------------------------------------------------------
(* The page tables of src/kernal/mm/paging.c and the ELF loader of         *)
(* src/kernal/ipc/syscall.c on them.  Nothing calls the loader yet.  Pages *)
(* are numbered; words of a frame are as those of an image above.          *)

Absent   == -1
PageOf(a) == a \div PAGEWORDS
NoTable  == [kind |-> "none", base |-> 0]

(* paging_init: large pages over the memory, again in the upper half, and  *)
(* two more runs of them                                                   *)
Layout(d) ==
  CASE d \in (0 .. RAMTABLES - 1) \cup MmioTables -> [kind |-> "huge", base |-> d * PTSIZE]
    [] d \in MIRROR .. MIRROR + RAMTABLES - 1   -> [kind |-> "huge", base |-> (d - MIRROR) * PTSIZE]
    [] OTHER -> NoTable

RamFrames == 0 .. RAMTABLES * PTSIZE - 1

PagingInit ==
  /\ kernel_pd = [d \in 0 .. PDSIZE - 1 |-> Layout(d)]
  /\ ptables = [t \in RamFrames |-> [i \in 0 .. PTSIZE - 1 |-> Absent]]
  /\ pmmFree = RamFrames \ {0}
  /\ words = [t \in RamFrames |-> [i \in 0 .. PAGEWORDS - 1 |-> Nothing]]
  /\ elf = [phase |-> "idle", file |-> {}, segment |-> 0, page |-> 0]
  /\ mapped = [v \in 0 .. PDSIZE * PTSIZE - 1 |-> Absent]

(* paging_get_phys                                                         *)
GetPhys(v) ==
  LET e == kernel_pd[v \div PTSIZE]
  IN CASE e.kind = "none"  -> Absent
       [] e.kind = "huge"  -> e.base + (v % PTSIZE)
       [] e.kind = "table" -> ptables[e.base][v % PTSIZE]

(* paging_map_page with get_or_alloc_pt: a new table takes a frame of      *)
(* those left, if there is one.  Frames are alike: the lowest stands for   *)
(* any that the page allocator may give.                                   *)
MapIn(t, v, f, left) ==
  /\ ptables' = [ptables EXCEPT ![t] = [(IF kernel_pd[v \div PTSIZE].kind = "table" THEN ptables[t]
                                       ELSE [i \in 0 .. PTSIZE - 1 |-> Absent]) EXCEPT ![v % PTSIZE] = f]]
  /\ kernel_pd' = [kernel_pd EXCEPT ![v \div PTSIZE] = [kind |-> "table", base |-> t]]
  /\ pmmFree' = left \ {t}
  /\ mapped' = [mapped EXCEPT ![v] = f]

MapFails(left) == pmmFree' = left /\ UNCHANGED <<kernel_pd, ptables, mapped>>

PagingMap(v, f, left) ==
  LET e == kernel_pd[v \div PTSIZE]
  IN CASE e.kind = "table" -> MapIn(e.base, v, f, left)
       [] e.kind = "huge"  -> MapFails(left)
       [] e.kind = "none"  -> MapFails(left) \/ (left # {} /\ MapIn(Min(left), v, f, left))

(* a driver maps a page of its device; paging_map_range does so for each   *)
DeviceMap(v) == /\ elf.phase # "panic"
                /\ PagingMap(v, PDSIZE * PTSIZE + v, pmmFree)
                /\ UNCHANGED <<words, elf>>

(* paging_unmap_page, and the frame goes back as in swap_out               *)
PagingUnmap(v) ==
  /\ elf.phase \in {"idle", "done"}
  /\ kernel_pd[v \div PTSIZE].kind = "table" /\ GetPhys(v) \in RamFrames
  /\ ptables' = [ptables EXCEPT ![kernel_pd[v \div PTSIZE].base][v % PTSIZE] = Absent]
  /\ pmmFree' = pmmFree \cup {GetPhys(v)}
  /\ mapped' = [mapped EXCEPT ![v] = Absent]
  /\ UNCHANGED <<kernel_pd, words, elf>>

(* elf32_load's checks, and the segments it loads                          *)
ElfHeader(f) ==
  CASE ~f.whole -> -1 [] ~f.magic -> -2 [] ~f.exec -> -3 [] ~f.i386 -> -4 [] OTHER -> 0
Loads(f)      == {i \in DOMAIN f.segments : f.segments[i].load}
FirstPage(s)  == PageOf(s.vaddr)
LastPage(s)   == PageOf(s.vaddr + s.memsz - 1)

NextSegment(f, after) ==
  LET rest == {i \in Loads(f) : i > after}
  IN IF rest = {} THEN [phase |-> "done", file |-> f, segment |-> 0, page |-> 0]
     ELSE [phase |-> "load", file |-> f, segment |-> Min(rest), page |-> FirstPage(f.segments[Min(rest)])]

ElfBegin(f) ==
  /\ elf.phase \in {"idle", "done"}
  /\ elf' = IF ElfHeader(f) = 0 THEN NextSegment(f, 0) ELSE [elf EXCEPT !.phase = "idle"]
  /\ UNCHANGED <<kernel_pd, ptables, pmmFree, words, mapped>>

Segment == elf.file.segments[elf.segment]

(* a frame for each page; whether it could be mapped is not looked at      *)
ElfPage ==
  /\ elf.phase = "load" /\ elf.page <= LastPage(Segment)
  /\ pmmFree # {}
  /\ PagingMap(elf.page, Min(pmmFree), pmmFree \ {Min(pmmFree)})
  /\ elf' = [elf EXCEPT !.page = @ + 1]
  /\ UNCHANGED words

(* -5; what was mapped stays                                               *)
ElfNoFrame ==
  /\ elf.phase = "load" /\ elf.page <= LastPage(Segment)
  /\ elf' = [elf EXCEPT !.phase = "idle"]
  /\ UNCHANGED <<kernel_pd, ptables, pmmFree, words, mapped>>

(* what memset and memcpy leave at an address of the segment               *)
SegmentWord(f, s, a) ==
  IF s.offset + s.filesz <= f.size /\ a < s.vaddr + s.filesz THEN s.offset + a - s.vaddr ELSE Nothing

(* they go through the page tables; on a page that is absent the fault     *)
(* handler finds nothing to do and the kernel stops                        *)
ElfCopy ==
  /\ elf.phase = "load" /\ elf.page > LastPage(Segment)
  /\ LET places == [a \in Segment.vaddr .. Segment.vaddr + Segment.memsz - 1 |-> GetPhys(PageOf(a))]
     IN IF Absent \in Range(places)
        THEN elf' = [elf EXCEPT !.phase = "panic"] /\ UNCHANGED words
        ELSE /\ words' = [t \in RamFrames |-> [i \in 0 .. PAGEWORDS - 1 |->
                   LET here == {a \in DOMAIN places : places[a] = t /\ a % PAGEWORDS = i}
                   IN IF here = {} THEN words[t][i] ELSE SegmentWord(elf.file, Segment, Max(here))]]
             /\ elf' = NextSegment(elf.file, elf.segment)
  /\ UNCHANGED <<kernel_pd, ptables, pmmFree, mapped>>

ElfNext ==
  \/ \E f \in Programs : ElfBegin(f)
  \/ ElfPage \/ ElfNoFrame \/ ElfCopy
  \/ \E v \in DevicePages : DeviceMap(v)
  \/ \E v \in DOMAIN mapped : PagingUnmap(v)

(* The two levels are one map: an address leads to the frame it was last   *)
(* mapped to, the large pages stay as they were laid out, and no frame of  *)
(* the memory is given away twice, as table or as page.                    *)
TranslationTrue ==
  /\ \A v \in DOMAIN mapped :
       LET large == Layout(v \div PTSIZE)
       IN GetPhys(v) = IF large.kind = "huge" THEN large.base + (v % PTSIZE) ELSE mapped[v]
  /\ LET inUse  == {d \in DOMAIN kernel_pd : kernel_pd[d].kind = "table"}
         tableFrames == {kernel_pd[d].base : d \in inUse}
         pages  == {v \in DOMAIN mapped : mapped[v] \in RamFrames}
     IN /\ Cardinality(tableFrames) = Cardinality(inUse)
        /\ \A v, w \in pages : mapped[v] = mapped[w] => v = w
        /\ (tableFrames \cup {mapped[v] : v \in pages}) \cap pmmFree = {}
        /\ tableFrames \cap {mapped[v] : v \in pages} = {}

(* After a load the address of every word of a segment has the word of the *)
(* file, or zero beyond what the file has, on the pages no later segment   *)
(* has taken a new frame for and nobody has unmapped.                      *)
ElfTrue ==
  elf.phase = "done" =>
    \A i \in Loads(elf.file) :
      LET s == elf.file.segments[i]
          later == {j \in Loads(elf.file) : j > i}
      IN \A a \in s.vaddr .. s.vaddr + s.memsz - 1 :
           (/\ \A j \in later : PageOf(a) \notin FirstPage(elf.file.segments[j]) .. LastPage(elf.file.segments[j])
            /\ GetPhys(PageOf(a)) # Absent) =>
              words[GetPhys(PageOf(a))][a % PAGEWORDS] = SegmentWord(elf.file, s, a)

ElfTypeOK ==
  /\ kernel_pd \in [0 .. PDSIZE - 1 -> [kind : {"none", "huge", "table"}, base : 0 .. PDSIZE * PTSIZE - 1]]
  /\ pmmFree \subseteq RamFrames \ {0}
  /\ elf.phase \in {"idle", "load", "done", "panic"}

=============================================================================
