SPECIFICATION Spec
CONSTANTS
  HDR = 2
  MINSPLIT = 2
  PAGE = 8
  FirstPages = 1
  MaxPages = 4
  Requests = {2, 7, 12}
  LEAKSLOTS = 2
  Blocks = {0, 1, 2, 3}
  Slabs = {s1, s2}
  Objs = 2
  PROC_MAX = 2
  Bounds = {0, 1, 2}
  Sigs = {2, 9, 18, 19}
  Pages = {p1, p2}
  FrameSet = {f1, f2, f3}
  SlotCount = 2
  LookupSize = 1
  Workers = {w1, w2}
  MaxWrites = 1
  SockSlots = 2
  SOCKBUF = 3
  Rings = {r1, r2, r3}
  Names = {"a"}
  SockTasks = {t1, t2}
  SendLens = {1, 2}
  RecvLens = {2}
  MaxIds = 3
  MaxMessages = 2
  EnvSlots = 3
  ShortKeys = {"k", "l", "m"}
  LongKeys = {"mm"}
  Cut <- MCCut
  EnvValues = {"1", "2"}
  MountSlots = 2
  MountPaths <- MCMountPaths
  BootOrder <- MCBootOrder
  EntrySlots = 2
  Entries <- MCEntries
  NewNames <- MCNewNames
  RamIds = {1, 2}
  RAMBLOCK = 2
  RAMMAX = 4
  RamWrites <- MCRamWrites
  Users = {u1}
  SECTOR = 2
  SectorSizes = {2, 4}
  FatVolumes <- MCFatVolumes
  FatReads <- MCFatReads
  FatNames = {"a", "d", "abcdefgh.txt", "abcdefgh.txtx", "z"}
  Twelve <- MCTwelve
  ExtSlots = 2
  ExtVolume <- MCExtVolume
  BLOCK = 2
  DIRECT = 2
  PTRS = 2
  OFFSETS = 256
  ExtReads <- MCExtReads
  ExtNames = {"a", "b", "z"}
  ISOSECTOR = 2
  IsoVolumes <- MCIsoVolumes
  CleanName <- MCCleanName
  IsoReads <- MCIsoReads
  IsoNames = {"a", "b", "d", "z"}
  IdeTasks = {"k1", "k2"}
  IdeDrives = {0, 1}
  Lbas = {0, 1}
  IdeValues = {0, 1, 2}
  TaskWrites <- MCTaskWrites
  MaxIdeCalls = 3
  PART_MAX = 4
  ENTRYSECTORS = 2
  ENTRYSECTOR = 4
  PartDisks <- MCPartDisks
  QSIZE = 3
  MaxCommands = 6
  DOSSIZE = 2
  COFFSIZE = 1
  OPTSIZE = 2
  ExeFiles <- MCExeFiles
  ExeSlots = 2
  Addresses = {8, 16, 24}
  Archives <- MCArchives
  INITRD_MAX = 3
  ENTRYHEAD = 2
  PDSIZE = 4
  PTSIZE = 6
  RAMTABLES = 1
  MIRROR = 3
  MmioTables = {}
  PAGEWORDS = 2
  Programs <- MCPrograms
  DevicePages = {14}
  ProbeSlots = 2
  Spots = {i1, i2}
  ProbeTasks = {t1, t2}
  GdbCommands <- MCGdbCommands
  GDBBUF = 3
  MaxAsked = 2
  MaxFaults = 2
INVARIANTS
  TypeOK
  HeapDisjoint
  ProcessesTrue
  
  
CHECK_DEADLOCK FALSE
