SPECIFICATION Spec
CONSTANTS
  Users <- MCUsers
  Preempt = FALSE
  ADDRS = 32
  PAGE = 2
  LIMIT = 18
  MEG = 8
  WORD = 4
  KernStart = 4
  KernEnd = 6
  MaxRun = 3
  Maps <- MCMaps
INVARIANTS
  TypeOK
  CountIsRight
  OneOwner
  NothingLost
  OnlyAvailable
PROPERTIES
  FailsOnlyWhenFull
