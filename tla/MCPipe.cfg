SPECIFICATION FairSpec
CONSTANTS
  Readers <- MCReaders
  Writers <- MCWriters
  Data <- MCData
  CAP = 2
  WRAP = 4
  MaxLen = 3
INVARIANTS
  TypeOK
  OwnerInside
  CountMatches
  NoLateUse
PROPERTIES
  ImplementsStream
  CloseReleases
