SPECIFICATION FairSpec
CONSTANTS
  NTasks <- MCNTasks
  RT <- MCRT
  CreatePrios <- MCWithoutRT
  QUANTUM <- MCQUANTUM
  AGE_PERIOD <- MCPeriod
  AGING = 2
  REAP = 1
  MaxSleep = 1
PROPERTIES
  ReadyRuns
