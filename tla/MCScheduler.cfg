SPECIFICATION Spec
CONSTANTS
  NTasks <- MCNTasks
  RT <- MCRT
  CreatePrios <- MCWithRT
  QUANTUM <- MCQUANTUM
  AGE_PERIOD <- MCPeriod
  AGING = 2
  REAP = 1
  MaxSleep = 2
INVARIANTS
  TypeOK
  RunningIsCurrent
  QuantumAligned
  StackOfCurrent
  
PROPERTIES
  RTReadyStopsSwitching
