\* A reader that spins has stopped the processor: the system really stops.
SPECIFICATION LockSpec
CONSTANTS
  Readers = {1, 2, 3}
  Writers = {4, 5, 6}
INVARIANTS
  LockTypeOK
  Exclusion
  LeaveNeverSpins
CHECK_DEADLOCK FALSE
