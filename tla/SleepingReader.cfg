SPECIFICATION LockSpec
CONSTANTS
  Readers = {1, 2, 3}
  Writers = {4, 5, 6}
INVARIANTS
  NeverHeldAsleep
CHECK_DEADLOCK FALSE
