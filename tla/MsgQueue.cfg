\* Three tasks on one slot of two messages; two ids, so that the slot is
\* opened again under another id with the messages of the first in it.
SPECIFICATION QueueFairSpec
CONSTANTS
  Users = {1, 2, 3}
  Names = {"a"}
  NSlots = 1
  MAX = 2
  Prios = {0, 7}
  MaxId = 2
INVARIANTS
  QueueTypeOK
  
PROPERTIES
  ImplementsQueues
  CallsEnd
