CONSTANTS
  t1 = t1
  t2 = t2
  t3 = t3
  c1 = c1
  c2 = c2
  free = free
  Free <- free
  Threads <- ThreeThreads
  Slots <- TwoSlots
SPECIFICATION Spec
INVARIANTS TypeOK  CallsEveryConnected DeadlockExplained
SYMMETRY Symmetric
CHECK_DEADLOCK FALSE
