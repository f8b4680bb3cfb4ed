CONSTANT MaxRequests = 0
SPECIFICATION Spec
INVARIANTS SetUpOnceConnected
CHECK_DEADLOCK FALSE
