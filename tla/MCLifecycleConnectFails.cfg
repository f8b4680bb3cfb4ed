CONSTANT MaxRequests = 0
SPECIFICATION Spec
INVARIANTS ConnectFailureHandled
CHECK_DEADLOCK FALSE
