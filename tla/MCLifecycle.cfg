CONSTANT MaxRequests = 2
SPECIFICATION FairSpec
INVARIANTS TypeOK NoThreadOutlivesApp GracefulWithoutFaults ExitDisconnects
PROPERTIES SignalStops
CHECK_DEADLOCK FALSE
