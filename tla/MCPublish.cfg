CONSTANTS
  m1 = m1
  m2 = m2
  m3 = m3
  m4 = m4
  none = none
  None <- none
  Messages <- FourMessages
  MaxMid = 2
SPECIFICATION Spec
INVARIANTS TypeOK TicketMissedOnlyIfEarly
PROPERTIES TriggeredByOwnAck DuplicateExplained
SYMMETRY Symmetric
CHECK_DEADLOCK FALSE
