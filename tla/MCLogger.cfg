CONSTANTS
  main = main
  worker = worker
  free = free
  Free <- free
  Main <- main
  Threads <- TwoThreads
  LevelsOf <- LevelsUsed
  MaxEntries = 2
  MaxSignals = 1
SPECIFICATION FairSpec
INVARIANTS TypeOK WholeLines WrongTimeOnlyIfOverlapped WrittenOnce
PROPERTIES EntriesWritten
CHECK_DEADLOCK FALSE
