CONSTANTS
  Config <- ShippedConfig
  Topics <- ShippedTopics
  Matching <- ShippedMatching
  Failing <- ShippedFailing
  MaybeSummary <- NoEntry
  MaxMessages = 1
SPECIFICATION Spec
INVARIANTS EveryEntryExported
CHECK_DEADLOCK FALSE
