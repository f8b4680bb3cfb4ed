CONSTANTS
  Config <- OverlapConfig
  Topics <- OverlapTopics
  Matching <- OverlapMatching
  Failing <- OverlapFailing
  MaybeSummary <- AnyEntry
  MaxMessages = 2
SPECIFICATION Spec
INVARIANTS TypeOK CountedOnce SafeOnceSetUp MalformedFilterFatal
CHECK_DEADLOCK FALSE
