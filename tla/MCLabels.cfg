CONSTANTS
  Configs <- SomeConfigs
  Regex <- SomeRegexes
  NoMatch = NoMatch
  Payloads <- SomePayloads
  MessageTopics <- SomeTopics
  KeyOrder <- SomeKeys
  MaxMessages = 2
SPECIFICATION Spec
INVARIANTS TypeOK LabelsAsConfigured SeriesDistinct BucketsDistinct
CHECK_DEADLOCK FALSE
