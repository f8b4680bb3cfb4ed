CONSTANTS
  nan = nan
  text_ = text_
  garbage = garbage
  NaN <- nan
  Text <- text_
  Garbage <- garbage
  Kinds <- AllKinds
  NumLabels = 2
  Bounds <- TwoBounds
  Infinity = 9
  Numbers <- TwoNumbers
  MatchCount <- Matches
  MaxSamples = 3
SPECIFICATION Spec
INVARIANTS TypeOK NeverPastTheEnd WholeSection ValuesExpected TornByAtMostDuring GarbageOnlyUnparsed
CHECK_DEADLOCK FALSE
