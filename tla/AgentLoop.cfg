SPECIFICATION Spec
CONSTANTS
  BatchBound = 2
  ParallelLimit = 2
  MaxChildren = 2
  RoundBound = 2
  SteerBound = 1
  Histories <- MCHistories
  KeepRecent = 3
  TriggerLine = 4
  MaxDenials = 2
  MaxBlocks = 1
INVARIANTS
  RequestsValid
  ExclusiveAlone
  AnswersAreTrue
  EndsVisibly
PROPERTIES
  CancelConverges
CHECK_DEADLOCK FALSE
