CONSTANTS
  none = none
  r1 = r1
  r2 = r2
  i1 = i1
  i2 = i2
  w1 = w1
  Runs <- TwoRuns
  Inputs <- TwoInputs
  Readers <- OneReader
  ReadBound = 1
  None <- none
SPECIFICATION Spec
CHECK_DEADLOCK FALSE
INVARIANTS
  NeverAlreadyOpen
  WritesHaveHandle
  QueueIsExact
PROPERTIES
  CancelStopsRounds
  CancelEnds
  SlotIsFreed
