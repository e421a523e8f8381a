SPECIFICATION Spec
CONSTANTS
  main = main
  child = child
  none = none
  i1 = i1
  i2 = i2
  t1 = t1
  Askers <- MCAskers
  Main <- main
  Ids <- MCIds
  Texts <- MCTexts
  NoId <- none
INVARIANTS ClientAndToolAgree AwaitingMeansAsked
PROPERTIES EveryAskReturns
CHECK_DEADLOCK FALSE
