SPECIFICATION Spec
CONSTANTS
  Sessions = {1}
  Dirs = {1, 2}
  LineKinds = {"say", "sum", "drop", "bad"}
  LineBound = 2
  ChangeBound = 5
  StatRace = FALSE
INVARIANTS
  RowsAreTheFile
  NothingIsForgotten
PROPERTIES
  CatchesUp
  FixHeals
CHECK_DEADLOCK FALSE
