CONSTANTS
  none = none
  p1 = p1
  p2 = p2
  Procs <- MCProcs
  TxBound = 3
  None <- none
SPECIFICATION Spec
CHECK_DEADLOCK FALSE
INVARIANTS
  MemoryIsFile
PROPERTIES
  ImplementsLog
