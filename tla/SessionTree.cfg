SPECIFICATION Spec
CONSTANTS
  Branches = {"main", "b2"}
  Main = "main"
  Files = {1}
  KeepRecent = 1
  CallBound = 2
  EntryBound = 5
  WriteBound = 2
  ForkBound = 1
  PassBound = 2
INVARIANTS
  ProjectionIsLive
  NoForeignSummary
  RewindRestores
CHECK_DEADLOCK FALSE
