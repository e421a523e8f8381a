SPECIFICATION Spec
CONSTANTS
  Routes <- MCRoutes
  Unnumbered <- MCUnnumbered
  Replies <- MCReplies
  Attempts = 3
  Fragments = 2
  TurnBound = 2
  HistoryBound = 7
INVARIANTS
  TurnIsTheReply
  ShownOnce
  WireKeepsPairs
CHECK_DEADLOCK FALSE
