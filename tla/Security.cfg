SPECIFICATION SecuritySpec
CONSTANTS
  Callers = {"run", "sub"}
  Requests <- MCRequests
  Starts <- MCStarts
  Sensitive <- MCSensitive
  CallBound = 2
  Home <- MCHome
  MaskDirs <- MCMaskDirs
  MaskFiles <- MCMaskFiles
  AvidHome <- MCAvidHome
  Store <- MCStore
  Existing <- MCExisting
INVARIANTS
  MasksHold
  WritesAreGranted
  SafeIsPure
PROPERTIES
  SandboxedReturns
CHECK_DEADLOCK FALSE
