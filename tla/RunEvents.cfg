CONSTANTS
  s1 = s1
  a1 = a1
  SyncSubs <- MCSync
  AsyncSubs <- MCAsync
  BufferSize = 2
  MaxEvents = 2
  DurableBound = 2
  LossyBound = 1
  ConnectBound = 2
SPECIFICATION Spec
CHECK_DEADLOCK FALSE
INVARIANTS
  TypeOK
  BufferExact
  NoSilentGap
  EndsInformedAsync
PROPERTIES
  CursorAdvances
  EventuallyDelivered
  StreamsEnd
