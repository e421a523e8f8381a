CONSTANTS
  s1 = s1
  a1 = a1
  SyncSubs <- MCSync
  AsyncSubs <- MCAsync
  BufferSize = 2
  MaxEvents = 3
  DurableBound = 3
  LossyBound = 2
  ConnectBound = 2
SPECIFICATION Spec
CHECK_DEADLOCK FALSE
INVARIANT NeverServedQuietly
