SPECIFICATION MCSpec
CONSTANTS
  MaxCalls = 2
  MaxInFlight = 1
  PendingBuf = 1
  Sequential = TRUE
  QueueLen = 1
  RespBuf = 1
  k1 = k1
  Keys = {k1, k2}
  ChannelsPerKey = 2
  Trackers = 3
INVARIANTS ConnectionSound TrackedHasOwner DroppedIsCancelled ResponseIsServed ChannelsSound
PROPERTIES CallsEnd ConnectionEnds
