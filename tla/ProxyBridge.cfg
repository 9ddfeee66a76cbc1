SPECIFICATION FairSpec
CONSTANTS
  Callers <- Two
  MaxTasks = 2
  BindMayFail = TRUE
  MayTimeOut = TRUE
  BuildMayFail = TRUE
INVARIANTS BridgeInv ListenerIsKnown RunningIsAlive NoStuckConnecting
PROPERTIES StopStops CallsReturn AbortedEnds
CHECK_DEADLOCK FALSE
