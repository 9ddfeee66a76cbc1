SPECIFICATION AppFairSpec
CONSTANTS
  Callers <- Flows
  MaxTasks = 3
  BindMayFail = TRUE
  MayTimeOut = TRUE
  BuildMayFail = TRUE
  MaxTaps = 3
  MaxStops = 1
  MaxKills = 1
  Unhurried = TRUE
INVARIANTS AppInv DisconnectedIsOff
PROPERTIES ConnectingEnds
CHECK_DEADLOCK FALSE
