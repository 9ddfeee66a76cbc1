SPECIFICATION AppSpec
CONSTANTS
  Callers <- Flows
  MaxTasks = 1
  BindMayFail = FALSE
  MayTimeOut = FALSE
  BuildMayFail = FALSE
  MaxTaps = 2
  MaxStops = 0
  MaxKills = 0
  Unhurried = FALSE
INVARIANTS ConnectedIsMirrored
CHECK_DEADLOCK FALSE
