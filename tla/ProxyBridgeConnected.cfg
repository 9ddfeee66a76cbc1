SPECIFICATION FairSpec
CONSTANTS
  Callers <- One
  MaxTasks = 1
  BindMayFail = TRUE
  MayTimeOut = FALSE
  BuildMayFail = FALSE
INVARIANTS ConnectedIsListening
CHECK_DEADLOCK FALSE
