SPECIFICATION FairSpec
CONSTANTS
  MaxTuns = 2
  MaxCommands = 4
  Numbers <- MCNumbers
  MaxOther = 1
  MaxOpen = 1
  MaxQueued = 1
INVARIANTS LifeInv TunIsReleased LoopIsKnown RunningTunIsRead
PROPERTIES StoppedEnds
CHECK_DEADLOCK FALSE
