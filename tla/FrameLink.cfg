SPECIFICATION FairSpec
CONSTANTS
  Base = 8
  UserId <- MCUserId
  Hosts <- MCHosts
  MaxRead = 9
  MaxPadding = 2
  FragBytes = 5
  FragSize = 2
  MaxFrames = 2
  Buffered = 4
INVARIANTS TypeOK CodecIsPrefixSafe
PROPERTIES ImplementsChannel WriteReturns
CHECK_DEADLOCK FALSE
