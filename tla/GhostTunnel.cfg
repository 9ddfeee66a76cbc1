CONSTANTS
  Users = {"alice", "mallory"}
  AllowedUsers = {"alice"}
  MaxApp = 3
  MaxTarget = 1
  Cap = 2
  MaxSent <- MCMaxSent
SPECIFICATION FairSpec
CHECK_DEADLOCK FALSE
INVARIANTS
  TunnelInv
  DeliveredInOrder
  NothingLost
  CleanEndIsComplete
  OnlyAllowedUsersReachTarget
PROPERTIES
  ImplementsFairStream
  RelaysReleased
