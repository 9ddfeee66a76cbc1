SPECIFICATION FairSpec
CONSTANTS
  Keys <- MCKeys
  Outcomes <- Both
  MaxGen = 1
  MaxSession = 2
  MaxUp = 3
  MaxDown = 2
  MaxResend = 2
  MaxLost = 1
INVARIANTS DownstreamIsOneStream UpstreamButLast
PROPERTIES SynAnswered
CHECK_DEADLOCK FALSE
