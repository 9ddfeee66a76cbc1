SPECIFICATION Spec
CONSTANTS
  Keys <- MCKeys
  Outcomes <- Both
  MaxGen = 2
  MaxSession = 3
  MaxUp = 2
  MaxDown = 0
  MaxResend = 1
  MaxLost = 1
INVARIANTS TypeOK StreamInv UpstreamIsOwn UpstreamHasNoGap
CHECK_DEADLOCK FALSE
