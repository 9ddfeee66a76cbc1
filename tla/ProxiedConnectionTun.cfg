SPECIFICATION ConnSpec
CONSTANTS
  Programs <- OnlyTun
  NameLengths <- Lengths
  Proxied = "p"
  Clients <- TheProxied
  Outsiders = {}
  Modes <- OnlyPlain
  MaxStarts = 1
  Scene <- AnyScene
INVARIANTS GrantIsUnderstood
CHECK_DEADLOCK FALSE
