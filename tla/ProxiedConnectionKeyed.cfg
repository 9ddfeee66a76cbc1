SPECIFICATION ConnSpec
CONSTANTS
  Programs <- Everybody
  NameLengths <- Lengths
  Proxied = "p"
  Clients <- TheProxied
  Outsiders = {}
  Modes <- OnlyReality
  MaxStarts = 1
  Scene <- AnyScene
INVARIANTS KeyedClientIsLetIn
CHECK_DEADLOCK FALSE
