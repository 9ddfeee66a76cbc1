SPECIFICATION ConnFairSpec
CONSTANTS
  Programs <- Everybody
  NameLengths <- Lengths
  Proxied = "p"
  Clients <- TheProxied
  Outsiders = {"o"}
  Modes <- AllModes
  MaxStarts = 2
  Scene <- OneOfAKind
INVARIANTS ConnInv TunnelIsAsked ConnectedIsTunnel AppIsServed OnlyTheKeyOpens ProbeIsAnswered
PROPERTIES ConnectionSettles
CHECK_DEADLOCK FALSE
