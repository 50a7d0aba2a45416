SPECIFICATION FairSpec
CONSTANTS
  Nodes <- ThreeNodes
  Conns <- FourConns
  Networks <- AllNetworks
CHECK_DEADLOCK FALSE
INVARIANTS AgreeAtRest ClosedIsSilent
PROPERTIES CloseTerminates Reconnects
