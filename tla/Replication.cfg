SPECIFICATION Spec
CONSTANTS
  WordSize = 16
  Octet = 4
  MaxProbes = 8
  Nodes = {n1, n2}
  Reals <- TwoReals
  Hashes <- BothHashes
  Geo <- FourAddrs
  Skews <- OneAhead
  MaxAllocs = 3
  MaxDrops = 1
  TTL = 2
  Grace = 2
  MaxClock = 3
  MaxEvents = 5
SYMMETRY Symmetry
INVARIANTS NothingMissed InSyncWithoutCollisions 
PROPERTIES CausalVersions
CHECK_DEADLOCK FALSE
