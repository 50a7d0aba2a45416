SPECIFICATION Spec
CONSTANTS
  WordSize = 16
  Octet = 4
  MaxProbes = 8
  Nodes = {n1, n2}
  Reals <- ThreeReals
  Hashes <- SomeHash
  Geo <- FourAddrs
  Skews <- NoSkew
  MaxAllocs = 4
  MaxDrops = 0
  TTL = 3
  Grace = 2
  MaxClock = 0
  MaxEvents = 5
SYMMETRY Symmetry
INVARIANTS NoSplitBrain
CHECK_DEADLOCK FALSE
