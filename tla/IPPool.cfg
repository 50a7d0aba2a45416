SPECIFICATION Spec
CONSTANTS
  WordSize = 16
  Octet = 4
  MaxProbes = 8
  Resolvers = {t1, t2}
  Receivers = {p1}
  Reals <- ThreeReals
  Hash <- Collide
  Pool4 <- FourAddrs
  Pool6 <- TwoAddrs6
  Queries <- PairQueries
  PeerMappings <- SomeMappings
  NumShards = 2
  ShardOf <- TwoShards
  TTL = 3
  Grace = 2
  WallTimes = {0}
  MaxClock = 4
  MaxVersion = 2
  MaxStall = 1
INVARIANTS MapsMirror HLCAhead AnswerLease FailedCallLeavesNothing
PROPERTIES LiveLeaseKept FakeNeverRegresses PassFreesExpired 
SYMMETRY Symmetry
