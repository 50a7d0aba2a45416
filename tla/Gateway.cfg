SPECIFICATION Spec
CONSTANTS
  WordSize = 16
  Octet = 4
  MaxProbes = 8
  Handlers = {h1, h2}
  Reals <- FourReals
  Hash <- SameHash
  Pool4 <- FourAddrs
  Pool6 <- OneAddr6
  Workloads <- BothWorkloads
  TTL = 3
  Grace = 2
  MaxTTL = 2
  AddRefreshes = TRUE
  MaxVersion = 4
SYMMETRY Symmetry
CHECK_DEADLOCK FALSE
INVARIANTS FailedQueryLeavesNothing AnswerIsRouted
 
