SPECIFICATION FairSpec
CONSTANTS
  Ops = {1, 2, 3, 4}
  Element <- Stateless
  IPv6Fakes = {"f6"}
  EnableIPv6 = FALSE
  QueueSize = 2
  BatchSize = 2
  InitialMap <- Held
  MaxFailures = 2
CHECK_DEADLOCK FALSE
INVARIANTS EachAnsweredOnce 
PROPERTIES CloseEnds QueueIsServed
