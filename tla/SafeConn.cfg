SPECIFICATION FairSpec
CONSTANTS
  snapshot = snapshot
  b1 = b1
  b2 = b2
  Producers = {snapshot, b1, b2}
  Batches <- Messages
  QueueSize = 2
  MaxPings = 1
CHECK_DEADLOCK FALSE
INVARIANTS WireIsPrefix LossCloses
PROPERTIES WriterEnds
