SPECIFICATION FairSpec
CONSTANTS
  Orders <- BothOrders
  Configs <- PairConfigs
  MaxPublish = 2
  MaxCrashes = 1
CHECK_DEADLOCK FALSE
INVARIANTS EtagIsHonest 
PROPERTIES EngineFollows
