SPECIFICATION FairSpec
CONSTANTS
  Sourced <- RouteOnly
  Validators = {TRUE, FALSE}
  MaxEdits = 1
  MaxPublish = 1
  MaxCrashes = 1
CHECK_DEADLOCK FALSE
INVARIANTS  NotModifiedIsRight
 
