SPECIFICATION Spec
CONSTANTS
  Names <- PlainHosts
  Hosts <- PlainHosts
  Removable <- OneRemovable
  AdLines <- BlockLines
  WhiteLines <- PlainLines
  PrefixLabels <- StripLabels
  Casino <- OneCasino
  FilterCasino = TRUE
  Width = 4
  Limits = {1, 2}
  MinPrefix = 2
  MinAllowed = 1
  IncludeIPs <- UpToThree
  ExcludeIPs <- OneOrNone
  DenyIPs <- SomeDeny
CHECK_DEADLOCK FALSE
INVARIANTS   RoutesAreRight WideningIsBounded
