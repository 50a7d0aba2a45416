SPECIFICATION Spec
CONSTANTS
  WordSize = 16
  Octet = 4
  MaxProbes = 8
  Geometries <- Aligned
INVARIANTS OnlyUsable 
