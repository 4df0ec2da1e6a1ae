SPECIFICATION Spec
CONSTANTS
  CacheSize = 2
  Addr <- MCAddr
  Hole = Hole
  MoovCap = 12
  MaxSamples = 2
  MaxLen = 3
  Lens = {1, 3}
INVARIANTS
  TypeOK
  CacheKept
  
  IndexIsDurable
  
  OpenedWhole
PROPERTIES
  CacheKeepsPromise
CHECK_DEADLOCK FALSE
