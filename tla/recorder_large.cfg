SPECIFICATION Spec
CONSTANTS
  CacheSize = 2
  Addr <- MCAddr
  Hole = Hole
  MoovCap = 12
  MaxSamples = 2
  MaxLen = 3
  Lens = {1, 3}
INVARIANTS
  FramesAreWritten
CHECK_DEADLOCK FALSE
