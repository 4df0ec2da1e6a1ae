SPECIFICATION Spec
CONSTANTS
  p1 = p1
  p2 = p2
  f1 = f1
  f2 = f2
  f3 = f3
  f4 = f4
  Nobody = Nobody
  Producers = {p1, p2}
  Frames = {f1, f2, f3}
  FrameLen <- MCFrameLen
  QUEUE_SIZE = 3
  HasRemake = TRUE
  MaxBytes = 3
INVARIANTS
  QInv
  OneOwner
  HeadStays
  SentBeforeFreed
PROPERTIES
  QueueKeepsPromise
SYMMETRY Symmetry
