CONSTANTS
  p1 = p1
  p2 = p2
  c1 = c1
  c2 = c2
  k1 = k1
  k2 = k2
  None = None
  Producers = {p1, p2}
  Consumers = {c1, c2}
  Controllers = {c1, k1, k2}
  Interruptible = {}
  ReentrantClose = TRUE
  MaxSequence = 2
SPECIFICATION Spec
SYMMETRY Symmetry
INVARIANTS FramesAccounted CloseIsBarrier FailureIsSticky
PROPERTY ImplementsFreshFrames
CHECK_DEADLOCK FALSE
