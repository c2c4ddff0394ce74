CONSTANTS
  t1 = t1
  t2 = t2
  x1 = x1
  x2 = x2
  None = None
  Callers = {t1, t2}
  Closers = {x1, x2}
SYMMETRY Symmetry
SPECIFICATION Spec
INVARIANTS WorkersJoined SpoiledNotReused EncodedBeforeWorkers
           ClosedBetweenFrames
