SPECIFICATION Spec
CONSTANTS
  Pipelines = {p1, p2}
  Iterators = {i1, i2}
  IndexLists <- ShortLists
  None = None
  MaxJobs = 4
  MaxEntries = 2
SYMMETRY Symmetric
INVARIANTS TypeOK BuffersHeld FeaturesReady
CHECK_DEADLOCK FALSE
