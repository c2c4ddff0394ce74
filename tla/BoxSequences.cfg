CONSTANTS
  t1 = t1
  t2 = t2
  None = None
  Trackers = {t1, t2}
  Exported = 2
  Sizes = {1, 2, 3}
  MaxSubjects = 3
  MaxFrames = 3
  MaxCalls = 3
  MaxLaunches = 3
  Every = 2
SPECIFICATION Spec
INVARIANTS TypeOK AttentionInputRight OwnMemories ResumedIsComplete
CONSTRAINT ClientsFirst
CHECK_DEADLOCK FALSE
