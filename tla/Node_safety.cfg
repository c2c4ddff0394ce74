CONSTANTS
  k1 = k1
  k2 = k2
  None = None
  Controllers = {k1, k2}
  ReentrantPublish = TRUE
  MaxSequence = 2
  MaxSession = 1
SYMMETRY Symmetry
SPECIFICATION Spec
INVARIANTS TypeOK ModelUntouched NoOldPublication RequestServed FinishDrains
PROPERTY PipelinesAreFresh
CHECK_DEADLOCK FALSE
