CONSTANTS
  k1 = k1
  k2 = k2
  None = None
  Controllers = {k1, k2}
  ReentrantPublish = FALSE
  MaxSequence = 0
  MaxSession = 1
SPECIFICATION FairSpec
PROPERTY TransitionEnds
