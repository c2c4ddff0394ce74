CONSTANTS
  p1 = p1
  p2 = p2
  c1 = c1
  c2 = c2
  k1 = k1
  k2 = k2
  None = None
  Producers = {p1}
  Consumers = {c1}
  Controllers = {c1, k1, k2}
  Interruptible = {k1}
  ReentrantClose = FALSE
  MaxSequence = 2
SPECIFICATION FairSpec
INVARIANTS ClaimCoversInference PoisonBeforeRelease
PROPERTIES CloseTerminates EndOfInputWakesConsumer
