CONSTANTS
  floor = floor
  wall = wall
  chair = chair
  Texts = {floor, wall, chair}
  MaxPrompts = 2
  RedetectEvery = 2
  BootstrapFrames = 2
  CheckInterval = 3
  GraceFrames = 2
SPECIFICATION FairSpec
INVARIANTS TypeOK ExemplarIsCurrent RebootstrapOnce
PROPERTY DriftCheckRecurs
