CONSTANTS
  floor = floor
  wall = wall
  Prompts = {floor, wall}
  MaxInner = 2
  MaxPublic = 4
SYMMETRY Symmetry
SPECIFICATION Spec
INVARIANTS TypeOK PublicIdsDistinct RetiredStayRetired
PROPERTIES IdKeepsPrompt LossForcesDetection
