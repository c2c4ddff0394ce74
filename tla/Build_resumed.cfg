SPECIFICATION GateSpec
CONSTANTS
  Commits = {c1, c2}
  MaxEdits = 1
  Requests <- TrackerTwice
  MaxChanges = 0
  None = None
INVARIANT AllOkIsBuilt
CHECK_DEADLOCK FALSE
