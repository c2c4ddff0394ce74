SPECIFICATION GateSpec
CONSTANTS
  Commits = {c1, c2}
  MaxEdits = 1
  Requests <- SomeCommands
  MaxChanges = 2
  None = None
SYMMETRY Symmetric
INVARIANTS GateTypeOK OneSource ManifestHonest GatePassIsBuilt
PROPERTY KeepsFiles
CHECK_DEADLOCK FALSE
