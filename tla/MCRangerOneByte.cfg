CONSTANTS
  MaxLength <- MC_MaxLength
  MaxHunks <- MC_MaxHunks
SPECIFICATION Spec
INVARIANTS
  SomeRangeForEveryFile
CHECK_DEADLOCK FALSE
