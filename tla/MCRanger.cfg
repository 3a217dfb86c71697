CONSTANTS
  MaxLength <- MC_MaxLength
  MaxHunks <- MC_MaxHunks
SPECIFICATION Spec
INVARIANTS
  RangesPartitionTheFile
  FewerThanTwiceTheHunks
CHECK_DEADLOCK FALSE
