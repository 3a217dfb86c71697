CONSTANTS
  RemoteSize <- MC_RemoteSize
  NumHunks <- MC_NumHunks
  OldSize <- MC_OldSize
  DiskFree <- MC_DiskFree
  ErrorLengths <- MC_ErrorLengths
  Faults <- MC_Faults
  MaxRetries <- MC_MaxRetries
  MaxExpiries <- MC_MaxExpiries
SPECIFICATION Spec
INVARIANTS
  FailuresAreReturned
CHECK_DEADLOCK FALSE
