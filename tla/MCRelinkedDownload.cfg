CONSTANTS
  stranger = stranger
  RemoteSize <- MC_RemoteSize
  NumHunks <- MC_NumHunks
  OldSize <- MC_OldSize
  DiskFree <- MC_DiskFree
  ErrorLengths <- MC_ErrorLengths
  Faults <- MC_Faults
  MaxRetries <- MC_MaxRetries
  MaxExpiries <- MC_MaxExpiries
  MaxCalls <- MC_MaxCalls
  Fetchers <- MC_Fetchers
  Others <- MC_Others
SPECIFICATION RelinkFairSpec
INVARIANTS
  RelinkTypeOK
  PolicyIsRestored
  OnlyFetchersOvertake
  AttemptsAreBounded
PROPERTIES
  DownloadReturns
  ServesTheDownloader
CHECK_DEADLOCK FALSE
