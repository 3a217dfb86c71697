---------------------------- MODULE MCDownloader ----------------------------
(* A download in two ranges of two and three bytes, into a file that holds  *)
(* two older bytes, under every fault, with retries of retries.             *)
EXTENDS Downloader

MC_RemoteSize == 5
MC_NumHunks == 2
MC_OldSize == 2
MC_DiskFree == 8
MC_ErrorLengths == {UnknownLength, 0}
MC_Faults == FaultNames
MC_MaxRetries == 2
MC_MaxExpiries == 2

=============================================================================
