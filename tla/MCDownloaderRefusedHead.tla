----------------------- MODULE MCDownloaderRefusedHead -----------------------
(* Nothing goes wrong but the links' expiry: a link expires before the HEAD *)
(* request, whose refusal has a body of three bytes.                        *)
EXTENDS Downloader

MC_RemoteSize == 5
MC_NumHunks == 2
MC_OldSize == 0
MC_DiskFree == 8
MC_ErrorLengths == {3}
MC_Faults == {}
MC_MaxRetries == 0
MC_MaxExpiries == 1

=============================================================================
