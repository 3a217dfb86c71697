-------------------------- MODULE MCRelinkedDownload --------------------------
(* A download in two ranges of a byte whose links expire and whose requests *)
(* fail once, beside another goroutine of the process that fetches links    *)
(* twice.                                                                   *)
EXTENDS RelinkedDownload

CONSTANT stranger

MC_RemoteSize == 2
MC_NumHunks == 2
MC_OldSize == 0
MC_DiskFree == 8
MC_ErrorLengths == {-1}  \* UnknownLength
MC_Faults == {"temporary"}
MC_MaxRetries == 1
MC_MaxExpiries == 2
MC_MaxCalls == 2
MC_Fetchers == {0, 1, 2, 3, stranger}
MC_Others == {-1}

=============================================================================
