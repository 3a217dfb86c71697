----------------------------- MODULE Downloader -----------------------------
(***************************************************************************)
(* Client.Get of the download package (download/downloader.go): the call   *)
(* cuts the file into byte ranges, starts one goroutine (here: a worker)   *)
(* per range, and waits for all of them.  Workers run retryableRequest,    *)
(* whose goto Retry loop seeks, requests its range, asks for a fresh link  *)
(* when the old one is refused, and copies the body into the output file.  *)
(*                                                                         *)
(* The pivnet API, the file server and the operating system are the        *)
(* environment: what they may inflict on the call is the set Faults.       *)
(* Download links expire: a link is the number of expiries that preceded   *)
(* its issue, and the server accepts only links issued since the last one. *)
(*                                                                         *)
(* Byte b of the remote file is modelled as the number b, so a position p  *)
(* of the output file holds the right byte iff file[p] = p.                *)
(***************************************************************************)
EXTENDS Ranger, Functions

CONSTANTS
  RemoteSize,    \* the length of the remote file
  NumHunks,      \* Ranger.numHunks; the pivnet client sets it to 10
  OldSize,       \* the number of bytes already in the output file
  DiskFree,      \* what disk.Usage reports as free
  ErrorLengths,  \* the content lengths of a refusal of the HEAD request
  Faults,        \* what may go wrong, out of FaultNames
  MaxRetries,    \* bound: how many attempts the network may disturb
  MaxExpiries    \* bound: how often the download links may expire

FaultNames ==
  {"link",        \* NewDownloadLink fails
   "head",        \* the HEAD request gets no response
   "headStatus",  \* the HEAD request is refused although the link is valid
   "disk",        \* disk.Usage or Stat fails
   "open",        \* the output file cannot be opened once more
   "seek",        \* Seek fails
   "temporary",   \* a temporary net.Error from Do
   "fatal",       \* any other error from Do
   "status",      \* neither 206 nor 403 although the link is valid
   "eof",         \* io.ErrUnexpectedEOF while copying
   "reset",       \* a *net.OpError that says "connection reset by peer"
   "operror",     \* any other *net.OpError while copying
   "copyerror"}   \* an error that is no *net.OpError, such as a failed write

ASSUME RemoteSizeAssumption == RemoteSize \in Nat \ {0}
ASSUME NumHunksAssumption == NumHunks \in Nat \ {0}
ASSUME DiskAssumption == OldSize \in Nat /\ DiskFree \in Nat
ASSUME ErrorLengthsAssumption ==
         ErrorLengths \subseteq ContentLength /\ ErrorLengths # {}
ASSUME FaultsAssumption == Faults \subseteq FaultNames
ASSUME BoundsAssumption == MaxRetries \in Nat /\ MaxExpiries \in Nat

\* A worker is the number of its range.  That there are never more workers
\* than this is theorem FewerRangesThanWorkers of RangerProofs.
Worker == 1 .. 2 * NumHunks - 1

RemoteBytes == 0 .. RemoteSize - 1
Positions == 0 .. (IF OldSize > RemoteSize THEN OldSize ELSE RemoteSize) - 1
Absent == -1
Old == -2

VARIABLES
  pc,          \* where Get is, or how it has returned
  contentURL,  \* the link Get passes to every worker
  length,      \* ContentLength of the response to HEAD
  next,        \* the range the spawning loop has reached
  wpc,         \* where each worker is
  url,         \* currentURL of each worker
  fpos,        \* the offset of each worker's file handle
  written,     \* the bytes copied by each worker's current attempt
  file,        \* what each position of the output file holds
  bar,         \* the count of the progress bar
  expiries,    \* how often the links have expired
  retries      \* how many attempts the network has disturbed

mainVars == <<pc, contentURL, length, next>>
workerVars == <<wpc, url, fpos, written>>
envVars == <<expiries, retries>>
vars == <<mainVars, workerVars, file, bar, envVars>>

MainStates == {"link", "head", "prepare", "open", "ok", "err", "openErr", "crashed"}
WorkerStates == {"idle", "seek", "get", "relink", "copy", "ok", "failed"}

TypeOK ==
  /\ pc \in MainStates
  /\ contentURL \in Nat
  /\ length \in ContentLength
  /\ next \in Nat \ {0}
  /\ wpc \in [Worker -> WorkerStates]
  /\ url \in [Worker -> Nat]
  /\ fpos \in [Worker -> Nat]
  /\ written \in [Worker -> Nat]
  /\ file \in [Positions -> RemoteBytes \cup {Absent, Old}]
  /\ bar \in Int
  /\ expiries \in Nat
  /\ retries \in Nat

Init ==
  /\ pc = "link"
  /\ contentURL = 0
  /\ length = 0
  /\ next = 1
  /\ wpc = [w \in Worker |-> "idle"]
  /\ url = [w \in Worker |-> 0]
  /\ fpos = [w \in Worker |-> 0]
  /\ written = [w \in Worker |-> 0]
  /\ file = [p \in Positions |-> IF p < OldSize THEN Old ELSE Absent]
  /\ bar = 0
  /\ expiries = 0
  /\ retries = 0

-----------------------------------------------------------------------------
(* The call itself *)

FetchLink ==
  /\ pc = "link"
  /\ \/ /\ pc' = "head"
        /\ contentURL' = expiries
     \/ /\ "link" \in Faults
        /\ pc' = "err"
        /\ UNCHANGED contentURL
  /\ UNCHANGED <<length, next, workerVars, file, bar, envVars>>

\* The status of the response is not looked at: a refusal has a length too.
HeadLengths ==
  (IF contentURL = expiries THEN {RemoteSize, UnknownLength} ELSE {})
    \cup (IF contentURL # expiries \/ "headStatus" \in Faults THEN ErrorLengths ELSE {})

HeadRequest ==
  /\ pc = "head"
  /\ \/ /\ pc' = "prepare"
        /\ length' \in HeadLengths
     \/ /\ "head" \in Faults
        /\ pc' = "err"
        /\ UNCHANGED length
  /\ UNCHANGED <<contentURL, next, workerVars, file, bar, envVars>>

\* The comparison is made in uint64, where -1 exceeds any free space.
TooBig == length < 0 \/ DiskFree < length

Prepare ==
  /\ pc = "prepare"
  /\ \/ /\ ~BuildRangeFails(length)
        /\ ~TooBig
        /\ pc' = "open"
     \/ /\ BuildRangeFails(length) \/ TooBig \/ "disk" \in Faults
        /\ pc' = "err"
  /\ UNCHANGED <<contentURL, length, next, workerVars, file, bar, envVars>>

Count == Iterations(length, NumHunks)
Lo(w) == Lower(length, NumHunks, w)
Hi(w) == Upper(length, NumHunks, w)

SpawnWorker ==
  /\ pc = "open"
  /\ next <= Count
  /\ wpc' = [wpc EXCEPT ![next] = "seek"]
  /\ url' = [url EXCEPT ![next] = contentURL]
  /\ next' = next + 1
  /\ UNCHANGED <<pc, contentURL, length, fpos, written, file, bar, envVars>>

\* Get returns at once; the workers it has started keep running.
OpenFails ==
  /\ pc = "open"
  /\ next <= Count
  /\ "open" \in Faults
  /\ pc' = "openErr"
  /\ UNCHANGED <<contentURL, length, next, workerVars, file, bar, envVars>>

Running(w) == wpc[w] \in {"seek", "get", "relink", "copy"}

\* Mutant: the call waits for the success of every goroutine.
Joined_OnlySuccess == next > Count /\ \A w \in 1 .. Count : wpc[w] = "ok"

\* Mutant: the call does not wait for its goroutines.
Joined_WithoutWait == next > Count

Joined == next > Count /\ \A w \in Worker : ~Running(w)

\* Mutant: the error of a goroutine is not passed on.
WaitResult_Ignored == "ok"

WaitResult == IF \E w \in Worker : wpc[w] = "failed" THEN "err" ELSE "ok"

Wait ==
  /\ pc = "open"
  /\ Joined
  /\ pc' = WaitResult
  /\ UNCHANGED <<contentURL, length, next, workerVars, file, bar, envVars>>

Main == FetchLink \/ HeadRequest \/ Prepare \/ SpawnWorker \/ OpenFails \/ Wait

-----------------------------------------------------------------------------
(* The workers: retryableRequest.  A panic in one goroutine ends them all. *)

At(w, state) == pc # "crashed" /\ wpc[w] = state
Goto(w, state) == wpc' = [wpc EXCEPT ![w] = state]

\* Mutant: the offset is taken for a count of bytes.
SeekTo_ByteBefore(w) == Lo(w) - 1

\* Mutant: Retry is a label below the call of Seek.
SeekTo_FirstTimeOnly(w) == IF retries = 0 THEN Lo(w) ELSE fpos[w]

SeekTo(w) == Lo(w)

Seek(w) ==
  /\ At(w, "seek")
  /\ \/ /\ fpos' = [fpos EXCEPT ![w] = SeekTo(w)]
        /\ Goto(w, "get")
     \/ /\ "seek" \in Faults
        /\ Goto(w, "failed")
        /\ UNCHANGED fpos
  /\ UNCHANGED <<mainVars, url, written, file, bar, envVars>>

TemporaryError(w) ==
  /\ At(w, "get")
  /\ "temporary" \in Faults
  /\ retries < MaxRetries
  /\ retries' = retries + 1
  /\ Goto(w, "seek")
  /\ UNCHANGED <<mainVars, url, fpos, written, file, bar, expiries>>

RequestFails(w) ==
  /\ At(w, "get")
  /\ "fatal" \in Faults
  /\ Goto(w, "failed")
  /\ UNCHANGED <<mainVars, url, fpos, written, file, bar, envVars>>

LinkRefused(w) ==
  /\ At(w, "get")
  /\ url[w] # expiries
  /\ Goto(w, "relink")
  /\ UNCHANGED <<mainVars, url, fpos, written, file, bar, envVars>>

\* A range that starts past the end of the file is not satisfiable.
UnexpectedStatus(w) ==
  /\ At(w, "get")
  /\ url[w] = expiries
  /\ Lo(w) >= RemoteSize \/ "status" \in Faults
  /\ Goto(w, "failed")
  /\ UNCHANGED <<mainVars, url, fpos, written, file, bar, envVars>>

PartialContent(w) ==
  /\ At(w, "get")
  /\ url[w] = expiries
  /\ Lo(w) < RemoteSize
  /\ Goto(w, "copy")
  /\ UNCHANGED <<mainVars, url, fpos, written, file, bar, envVars>>

\* Mutant: the new link is assigned to a variable that shadows currentURL.
FreshURL_Shadowed(w) == url[w]

FreshURL(w) == expiries

Relink(w) ==
  /\ At(w, "relink")
  /\ \/ /\ url' = [url EXCEPT ![w] = FreshURL(w)]
        /\ Goto(w, "seek")
     \/ /\ "link" \in Faults
        /\ Goto(w, "failed")
        /\ UNCHANGED url
  /\ UNCHANGED <<mainVars, fpos, written, file, bar, envVars>>

-----------------------------------------------------------------------------
(* The workers: io.Copy *)

\* The number of bytes the server has for the range of w.
BodySize(w) == (IF Hi(w) < RemoteSize THEN Hi(w) ELSE RemoteSize - 1) - Lo(w) + 1

\* One read of the body and the write of what it returned.
CopyChunk(w) ==
  /\ At(w, "copy")
  /\ \E n \in 1 .. BodySize(w) - written[w] :
       /\ file' = [p \in Positions |->
                     IF p \in fpos[w] .. fpos[w] + n - 1
                       THEN Lo(w) + written[w] + (p - fpos[w])
                       ELSE file[p]]
       /\ fpos' = [fpos EXCEPT ![w] = @ + n]
       /\ written' = [written EXCEPT ![w] = @ + n]
       /\ bar' = bar + n
  /\ UNCHANGED <<mainVars, wpc, url, envVars>>

\* io.Copy ends without an error.  The code takes that for the whole range and
\* compares nothing; that the body was complete then is net/http's doing, which
\* makes io.ErrUnexpectedEOF of one that is shorter than its Content-Length
\* (CopyBroken).
CopyDone(w) ==
  /\ At(w, "copy")
  /\ written[w] = BodySize(w)
  /\ Goto(w, "ok")
  /\ UNCHANGED <<mainVars, url, fpos, written, file, bar, envVars>>

\* Mutant: the bytes of the broken attempt stay on the bar.
BarAfterBreak_Kept(w) == bar

BarAfterBreak(w) == bar - written[w]

\* Mutant: a broken body is taken for a complete one.
AfterBreak_Success == "ok"

AfterBreak == "seek"

CopyBroken(w) ==
  /\ At(w, "copy")
  /\ {"eof", "reset"} \cap Faults # {}
  /\ retries < MaxRetries
  /\ retries' = retries + 1
  /\ bar' = BarAfterBreak(w)
  /\ written' = [written EXCEPT ![w] = 0]
  /\ Goto(w, AfterBreak)
  /\ UNCHANGED <<mainVars, url, fpos, file, expiries>>

CopyFails(w) ==
  /\ At(w, "copy")
  /\ "operror" \in Faults
  /\ Goto(w, "failed")
  /\ UNCHANGED <<mainVars, url, fpos, written, file, bar, envVars>>

\* err.(*net.OpError) yields nil, and oe.Err dereferences it.
CopyPanics(w) ==
  /\ At(w, "copy")
  /\ "copyerror" \in Faults
  /\ pc' = "crashed"
  /\ UNCHANGED <<contentURL, length, next, workerVars, file, bar, envVars>>

Work(w) ==
  \/ Seek(w)
  \/ TemporaryError(w) \/ RequestFails(w)
  \/ LinkRefused(w) \/ UnexpectedStatus(w) \/ PartialContent(w)
  \/ Relink(w)
  \/ CopyChunk(w) \/ CopyDone(w)
  \/ CopyBroken(w) \/ CopyFails(w) \/ CopyPanics(w)

\* The server stops accepting the links it has issued so far.
ExpireLinks ==
  /\ expiries < MaxExpiries
  /\ expiries' = expiries + 1
  /\ UNCHANGED <<mainVars, workerVars, file, bar, retries>>

Next == Main \/ (\E w \in Worker : Work(w)) \/ ExpireLinks

Spec == Init /\ [][Next]_vars

\* The Go scheduler runs every goroutine, and every request is answered or
\* fails; the environment need not disturb anything or let links expire.
FairSpec == Spec /\ WF_vars(Main) /\ \A w \in Worker : WF_vars(Work(w))

-----------------------------------------------------------------------------
(* Safety *)

\* When Get returns nil, every byte below the length that the HEAD request
\* announced is in its place (downloader.go:114-118), whatever the workers
\* went through: retries, broken bodies, refused links.  With the length of
\* the file announced, that is the whole file.  Lengths below two are the
\* subject of RangerCall.
OkMeansWholeFile ==
  (pc = "ok" /\ length >= 2) =>
    \A b \in RemoteBytes : b < length => file[b] = b

\* At every moment, each position of the output file holds its own byte of
\* the remote file or what it held before the call: neither a retry that
\* starts over in the middle of its range (downloader.go:126-127) nor a
\* neighbour's range ever puts a byte in the wrong place.
NoMisplacedBytes ==
  \A p \in Positions :
    file[p] \in {p, IF p < OldSize THEN Old ELSE Absent}

\* The bar counts exactly the bytes of the attempts that were not broken off
\* (downloader.go:169-179), and so is full when Get has fetched a file of the
\* length that was announced.
BarCountsTheBytes ==
  /\ bar = SumFunction(written)
  /\ (pc = "ok" /\ length \in 2 .. RemoteSize) => bar = length

\* When Get returns nil or the error of a worker, no worker is left that could
\* still write to the caller's file (downloader.go:114).  It does not hold of
\* the return for a failed OpenFile (downloader.go:100-101).
NoWorkerOutlivesTheCall ==
  pc \in {"ok", "err"} => \A w \in Worker : ~Running(w)

\* A worker that goes back to the server after a refused link has a younger
\* link than the one that was refused (downloader.go:155-161).  Otherwise the
\* loop of refusals would go on for ever.
RetryUsesFreshLink ==
  [][\A w \in Worker :
       (wpc[w] = "relink" /\ wpc'[w] = "seek") => url'[w] > url[w]]_vars

\* "When the file cannot be written to ... returns an error" (the test at
\* download/downloader_test.go:505-506), and "failed to write file during
\* io.Copy" (downloader.go:182): Get does not take the program down.
FailuresAreReturned == pc # "crashed"

\* "Writes the product to the given location" (download/downloader_test.go:69):
\* success means that the file is there in full.
WritesTheProduct ==
  pc = "ok" => \A b \in RemoteBytes : file[b] = b

-----------------------------------------------------------------------------
(* Liveness *)

\* Get returns, or the program ends: the workers cannot keep each other or the
\* call waiting for ever, if the network disturbs finitely many attempts.
EventuallyReturns == <>(pc \in {"ok", "err", "openErr", "crashed"})

\* At most how many steps the call and each worker have left, if the network
\* disturbs nothing more: a worker starts with an old link at worst, is refused
\* once, and reads one byte at a time.
CallLeft ==
  CASE pc = "link" -> 5
    [] pc = "head" -> 4
    [] pc = "prepare" -> 3
    [] pc = "open" -> 2
    [] pc = "openErr" -> 1
    [] OTHER -> 0

WorkerLeft(w) ==
  CASE wpc[w] = "idle" -> RemoteSize + 7
    [] wpc[w] = "seek" -> RemoteSize + (IF url[w] = expiries THEN 3 ELSE 6)
    [] wpc[w] = "get" -> RemoteSize + (IF url[w] = expiries THEN 2 ELSE 5)
    [] wpc[w] = "relink" -> RemoteSize + 4
    [] wpc[w] = "copy" -> BodySize(w) - written[w] + 1
    [] OTHER -> 0

StepsLeft == CallLeft + SumFunction([w \in Worker |-> WorkerLeft(w)])

\* No step that is not itself a disturbance leads back: between the
\* disturbances, which the code answers with goto Retry (downloader.go:126), the
\* loops of all the workers together make no more steps than were left, in
\* whatever order they run.  A refused link above all never comes back as the
\* new one.
EveryStepIsProgress ==
  [][\/ retries' + expiries' > retries + expiries
     \/ StepsLeft' \in 0 .. StepsLeft - 1]_vars

\* A worker that was started ends, also when the call has long returned.
WorkersFinish ==
  \A w \in Worker : (wpc[w] = "seek") ~> (wpc[w] \in {"ok", "failed"} \/ pc = "crashed")

-----------------------------------------------------------------------------
(* The promise to the caller *)

outcome ==
  CASE pc \in {"link", "head", "prepare", "open"} -> "pending"
    [] pc \in {"err", "openErr"} -> "err"
    [] OTHER -> pc

D == INSTANCE Download
       WITH have <- {b \in RemoteBytes : file[b] = b},
            outcome <- outcome

\* With a HEAD request that announces the file's own length or none, Get keeps
\* the promise of Download: bytes only ever arrive, success comes with all of
\* them, and after it nothing changes.
KeepsItsPromise == D!Spec

=============================================================================
