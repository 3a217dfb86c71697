--------------------------- MODULE RelinkedDownload ---------------------------
(***************************************************************************)
(* ProductFilesService.DownloadForRelease (product_files.go): a call looks *)
(* the product file up, takes the address of its download link from it,    *)
(* and hands a ProductFileLinkFetcher to the downloader's Get, which uses  *)
(* it in the calling goroutine and in each of its workers.                 *)
(*                                                                         *)
(* This is the composition of Downloader and LinkFetcher: where Downloader *)
(* gets a link in one step, the goroutine here goes through the steps of   *)
(* LinkFetcher, over the http.Client that the other workers, the downloads *)
(* of other goroutines and the calls of all services share; the server may *)
(* let the link expire while it is on its way; and the policy of the       *)
(* shared client decides whether the goroutine ever sees it.  The          *)
(* downloader's own requests go over a client of their own.                *)
(***************************************************************************)
EXTENDS LinkFetcher, Integers

CONSTANTS
  RemoteSize, NumHunks, OldSize, DiskFree, ErrorLengths,
  Faults, MaxRetries, MaxExpiries  \* all as in Downloader

VARIABLES
  stage,     \* where DownloadForRelease is: before Get, in it, or back with an error
  dpc, contentURL, length, next, wpc, url, fpos, written, file, bar,
  expiries, retries,  \* all as in Downloader, its pc being dpc
  issued,    \* the link each fetcher's request was answered with last
  referers,  \* how many Referers the header of each range has
  bodies     \* how many response bodies each worker has open

G == INSTANCE Downloader WITH pc <- dpc

getVars == <<dpc, contentURL, length, next, wpc, url, fpos, written, file, bar, expiries, retries>>
fetchVars == <<checkRedirect, pc, answer, result, calls>>
workVars == <<referers, bodies>>
allVars == <<fetchVars, getVars, stage, issued, workVars>>

\* The goroutines of the call: that of the caller, as it looks the file up and
\* as it runs Get, and the workers, which have the numbers of their ranges.
Lookup == -1
Getter == 0
Mine == {Getter} \cup G!Worker

ASSUME GoroutinesAssumption == Mine \subseteq Fetchers /\ Others = {Lookup}

\* The assumptions of Downloader about its constants.
ASSUME DownloadAssumption ==
         /\ RemoteSize \in Nat \ {0} /\ NumHunks \in Nat \ {0}
         /\ OldSize \in Nat /\ DiskFree \in Nat
         /\ ErrorLengths \subseteq G!ContentLength /\ ErrorLengths # {}
         /\ Faults \subseteq G!FaultNames
         /\ MaxRetries \in Nat /\ MaxExpiries \in Nat

\* A failure to get a link is one of LinkFetcher's, not one of Downloader's.
ASSUME LinkAssumption == "link" \notin Faults

\* The bound on calls never keeps a worker from asking for a link.
ASSUME EnoughCallsAssumption == MaxCalls >= 1 /\ MaxCalls >= MaxExpiries

RelinkTypeOK ==
  /\ TypeOK
  /\ G!TypeOK
  /\ stage \in {"lookup", "get", "error"}
  /\ issued \in [Fetchers -> Nat]
  /\ referers \in [G!Worker -> Nat]
  /\ bodies \in [G!Worker -> Nat]

RelinkInit ==
  /\ Init
  /\ G!Init
  /\ stage = "lookup"
  /\ issued = [f \in Fetchers |-> 0]
  /\ referers = [w \in G!Worker |-> 0]
  /\ bodies = [w \in G!Worker |-> 0]

-----------------------------------------------------------------------------
(* Looking the file up *)

LookUp ==
  /\ stage = "lookup"
  /\ BeginOther(Lookup) \/ Answered(Lookup) \/ Redirected(Lookup) \/ Refused(Lookup)
  /\ UNCHANGED <<stage, getVars, issued, workVars>>

\* DownloadLink needs the links of the file, which may be missing from it.
LookedUp ==
  /\ stage = "lookup"
  /\ ReturnOther(Lookup)
  /\ stage' \in IF result'[Lookup] = "response" THEN {"get", "error"} ELSE {"error"}
  /\ UNCHANGED <<getVars, issued, workVars>>

-----------------------------------------------------------------------------
(* Fetching links *)

Alive == dpc # "crashed"

\* Get asks for its first link, a worker for another one.
NeedsLink(f) ==
  /\ Alive
  /\ IF f = Getter THEN stage = "get" /\ dpc = "link" ELSE wpc[f] = "relink"

AskForLink(f) ==
  /\ NeedsLink(f)
  /\ BeginFetch(f) \/ Refused(f)
  /\ UNCHANGED <<stage, getVars, issued, workVars>>

\* The API issues a link, whether or not its redirect reaches the fetcher.
IssueLink(f) ==
  /\ NeedsLink(f)
  /\ Redirected(f)
  /\ issued' = [issued EXCEPT ![f] = expiries]
  /\ UNCHANGED <<stage, getVars, workVars>>

\* Mutant: the fetcher remembers the first link it got.
FetchedLink_Cached(f) == IF f = Getter THEN issued[f] ELSE contentURL

FetchedLink(f) == issued[f]

\* Mutant: nothing closes the bodies.
BodiesOf_Leaked(w, n) == n

\* Deferred calls run: the bodies of all attempts are closed when a worker ends.
BodiesOf(w, n) == IF wpc'[w] \in {"ok", "failed"} THEN 0 ELSE n

GotLink(f) ==
  /\ NeedsLink(f)
  /\ ReturnLink(f)
  /\ IF f = Getter
     THEN /\ dpc' = "head"
          /\ contentURL' = FetchedLink(f)
          /\ UNCHANGED <<wpc, url>>
     ELSE /\ wpc' = [wpc EXCEPT ![f] = "seek"]
          /\ url' = [url EXCEPT ![f] = FetchedLink(f)]
          /\ UNCHANGED <<dpc, contentURL>>
  /\ UNCHANGED <<stage, length, next, fpos, written, file, bar, expiries, retries, issued, workVars>>

\* Mutant: the worker tries once more.
AfterFetchError_Again == "relink"

AfterFetchError == "failed"

GotNoLink(f) ==
  /\ NeedsLink(f)
  /\ ReturnFetchError(f)
  /\ IF f = Getter
     THEN /\ dpc' = "err"
          /\ UNCHANGED <<wpc, bodies>>
     ELSE /\ wpc' = [wpc EXCEPT ![f] = AfterFetchError]
          /\ bodies' = [bodies EXCEPT ![f] = BodiesOf(f, @)]
          /\ UNCHANGED dpc
  /\ UNCHANGED <<stage, contentURL, length, next, url, fpos, written, file, bar, expiries, retries, issued, referers>>

FetchStep(f) == AskForLink(f) \/ IssueLink(f) \/ GotLink(f) \/ GotNoLink(f)

-----------------------------------------------------------------------------
(* Everything else that the call and its workers do *)

GetStep ==
  /\ G!HeadRequest \/ G!Prepare \/ G!SpawnWorker \/ G!OpenFails \/ G!Wait
  /\ UNCHANGED <<stage, fetchVars, issued, workVars>>

\* A request without a response.
Unanswered(w) ==
  /\ G!TemporaryError(w) \/ G!RequestFails(w)
  /\ referers' = [referers EXCEPT ![w] = @ + 1]
  /\ bodies' = [bodies EXCEPT ![w] = BodiesOf(w, @)]
  /\ UNCHANGED <<stage, fetchVars, issued>>

Responded(w) ==
  /\ G!LinkRefused(w) \/ G!UnexpectedStatus(w) \/ G!PartialContent(w)
  /\ referers' = [referers EXCEPT ![w] = @ + 1]
  /\ bodies' = [bodies EXCEPT ![w] = BodiesOf(w, @ + 1)]
  /\ UNCHANGED <<stage, fetchVars, issued>>

FileStep(w) ==
  /\ \/ G!Seek(w) \/ G!CopyChunk(w) \/ G!CopyDone(w)
     \/ G!CopyBroken(w) \/ G!CopyFails(w) \/ G!CopyPanics(w)
  /\ bodies' = [bodies EXCEPT ![w] = BodiesOf(w, @)]
  /\ UNCHANGED <<stage, fetchVars, issued, referers>>

Caller == LookUp \/ LookedUp \/ FetchStep(Getter) \/ GetStep

WorkerStep(w) == FetchStep(w) \/ Unanswered(w) \/ Responded(w) \/ FileStep(w)

\* The fetches of other downloads in the process.  Calls of other services only
\* read the policy, as Lookup does, and have no effect on a download.
Elsewhere ==
  /\ Alive
  /\ \E f \in Fetchers \ Mine : Fetch(f)
  /\ UNCHANGED <<stage, getVars, issued, workVars>>

Expire ==
  /\ G!ExpireLinks
  /\ UNCHANGED <<stage, fetchVars, issued, workVars>>

RelinkNext ==
  \/ Caller
  \/ \E w \in G!Worker : WorkerStep(w)
  \/ Elsewhere
  \/ Expire

RelinkSpec == RelinkInit /\ [][RelinkNext]_allVars

\* As for Downloader; a request for a link is answered or times out.
RelinkFairSpec ==
  RelinkSpec /\ WF_allVars(Caller) /\ \A w \in G!Worker : WF_allVars(WorkerStep(w))

-----------------------------------------------------------------------------

Returned == stage = "error" \/ dpc \in {"ok", "err", "openErr"}

\* The requests of a worker, and with them the Referers that pile up in the
\* header of its range (downloader.go:137) and the response bodies whose
\* closing waits for the worker's end (downloader.go:151), are no more than the
\* disturbances and expiries so far and one; and when Get returns after waiting
\* for its workers, no body is open.
AttemptsAreBounded ==
  /\ \A w \in G!Worker :
       /\ referers[w] <= 1 + retries + expiries
       /\ bodies[w] <= referers[w]
  /\ dpc \in {"ok", "err"} => \A w \in G!Worker : bodies[w] = 0

\* The call comes back, whoever else uses the shared client, and whichever of
\* its fetchers lose their redirects to each other.
DownloadReturns == <>(Returned \/ ~Alive)

\* To the downloader, a link is there as soon as the API has issued it with a
\* redirect that the fetcher sees.
Underway(f) == pc[f] = "answered" /\ answer[f] = "redirect"

GetsLink == dpc = "link" /\ Underway(Getter)

SeenPc == IF stage = "error" THEN "err" ELSE IF GetsLink THEN "head" ELSE dpc

SeenContentURL == IF GetsLink THEN issued[Getter] ELSE contentURL

RelinksNow(w) == wpc[w] = "relink" /\ Underway(w)

SeenWpc == [w \in G!Worker |-> IF RelinksNow(w) THEN "seek" ELSE wpc[w]]

SeenUrl == [w \in G!Worker |-> IF RelinksNow(w) THEN issued[w] ELSE url[w]]

D ==
  INSTANCE Downloader WITH
    Faults <- Faults \cup {"link"},
    pc <- SeenPc, contentURL <- SeenContentURL, wpc <- SeenWpc, url <- SeenUrl

\* With concurrent fetchers over a shared client, whose links may expire on
\* their way, the call behaves as Downloader says: a fetch gives a fresh link
\* or fails, in one step and whatever the others do
\* (product_file_link_fetcher.go:16-31 as downloader.go:52 and :155 use it).
ServesTheDownloader == D!Spec

=============================================================================
