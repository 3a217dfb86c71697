----------------------- MODULE RelinkedDownloadProofs -----------------------
(***************************************************************************)
(* That the fetches of a download are those of LinkFetcher, that its       *)
(* attempts are bounded by what disturbs them, and that it behaves as      *)
(* Downloader says, for any file, number of hunks, number of fetchers and  *)
(* mixture of faults.                                                      *)
(***************************************************************************)
EXTENDS RelinkedDownload, LinkFetcherProofs

USE GoroutinesAssumption

-----------------------------------------------------------------------------
(* The fetches *)

LEMMA FetchersStep ==
  ASSUME [RelinkNext]_allVars
  PROVE  [Next]_vars
<1> USE DEF getVars, fetchVars, workVars, Mine, Next
<1>1. CASE LookUp
  BY <1>1 DEF LookUp, Other
<1>2. CASE LookedUp
  BY <1>2 DEF LookedUp, Other
<1>3. ASSUME NEW f \in Mine, FetchStep(f)
      PROVE  [Next]_vars
  BY <1>3 DEF FetchStep, AskForLink, IssueLink, GotLink, GotNoLink, Fetch
<1>4. CASE GetStep
  BY <1>4 DEF GetStep, vars
<1>5. ASSUME NEW w \in G!Worker, Unanswered(w) \/ Responded(w) \/ FileStep(w)
      PROVE  [Next]_vars
  BY <1>5 DEF Unanswered, Responded, FileStep, vars
<1>6. CASE Elsewhere
  BY <1>6 DEF Elsewhere
<1>7. CASE Expire
  BY <1>7 DEF Expire, vars
<1>8. CASE UNCHANGED allVars
  BY <1>8 DEF allVars, vars
<1> QED
  BY <1>1, <1>2, <1>3, <1>4, <1>5, <1>6, <1>7, <1>8 DEF RelinkNext, Caller, WorkerStep

\* The goroutines of a download use the shared client as LinkFetcher says.
THEOREM FetchesAsLinkFetcher == RelinkSpec => Spec
<1>1. RelinkInit => Init
  BY DEF RelinkInit
<1> QED
  BY <1>1, FetchersStep, PTL DEF RelinkSpec, Spec

\* So a download, too, leaves the shared client following redirects, unless the
\* API refuses one of its links.
THEOREM DownloadsRestoreThePolicy == RelinkSpec => []PolicyIsRestored
BY FetchesAsLinkFetcher, PolicyIsAlwaysRestored, PTL

\* And a worker loses its link only to another goroutine that got one.
THEOREM OnlyFetchersOvertakeWorkers == RelinkSpec => []OnlyFetchersOvertake
BY FetchesAsLinkFetcher, OnlyFetchersOvertakeAlways, PTL

-----------------------------------------------------------------------------
(* The download *)

(***************************************************************************)
(* AttemptsAreBounded says nothing of why an attempt is made.  AttemptsOf  *)
(* does: every attempt of a worker but the last is paid for by a           *)
(* disturbance (retries) or by a younger link (url), so that the count is  *)
(* below their sum.  That a new link is younger is LinksInv, which needs   *)
(* to know of a link on its way that it was issued after the refusal; and  *)
(* PlaceInv says that only a worker at "relink" has a link on its way.     *)
(***************************************************************************)
Typed ==
  /\ stage \in {"lookup", "get", "error"}
  /\ dpc \in G!MainStates
  /\ contentURL \in Nat /\ next \in Nat \ {0}
  /\ wpc \in [G!Worker -> G!WorkerStates]
  /\ url \in [G!Worker -> Nat]
  /\ expiries \in Nat /\ retries \in Nat
  /\ issued \in [Fetchers -> Nat]
  /\ referers \in [G!Worker -> Nat]
  /\ bodies \in [G!Worker -> Nat]

PlaceInv ==
  /\ stage # "get" => dpc = "link" /\ pc[Getter] = "idle"
  /\ dpc # "link" => pc[Getter] = "idle"
  /\ dpc \in {"link", "head", "prepare"} => next = 1
  /\ \A w \in G!Worker :
       /\ w >= next => wpc[w] = "idle"
       /\ wpc[w] # "relink" => pc[w] = "idle"
       /\ dpc \in {"ok", "err"} => ~G!Running(w)

LinksInv ==
  /\ contentURL <= expiries
  /\ issued[Getter] <= expiries
  /\ \A w \in G!Worker :
       /\ url[w] <= expiries
       /\ issued[w] <= expiries
       /\ wpc[w] = "relink" => url[w] < expiries
       /\ RelinksNow(w) => url[w] < issued[w]

AttemptsOf(w) ==
  /\ wpc[w] = "idle" => referers[w] = 0
  /\ wpc[w] \in {"seek", "get"} => referers[w] <= retries + url[w]
  /\ referers[w] <= 1 + retries + url[w]
  /\ bodies[w] <= referers[w]
  /\ ~G!Running(w) => bodies[w] = 0

RelinkInv == IInv /\ Typed /\ PlaceInv /\ LinksInv /\ \A w \in G!Worker : AttemptsOf(w)

LEMMA WorkerNumbers == G!Worker \subseteq Nat \ {0} /\ Getter \notin G!Worker
BY DEF G!Worker, Getter

LEMMA GoroutinesFetch == G!Worker \subseteq Fetchers /\ Getter \in Fetchers
BY DEF Mine

LEMMA InitRelinkInv == RelinkInit => RelinkInv
<1> SUFFICES ASSUME RelinkInit PROVE RelinkInv
  OBVIOUS
<1> USE DEF RelinkInit, G!Init
<1>1. IInv
  BY InitInv
<1>2. Typed
  BY DEF Typed, G!MainStates, G!WorkerStates
<1>3. PlaceInv
  BY WorkerNumbers, GoroutinesFetch DEF PlaceInv, Init, Callers
<1>4. LinksInv
  BY GoroutinesFetch DEF LinksInv, RelinksNow
<1>5. \A w \in G!Worker : AttemptsOf(w)
  BY DEF AttemptsOf
<1> QED
  BY <1>1, <1>2, <1>3, <1>4, <1>5 DEF RelinkInv

-----------------------------------------------------------------------------
(* The steps of a fetch *)

\* A fetch of f leaves the other goroutines where they are.
LEMMA FetchFrame ==
  ASSUME RelinkInv, NEW f \in Fetchers, Fetch(f)
  PROVE  \A g \in Callers \ {f} : pc'[g] = pc[g] /\ answer'[g] = answer[g]
BY DEF Fetch, BeginFetch, Begin, Redirected, Refused, Answer, ReturnLink, ReturnFetchError, Return, RelinkInv, IInv, TypeOK, Callers

LEMMA LookUpStep ==
  ASSUME RelinkInv, IInv', LookUp \/ LookedUp
  PROVE  RelinkInv'
<1> USE DEF getVars, workVars
<1>1. UNCHANGED <<getVars, issued, workVars>> /\ stage = "lookup" /\ stage' \in {"lookup", "get", "error"}
  BY DEF LookUp, LookedUp
<1>2. \A g \in Callers \ {Lookup} : pc'[g] = pc[g] /\ answer'[g] = answer[g]
  BY DEF LookUp, LookedUp, BeginOther, Begin, Answered, Redirected, Refused, Answer, ReturnOther, Return,
     RelinkInv, IInv, TypeOK
<1>3. \A g \in Mine : pc'[g] = pc[g] /\ answer'[g] = answer[g]
  BY <1>2, DistinctAssumption DEF Callers
<1>4. Typed'
  BY <1>1 DEF RelinkInv, Typed
<1>5. PlaceInv'
  BY <1>1, <1>3 DEF RelinkInv, PlaceInv, G!Running, Mine
<1>6. LinksInv'
  BY <1>1, <1>3 DEF RelinkInv, LinksInv, RelinksNow, Underway, Mine
<1>7. \A w \in G!Worker : AttemptsOf(w)'
  BY <1>1 DEF RelinkInv, AttemptsOf, G!Running
<1> QED
  BY <1>4, <1>5, <1>6, <1>7 DEF RelinkInv

LEMMA AskForLinkStep ==
  ASSUME RelinkInv, IInv', NEW f \in Mine, AskForLink(f)
  PROVE  RelinkInv'
<1> USE DEF getVars, workVars
<1>1. UNCHANGED <<stage, getVars, issued, workVars>> /\ NeedsLink(f)
  BY DEF AskForLink
<1>2. \A g \in Callers \ {f} : pc'[g] = pc[g] /\ answer'[g] = answer[g]
  BY FetchFrame DEF AskForLink, Fetch
<1>3. ~Underway(f)'
  BY DEF AskForLink, BeginFetch, Begin, Refused, Answer, Underway, RelinkInv, IInv, TypeOK, Callers
<1>4. Typed'
  BY <1>1 DEF RelinkInv, Typed
<1>5. PlaceInv'
  BY <1>1, <1>2, WorkerNumbers, GoroutinesFetch DEF RelinkInv, PlaceInv, G!Running, Mine, Callers, NeedsLink
<1>6. LinksInv'
  BY <1>1, <1>2, <1>3, GoroutinesFetch DEF RelinkInv, LinksInv, RelinksNow, Underway, Callers
<1>7. \A w \in G!Worker : AttemptsOf(w)'
  BY <1>1 DEF RelinkInv, AttemptsOf, G!Running
<1> QED
  BY <1>4, <1>5, <1>6, <1>7 DEF RelinkInv

LEMMA IssueLinkStep ==
  ASSUME RelinkInv, IInv', NEW f \in Mine, IssueLink(f)
  PROVE  RelinkInv'
<1> USE DEF getVars, workVars
<1>1. UNCHANGED <<stage, getVars, workVars>> /\ NeedsLink(f)
      /\ issued' = [issued EXCEPT ![f] = expiries]
  BY DEF IssueLink
<1>2. \A g \in Callers \ {f} : pc'[g] = pc[g] /\ answer'[g] = answer[g]
  BY FetchFrame DEF IssueLink, Fetch
<1>4. Typed'
  BY <1>1 DEF RelinkInv, Typed
<1>5. PlaceInv'
  BY <1>1, <1>2, WorkerNumbers, GoroutinesFetch DEF RelinkInv, PlaceInv, G!Running, Mine, Callers, NeedsLink
<1>6. LinksInv'
  BY <1>1, <1>2, GoroutinesFetch DEF RelinkInv, LinksInv, RelinksNow, Underway, Callers, Typed, NeedsLink
<1>7. \A w \in G!Worker : AttemptsOf(w)'
  BY <1>1 DEF RelinkInv, AttemptsOf, G!Running
<1> QED
  BY <1>4, <1>5, <1>6, <1>7 DEF RelinkInv

LEMMA GotLinkStep ==
  ASSUME RelinkInv, IInv', NEW f \in Mine, GotLink(f)
  PROVE  RelinkInv'
<1> USE DEF getVars, workVars
<1>1. /\ UNCHANGED <<stage, length, next, fpos, written, file, bar, expiries, retries, issued, workVars>>
      /\ NeedsLink(f) /\ Underway(f) /\ pc'[f] = "idle"
  BY DEF GotLink, ReturnLink, Return, Underway, RelinkInv, IInv, TypeOK, Callers
<1>2. \A g \in Callers \ {f} : pc'[g] = pc[g] /\ answer'[g] = answer[g]
  BY FetchFrame DEF GotLink, Fetch
<1>3. CASE f = Getter
  <2>1. dpc = "link" /\ dpc' = "head" /\ contentURL' = issued[f] /\ UNCHANGED <<wpc, url>>
    BY <1>1, <1>3 DEF GotLink, FetchedLink, NeedsLink
  <2>2. Typed'
    BY <1>1, <1>3, <2>1, GoroutinesFetch DEF RelinkInv, Typed, G!MainStates
  <2>3. PlaceInv'
    BY <1>1, <1>2, <1>3, <2>1, WorkerNumbers, GoroutinesFetch DEF RelinkInv, PlaceInv, G!Running, Callers, NeedsLink
  <2>4. LinksInv'
    BY <1>1, <1>2, <1>3, <2>1, WorkerNumbers, GoroutinesFetch DEF RelinkInv, LinksInv, RelinksNow, Underway, Callers
  <2>5. \A w \in G!Worker : AttemptsOf(w)'
    BY <1>1, <2>1 DEF RelinkInv, AttemptsOf, G!Running
  <2> QED
    BY <2>2, <2>3, <2>4, <2>5 DEF RelinkInv
<1>4. CASE f # Getter
  <2>1. /\ f \in G!Worker /\ wpc[f] = "relink"
        /\ wpc' = [wpc EXCEPT ![f] = "seek"] /\ url' = [url EXCEPT ![f] = issued[f]]
        /\ UNCHANGED <<dpc, contentURL>>
    BY <1>1, <1>4 DEF GotLink, FetchedLink, NeedsLink, Mine
  <2>2. Typed'
    BY <1>1, <2>1, GoroutinesFetch DEF RelinkInv, Typed, G!WorkerStates
  <2>3. PlaceInv'
    BY <1>1, <1>2, <1>4, <2>1, WorkerNumbers, GoroutinesFetch DEF RelinkInv, Typed, PlaceInv, G!Running, Callers
  <2>4. LinksInv'
    BY <1>1, <1>2, <2>1, WorkerNumbers, GoroutinesFetch DEF RelinkInv, Typed, LinksInv, RelinksNow, Underway, Callers
  <2>5. \A w \in G!Worker : AttemptsOf(w)'
    <3>1. url[f] < issued[f]
      BY <1>1, <2>1 DEF RelinkInv, LinksInv, RelinksNow
    <3> QED
      BY <1>1, <2>1, <3>1, GoroutinesFetch DEF RelinkInv, Typed, AttemptsOf, G!Running
  <2> QED
    BY <2>2, <2>3, <2>4, <2>5 DEF RelinkInv
<1> QED
  BY <1>3, <1>4

LEMMA GotNoLinkStep ==
  ASSUME RelinkInv, IInv', NEW f \in Mine, GotNoLink(f)
  PROVE  RelinkInv'
<1>1. /\ UNCHANGED <<stage, contentURL, length, next, url, expiries, retries, issued, referers>>
      /\ NeedsLink(f) /\ pc'[f] = "idle"
  BY DEF GotNoLink, ReturnFetchError, Return, RelinkInv, IInv, TypeOK, Callers
<1>2. \A g \in Callers \ {f} : pc'[g] = pc[g] /\ answer'[g] = answer[g]
  BY FetchFrame DEF GotNoLink, Fetch
<1>3. CASE f = Getter
  <2>1. dpc = "link" /\ stage = "get" /\ dpc' = "err" /\ UNCHANGED <<wpc, bodies>>
    BY <1>1, <1>3 DEF GotNoLink, NeedsLink
  <2>2. Typed'
    BY <1>1, <2>1 DEF RelinkInv, Typed, G!MainStates
  <2>3. PlaceInv'
    BY <1>1, <1>2, <1>3, <2>1, WorkerNumbers, GoroutinesFetch DEF RelinkInv, Typed, PlaceInv, G!Running, Callers
  <2>4. LinksInv'
    BY <1>1, <1>2, <1>3, <2>1, WorkerNumbers, GoroutinesFetch DEF RelinkInv, LinksInv, RelinksNow, Underway, Callers
  <2>5. \A w \in G!Worker : AttemptsOf(w)'
    BY <1>1, <2>1 DEF RelinkInv, AttemptsOf, G!Running
  <2> QED
    BY <2>2, <2>3, <2>4, <2>5 DEF RelinkInv
<1>4. CASE f # Getter
  <2>1. /\ f \in G!Worker /\ wpc[f] = "relink"
        /\ wpc' = [wpc EXCEPT ![f] = "failed"] /\ bodies' = [bodies EXCEPT ![f] = 0]
        /\ UNCHANGED dpc
    BY <1>1, <1>4 DEF GotNoLink, AfterFetchError, BodiesOf, NeedsLink, Mine, RelinkInv, Typed
  <2>2. Typed'
    BY <1>1, <2>1 DEF RelinkInv, Typed, G!WorkerStates
  <2>3. PlaceInv'
    BY <1>1, <1>2, <1>4, <2>1, WorkerNumbers, GoroutinesFetch DEF RelinkInv, Typed, PlaceInv, G!Running, Callers
  <2>4. LinksInv'
    BY <1>1, <1>2, <2>1, WorkerNumbers, GoroutinesFetch DEF RelinkInv, Typed, LinksInv, RelinksNow, Underway, Callers
  <2>5. \A w \in G!Worker : AttemptsOf(w)'
    BY <1>1, <2>1 DEF RelinkInv, Typed, AttemptsOf, G!Running
  <2> QED
    BY <2>2, <2>3, <2>4, <2>5 DEF RelinkInv
<1> QED
  BY <1>3, <1>4

-----------------------------------------------------------------------------
(* The other steps *)

LEMMA GetStepStep ==
  ASSUME RelinkInv, IInv', GetStep
  PROVE  RelinkInv'
<1> USE DEF GetStep, fetchVars, workVars, G!workerVars, G!envVars
<1>1. UNCHANGED <<stage, fetchVars, issued, workVars, expiries, retries>>
  BY DEF G!HeadRequest, G!Prepare, G!SpawnWorker, G!OpenFails, G!Wait
<1>2. CASE G!SpawnWorker
  <2> USE DEF G!SpawnWorker
  <2>1. wpc[next] = "idle" \/ next \notin G!Worker
    BY <1>2 DEF RelinkInv, PlaceInv, Typed
  <2>2. Typed'
    <3>1. /\ wpc' = [wpc EXCEPT ![next] = "seek"] /\ url' = [url EXCEPT ![next] = contentURL]
          /\ next' = next + 1 /\ UNCHANGED <<dpc, contentURL>>
      BY <1>2
    <3>2. wpc' \in [G!Worker -> G!WorkerStates]
      BY <3>1 DEF RelinkInv, Typed, G!WorkerStates
    <3>3. next \in Nat /\ contentURL \in Nat /\ url \in [G!Worker -> Nat]
      BY DEF RelinkInv, Typed
    <3> HIDE DEF GetStep, G!SpawnWorker, fetchVars, workVars, G!workerVars, G!envVars
    <3>5. next' \in Nat \ {0}
      BY <3>1, <3>3
    <3>6. url' \in [G!Worker -> Nat]
      BY <3>1, <3>3
    <3>4. UNCHANGED <<stage, dpc, contentURL, expiries, retries, issued, referers, bodies>>
      BY <1>1, <3>1 DEF workVars
    <3> QED
      BY <3>2, <3>4, <3>5, <3>6 DEF RelinkInv, Typed
  <2>3. PlaceInv'
    BY <1>1, <1>2, <2>1, WorkerNumbers DEF RelinkInv, Typed, PlaceInv, G!Running
  <2>4. LinksInv'
    BY <1>1, <1>2, <2>1 DEF RelinkInv, Typed, LinksInv, RelinksNow, Underway
  <2>5. \A w \in G!Worker : AttemptsOf(w)'
    BY <1>1, <1>2, <2>1 DEF RelinkInv, Typed, AttemptsOf, G!Running
  <2> QED
    BY <1>1, <2>2, <2>3, <2>4, <2>5 DEF RelinkInv
<1>3. CASE G!HeadRequest \/ G!Prepare \/ G!OpenFails \/ G!Wait
  <2>1. /\ dpc \notin {"link", "err"} /\ dpc' \in G!MainStates \ {"link"}
        /\ dpc' = "prepare" => dpc = "head"
        /\ dpc' # "head"
        /\ UNCHANGED <<contentURL, next, wpc, url>>
    BY <1>3 DEF G!HeadRequest, G!Prepare, G!OpenFails, G!Wait, G!WaitResult, G!MainStates
  <2>2. dpc' \in {"ok", "err"} => \A w \in G!Worker : ~G!Running(w)'
    BY <1>3, <2>1, WorkerNumbers DEF G!HeadRequest, G!Prepare, G!OpenFails, G!Wait, G!Joined, G!Running,
       RelinkInv, PlaceInv
  <2>3. Typed'
    BY <1>1, <2>1 DEF RelinkInv, Typed
  <2>4. PlaceInv'
    BY <1>1, <2>1, <2>2 DEF RelinkInv, PlaceInv
  <2>5. LinksInv'
    BY <1>1, <2>1 DEF RelinkInv, LinksInv, RelinksNow, Underway
  <2>6. \A w \in G!Worker : AttemptsOf(w)'
    BY <1>1, <2>1 DEF RelinkInv, AttemptsOf, G!Running
  <2> QED
    BY <2>3, <2>4, <2>5, <2>6 DEF RelinkInv
<1> QED
  BY <1>2, <1>3

\* What a step of w that is no fetch may do to where w is, and what it costs.
Moves(w) ==
  /\ UNCHANGED <<stage, fetchVars, issued, contentURL, length, next, url, expiries>>
  /\ dpc # "crashed" /\ dpc' \in {dpc, "crashed"}
  /\ wpc' = [wpc EXCEPT ![w] = wpc'[w]]
  /\ referers' = [referers EXCEPT ![w] = referers'[w]]
  /\ bodies' = [bodies EXCEPT ![w] = bodies'[w]]
  /\ retries' \in {retries, retries + 1}
  /\ referers'[w] \in {referers[w], referers[w] + 1}
  /\ bodies'[w] \in {0, bodies[w], bodies[w] + 1}
  /\ bodies'[w] = bodies[w] + 1 => referers'[w] = referers[w] + 1
  /\ wpc'[w] \in {"ok", "failed"} => bodies'[w] = 0
  /\ \/ wpc[w] = "seek" /\ wpc'[w] \in {"get", "failed"} /\ referers'[w] = referers[w]
     \/ wpc[w] = "get" /\ wpc'[w] = "seek" /\ retries' = retries + 1
     \/ wpc[w] = "get" /\ wpc'[w] \in {"copy", "failed"}
     \/ wpc[w] = "get" /\ wpc'[w] = "relink" /\ url[w] # expiries
     \/ wpc[w] = "copy" /\ wpc'[w] \in {"copy", "ok", "failed"} /\ referers'[w] = referers[w]
     \/ wpc[w] = "copy" /\ wpc'[w] = "seek" /\ retries' = retries + 1 /\ referers'[w] = referers[w]

LEMMA WorkerMoves ==
  ASSUME Typed, NEW w \in G!Worker, Unanswered(w) \/ Responded(w) \/ FileStep(w)
  PROVE  Moves(w)
<1> USE DEF Typed, Moves, G!mainVars, G!workerVars, G!envVars, G!At, G!Goto, BodiesOf
<1>1. CASE Unanswered(w)
  BY <1>1 DEF Unanswered, G!TemporaryError, G!RequestFails
<1>2. CASE Responded(w)
  BY <1>2 DEF Responded, G!LinkRefused, G!UnexpectedStatus, G!PartialContent
<1>3. CASE FileStep(w)
  <2> USE <1>3 DEF FileStep
  <2>1. CASE G!Seek(w)
    BY <2>1 DEF G!Seek
  <2>2. CASE G!CopyChunk(w)
    BY <2>2 DEF G!CopyChunk
  <2>3. CASE G!CopyDone(w) \/ G!CopyFails(w) \/ G!CopyPanics(w)
    BY <2>3 DEF G!CopyDone, G!CopyFails, G!CopyPanics
  <2>4. CASE G!CopyBroken(w)
    BY <2>4 DEF G!CopyBroken, G!AfterBreak
  <2> QED
    BY <2>1, <2>2, <2>3, <2>4
<1> QED
  BY <1>1, <1>2, <1>3

LEMMA WorkerStepStep ==
  ASSUME RelinkInv, IInv', NEW w \in G!Worker, Unanswered(w) \/ Responded(w) \/ FileStep(w)
  PROVE  RelinkInv'
<1> USE DEF Moves, fetchVars
<1>0. Moves(w)
  BY WorkerMoves DEF RelinkInv
<1>1. wpc'[w] \in G!WorkerStates \ {"idle"} /\ referers'[w] \in Nat /\ bodies'[w] \in Nat
  BY <1>0 DEF RelinkInv, Typed, G!WorkerStates
<1>2. Typed'
  BY <1>0, <1>1 DEF RelinkInv, Typed, G!MainStates
<1>3. PlaceInv'
  <2>1. dpc \notin {"link", "ok", "err"}
    BY <1>0, WorkerNumbers DEF RelinkInv, Typed, PlaceInv, G!Running
  <2> QED
    BY <1>0, <1>1, <2>1, WorkerNumbers DEF RelinkInv, Typed, PlaceInv, G!Running
<1>4. LinksInv'
  BY <1>0 DEF RelinkInv, Typed, LinksInv, PlaceInv, RelinksNow, Underway
<1>5. AttemptsOf(w)'
  BY <1>0, <1>1 DEF RelinkInv, Typed, AttemptsOf, G!Running
<1>6. \A v \in G!Worker \ {w} : AttemptsOf(v)'
  BY <1>0, <1>1 DEF RelinkInv, Typed, AttemptsOf, G!Running
<1> QED
  BY <1>2, <1>3, <1>4, <1>5, <1>6 DEF RelinkInv

LEMMA ElsewhereStep ==
  ASSUME RelinkInv, IInv', Elsewhere
  PROVE  RelinkInv'
<1> USE DEF Elsewhere, getVars, workVars
<1>1. \A g \in Mine : pc'[g] = pc[g] /\ answer'[g] = answer[g]
  BY FetchFrame DEF Callers
<1>2. Typed'
  BY DEF RelinkInv, Typed
<1>3. PlaceInv'
  BY <1>1 DEF RelinkInv, PlaceInv, G!Running, Mine
<1>4. LinksInv'
  BY <1>1 DEF RelinkInv, LinksInv, RelinksNow, Underway, Mine
<1>5. \A w \in G!Worker : AttemptsOf(w)'
  BY DEF RelinkInv, AttemptsOf, G!Running
<1> QED
  BY <1>2, <1>3, <1>4, <1>5 DEF RelinkInv

LEMMA ExpireStep ==
  ASSUME RelinkInv, IInv', Expire
  PROVE  RelinkInv'
<1> USE DEF Expire, G!ExpireLinks, G!mainVars, G!workerVars, fetchVars, workVars
<1>1. Typed'
  BY DEF RelinkInv, Typed
<1>2. PlaceInv'
  BY DEF RelinkInv, PlaceInv, G!Running
<1>3. LinksInv'
  BY GoroutinesFetch DEF RelinkInv, Typed, LinksInv, RelinksNow, Underway
<1>4. \A w \in G!Worker : AttemptsOf(w)'
  BY DEF RelinkInv, AttemptsOf, G!Running
<1> QED
  BY <1>1, <1>2, <1>3, <1>4 DEF RelinkInv

LEMMA StutterStep ==
  ASSUME RelinkInv, IInv', UNCHANGED allVars
  PROVE  RelinkInv'
BY DEF allVars, fetchVars, getVars, workVars, RelinkInv, Typed, PlaceInv, LinksInv, RelinksNow, Underway,
   AttemptsOf, G!Running

LEMMA RelinkStep ==
  ASSUME RelinkInv, [RelinkNext]_allVars
  PROVE  RelinkInv'
<1>1. IInv'
  BY FetchersStep, StepInv DEF RelinkInv
<1>2. ASSUME NEW f \in Mine, FetchStep(f) PROVE RelinkInv'
  BY <1>1, <1>2, AskForLinkStep, IssueLinkStep, GotLinkStep, GotNoLinkStep DEF FetchStep
<1>3. CASE Caller
  BY <1>1, <1>2, <1>3, LookUpStep, GetStepStep DEF Caller, Mine
<1>4. ASSUME NEW w \in G!Worker, WorkerStep(w) PROVE RelinkInv'
  BY <1>1, <1>2, <1>4, WorkerStepStep DEF WorkerStep, Mine
<1> QED
  BY <1>1, <1>3, <1>4, ElsewhereStep, ExpireStep, StutterStep DEF RelinkNext

LEMMA RelinkInvariance == RelinkSpec => []RelinkInv
BY InitRelinkInv, RelinkStep, PTL DEF RelinkSpec

\* Whatever else uses the shared client, a worker makes no more attempts than
\* disturbances and expiries call for, and leaves no body open when Get returns.
THEOREM AttemptsStayBounded == RelinkSpec => []AttemptsAreBounded
<1>1. RelinkInv => AttemptsAreBounded
  BY DEF RelinkInv, Typed, PlaceInv, LinksInv, AttemptsOf, AttemptsAreBounded
<1> QED
  BY RelinkInvariance, <1>1, PTL

-----------------------------------------------------------------------------
(* What the downloader sees *)

LEMMA SameRanges ==
  /\ D!Worker = G!Worker
  /\ D!Count = G!Count
  /\ \A w : /\ D!Lo(w) = G!Lo(w) /\ D!Hi(w) = G!Hi(w)
            /\ D!BodySize(w) = G!BodySize(w) /\ D!SeekTo(w) = G!SeekTo(w)
<1>1. D!Worker = G!Worker /\ D!Count = G!Count
  BY DEF D!Worker, G!Worker, D!Count, G!Count, D!Iterations, G!Iterations,
     D!HunkSize, G!HunkSize, D!Quot, G!Quot, D!Magnitude, G!Magnitude
<1>2. ASSUME NEW w PROVE D!Lo(w) = G!Lo(w) /\ D!Hi(w) = G!Hi(w)
  BY DEF D!Lo, G!Lo, D!Hi, G!Hi, D!Lower, G!Lower, D!Upper, G!Upper,
     D!Iterations, G!Iterations, D!Remainder, G!Remainder, D!Rem, G!Rem,
     D!HunkSize, G!HunkSize, D!Quot, G!Quot, D!Magnitude, G!Magnitude
<1> QED
  BY <1>1, <1>2 DEF D!BodySize, G!BodySize, D!SeekTo, G!SeekTo

\* A worker at "relink" whose link is on its way is seen as it will be.
LEMMA SeenOf ==
  ASSUME NEW w \in G!Worker
  PROVE  /\ SeenWpc[w] = IF RelinksNow(w) THEN "seek" ELSE wpc[w]
         /\ SeenUrl[w] = IF RelinksNow(w) THEN issued[w] ELSE url[w]
BY DEF SeenWpc, SeenUrl

LEMMA SeenBeside ==
  ASSUME NEW f,
         \A g \in G!Worker \ {f} :
           /\ wpc'[g] = wpc[g] /\ url'[g] = url[g] /\ issued'[g] = issued[g]
           /\ pc'[g] = pc[g] /\ answer'[g] = answer[g]
  PROVE  /\ SeenWpc' = [SeenWpc EXCEPT ![f] = SeenWpc'[f]]
         /\ SeenUrl' = [SeenUrl EXCEPT ![f] = SeenUrl'[f]]
<1>1. \A g \in G!Worker \ {f} : RelinksNow(g)' = RelinksNow(g)
  BY DEF RelinksNow, Underway
<1>2. \A g \in G!Worker \ {f} : SeenWpc'[g] = SeenWpc[g] /\ SeenUrl'[g] = SeenUrl[g]
  BY <1>1 DEF SeenWpc, SeenUrl
<1>3. /\ SeenWpc = [w \in G!Worker |-> SeenWpc[w]] /\ SeenWpc' = [w \in G!Worker |-> SeenWpc'[w]]
      /\ SeenUrl = [w \in G!Worker |-> SeenUrl[w]] /\ SeenUrl' = [w \in G!Worker |-> SeenUrl'[w]]
  BY DEF SeenWpc, SeenUrl
<1> QED
  BY <1>2, <1>3

LEMMA SeenAsBefore ==
  ASSUME NEW f,
         \A g \in G!Worker \ {f} :
           /\ wpc'[g] = wpc[g] /\ url'[g] = url[g] /\ issued'[g] = issued[g]
           /\ pc'[g] = pc[g] /\ answer'[g] = answer[g],
         f \in G!Worker => SeenWpc'[f] = SeenWpc[f] /\ SeenUrl'[f] = SeenUrl[f]
  PROVE  UNCHANGED <<SeenWpc, SeenUrl>>
<1>1. /\ SeenWpc' = [SeenWpc EXCEPT ![f] = SeenWpc'[f]]
      /\ SeenUrl' = [SeenUrl EXCEPT ![f] = SeenUrl'[f]]
  BY SeenBeside
<1>2. /\ SeenWpc = [w \in G!Worker |-> SeenWpc[w]]
      /\ SeenUrl = [w \in G!Worker |-> SeenUrl[w]]
  BY DEF SeenWpc, SeenUrl
<1> QED
  BY <1>1, <1>2

\* Past the first link the downloader sees the call as it is.
LEMMA SeenPastLink ==
  ASSUME RelinkInv, dpc # "link"
  PROVE  stage = "get" /\ SeenPc = dpc /\ SeenContentURL = contentURL
BY DEF RelinkInv, PlaceInv, SeenPc, SeenContentURL, GetsLink

LEMMA SeenNextPastLink ==
  ASSUME RelinkInv', dpc' # "link"
  PROVE  SeenPc' = dpc' /\ SeenContentURL' = contentURL'
BY DEF RelinkInv, PlaceInv, SeenPc, SeenContentURL, GetsLink

LEMMA WorkersRunPastLink ==
  ASSUME RelinkInv, NEW w \in G!Worker, G!Running(w)
  PROVE  dpc \notin {"link", "head", "prepare", "ok", "err"}
BY WorkerNumbers DEF RelinkInv, Typed, PlaceInv, G!Running

LEMMA WorkerIsSeen ==
  ASSUME RelinkInv, RelinkInv',
         NEW w \in G!Worker, Unanswered(w) \/ Responded(w) \/ FileStep(w)
  PROVE  /\ SeenPc = dpc /\ SeenPc' = dpc'
         /\ UNCHANGED <<SeenContentURL, SeenUrl>>
         /\ SeenWpc[w] = wpc[w] /\ SeenUrl[w] = url[w]
         /\ SeenWpc' = [SeenWpc EXCEPT ![w] = wpc'[w]]
<1> USE DEF Moves, fetchVars
<1>1. Moves(w)
  BY WorkerMoves DEF RelinkInv
<1>2. G!Running(w)
  BY <1>1 DEF G!Running
<1>3. dpc # "link" /\ dpc' # "link"
  BY <1>1, <1>2, WorkersRunPastLink
<1>4. /\ SeenPc = dpc /\ SeenPc' = dpc'
      /\ UNCHANGED SeenContentURL
  BY <1>1, <1>3, SeenPastLink, SeenNextPastLink
<1>5. ~RelinksNow(w) /\ ~RelinksNow(w)'
  BY <1>1 DEF RelinkInv, PlaceInv, RelinksNow, Underway
<1>6. /\ SeenWpc[w] = wpc[w] /\ SeenUrl[w] = url[w]
      /\ SeenWpc'[w] = wpc'[w] /\ SeenUrl'[w] = url'[w]
  BY <1>5, SeenOf DEF SeenWpc, SeenUrl
<1>7. \A g \in G!Worker \ {w} :
        /\ wpc'[g] = wpc[g] /\ url'[g] = url[g] /\ issued'[g] = issued[g]
        /\ pc'[g] = pc[g] /\ answer'[g] = answer[g]
  BY <1>1 DEF RelinkInv, Typed
<1>8. /\ SeenWpc' = [SeenWpc EXCEPT ![w] = wpc'[w]]
      /\ SeenUrl' = [SeenUrl EXCEPT ![w] = url'[w]]
  BY <1>6, <1>7, SeenBeside
<1>9. UNCHANGED SeenUrl
  BY <1>1, <1>6, <1>8 DEF SeenUrl
<1> QED
  BY <1>4, <1>6, <1>8, <1>9

LEMMA WorkerServes ==
  ASSUME RelinkInv, RelinkInv',
         NEW w \in G!Worker, Unanswered(w) \/ Responded(w) \/ FileStep(w)
  PROVE  D!Next
<1> USE DEF G!At, D!At, G!Goto, D!Goto, G!mainVars, D!mainVars, G!envVars, D!envVars
<1>1. /\ SeenPc = dpc /\ SeenPc' = dpc'
      /\ UNCHANGED <<SeenContentURL, SeenUrl>>
      /\ SeenWpc[w] = wpc[w] /\ SeenUrl[w] = url[w]
      /\ SeenWpc' = [SeenWpc EXCEPT ![w] = wpc'[w]]
  BY WorkerIsSeen
<1>2. wpc \in [G!Worker -> G!WorkerStates]
  BY DEF RelinkInv, Typed
<1>3. CASE Unanswered(w)
  <2>1. CASE G!TemporaryError(w)
    <3> D!TemporaryError(w)
      BY <1>1, <1>2, <2>1 DEF G!TemporaryError, D!TemporaryError
    <3> QED
      BY SameRanges DEF D!Next, D!Work
  <2>2. CASE G!RequestFails(w)
    <3> D!RequestFails(w)
      BY <1>1, <1>2, <2>2 DEF G!RequestFails, D!RequestFails
    <3> QED
      BY SameRanges DEF D!Next, D!Work
  <2> QED
    BY <1>3, <2>1, <2>2 DEF Unanswered
<1>4. CASE Responded(w)
  <2>1. CASE G!LinkRefused(w)
    <3> D!LinkRefused(w)
      BY <1>1, <1>2, <2>1 DEF G!LinkRefused, D!LinkRefused
    <3> QED
      BY SameRanges DEF D!Next, D!Work
  <2>2. CASE G!UnexpectedStatus(w)
    <3> D!UnexpectedStatus(w)
      BY <1>1, <1>2, <2>2, SameRanges DEF G!UnexpectedStatus, D!UnexpectedStatus
    <3> QED
      BY SameRanges DEF D!Next, D!Work
  <2>3. CASE G!PartialContent(w)
    <3> D!PartialContent(w)
      BY <1>1, <1>2, <2>3, SameRanges DEF G!PartialContent, D!PartialContent
    <3> QED
      BY SameRanges DEF D!Next, D!Work
  <2> QED
    BY <1>4, <2>1, <2>2, <2>3 DEF Responded
<1>5. CASE FileStep(w)
  <2>1. CASE G!Seek(w)
    <3> D!Seek(w)
      BY <1>1, <1>2, <2>1, SameRanges DEF G!Seek, D!Seek
    <3> QED
      BY SameRanges DEF D!Next, D!Work
  <2>2. CASE G!CopyChunk(w)
    <3>1. SeenWpc' = SeenWpc
      BY <1>1, <1>2, <2>2 DEF G!CopyChunk, SeenWpc
    <3> D!CopyChunk(w)
      BY <1>1, <1>2, <2>2, <3>1, SameRanges DEF G!CopyChunk, D!CopyChunk, G!Positions, D!Positions
    <3> QED
      BY SameRanges DEF D!Next, D!Work
  <2>3. CASE G!CopyDone(w)
    <3> D!CopyDone(w)
      BY <1>1, <1>2, <2>3, SameRanges DEF G!CopyDone, D!CopyDone
    <3> QED
      BY SameRanges DEF D!Next, D!Work
  <2>4. CASE G!CopyBroken(w)
    <3> D!CopyBroken(w)
      BY <1>1, <1>2, <2>4 DEF G!CopyBroken, D!CopyBroken, G!BarAfterBreak, D!BarAfterBreak, G!AfterBreak, D!AfterBreak
    <3> QED
      BY SameRanges DEF D!Next, D!Work
  <2>5. CASE G!CopyFails(w)
    <3> D!CopyFails(w)
      BY <1>1, <1>2, <2>5 DEF G!CopyFails, D!CopyFails
    <3> QED
      BY SameRanges DEF D!Next, D!Work
  <2>6. CASE G!CopyPanics(w)
    <3>1. SeenWpc' = SeenWpc
      BY <1>1, <1>2, <2>6 DEF G!CopyPanics, SeenWpc, G!workerVars
    <3> D!CopyPanics(w)
      BY <1>1, <2>6, <3>1 DEF G!CopyPanics, D!CopyPanics, G!workerVars, D!workerVars
    <3> QED
      BY SameRanges DEF D!Next, D!Work
  <2> QED
    BY <1>5, <2>1, <2>2, <2>3, <2>4, <2>5, <2>6 DEF FileStep
<1> QED
  BY <1>3, <1>4, <1>5

\* Waiting for the workers, the downloader sees the same of them.
LEMMA SameJoin ==
  ASSUME RelinkInv
  PROVE  /\ G!Joined => D!Joined
         /\ D!WaitResult = G!WaitResult
<1>1. \A w \in G!Worker : (SeenWpc[w] = "failed") <=> (wpc[w] = "failed")
  BY SeenOf DEF RelinksNow
<1>2. \A w \in G!Worker : D!Running(w) <=> G!Running(w)
  BY SeenOf DEF RelinksNow, D!Running, G!Running
<1> QED
  BY <1>1, <1>2, SameRanges DEF D!Joined, G!Joined, D!WaitResult, G!WaitResult

LEMMA GetServes ==
  ASSUME RelinkInv, RelinkInv', GetStep
  PROVE  D!Next
<1> USE DEF G!envVars, D!envVars
<1>1. dpc # "link" /\ dpc' # "link"
  BY DEF GetStep, G!HeadRequest, G!Prepare, G!SpawnWorker, G!OpenFails, G!Wait, G!WaitResult
<1>2. /\ SeenPc = dpc /\ SeenPc' = dpc'
      /\ SeenContentURL = contentURL /\ SeenContentURL' = contentURL'
  BY <1>1, SeenPastLink, SeenNextPastLink
<1>3. /\ UNCHANGED <<pc, answer, issued>>
      /\ G!HeadRequest \/ G!Prepare \/ G!SpawnWorker \/ G!OpenFails \/ G!Wait
  BY DEF GetStep, fetchVars
<1>4. UNCHANGED G!workerVars => UNCHANGED D!workerVars
  BY <1>3, SeenAsBefore DEF G!workerVars, D!workerVars, SeenWpc, SeenUrl, RelinksNow, Underway
<1> HIDE DEF G!envVars, D!envVars
<1>5. UNCHANGED G!envVars => UNCHANGED D!envVars
  BY DEF G!envVars, D!envVars
<1>6. CASE G!HeadRequest
  <2> D!HeadRequest
    BY <1>2, <1>4, <1>5, <1>6 DEF G!HeadRequest, D!HeadRequest, G!HeadLengths, D!HeadLengths, G!UnknownLength, D!UnknownLength
  <2> QED
    BY DEF D!Next, D!Main
<1>7. CASE G!Prepare
  <2> D!Prepare
    BY <1>2, <1>4, <1>5, <1>7 DEF G!Prepare, D!Prepare, G!TooBig, D!TooBig, G!BuildRangeFails, D!BuildRangeFails
  <2> QED
    BY DEF D!Next, D!Main
<1>8. CASE G!OpenFails
  <2> D!OpenFails
    BY <1>2, <1>4, <1>5, <1>8, SameRanges DEF G!OpenFails, D!OpenFails
  <2> QED
    BY DEF D!Next, D!Main
<1>9. CASE G!Wait
  <2> D!Wait
    BY <1>2, <1>4, <1>5, <1>9, SameRanges, SameJoin DEF G!Wait, D!Wait, G!Joined, D!Joined
  <2> QED
    BY DEF D!Next, D!Main
<1>10. CASE G!SpawnWorker
  <2>1. PICK n : n = next
    OBVIOUS
  <2>2. /\ wpc' = [wpc EXCEPT ![n] = "seek"] /\ url' = [url EXCEPT ![n] = contentURL]
        /\ wpc \in [G!Worker -> G!WorkerStates] /\ url \in [G!Worker -> Nat]
    BY <1>10, <2>1 DEF G!SpawnWorker, RelinkInv, Typed
  <2>3. /\ SeenWpc' = [SeenWpc EXCEPT ![n] = SeenWpc'[n]]
        /\ SeenUrl' = [SeenUrl EXCEPT ![n] = SeenUrl'[n]]
    BY <1>3, <2>2, SeenBeside
  <2>4. n \in G!Worker => SeenWpc'[n] = "seek" /\ SeenUrl'[n] = contentURL
    BY <2>2 DEF SeenWpc, SeenUrl, RelinksNow
  <2>5. SeenWpc' = [SeenWpc EXCEPT ![n] = "seek"] /\ SeenUrl' = [SeenUrl EXCEPT ![n] = contentURL]
    BY <2>3, <2>4 DEF SeenWpc, SeenUrl
  <2> D!SpawnWorker
    BY <1>2, <1>5, <1>10, <2>1, <2>5, SameRanges DEF G!SpawnWorker, D!SpawnWorker
  <2> QED
    BY DEF D!Next, D!Main
<1> QED
  BY <1>3, <1>6, <1>7, <1>8, <1>9, <1>10

LEMMA ExpireServes ==
  ASSUME RelinkInv, RelinkInv', Expire
  PROVE  D!Next
<1> USE DEF Expire, G!ExpireLinks, fetchVars, G!mainVars, G!workerVars
<1>1. UNCHANGED <<SeenPc, SeenContentURL, SeenWpc, SeenUrl>>
  BY DEF SeenPc, SeenContentURL, SeenWpc, SeenUrl, GetsLink, RelinksNow, Underway
<1>2. D!ExpireLinks
  BY <1>1 DEF D!ExpireLinks, D!mainVars, D!workerVars
<1> QED
  BY <1>2 DEF D!Next

-----------------------------------------------------------------------------
(* What the downloader sees of a fetch *)

LEMMA UnseenStutters ==
  ASSUME UNCHANGED <<SeenPc, SeenContentURL, SeenWpc, SeenUrl>>,
         UNCHANGED <<length, next, fpos, written, file, bar, expiries, retries>>
  PROVE  UNCHANGED D!vars
BY DEF D!vars, D!mainVars, D!workerVars, D!envVars

\* Steps of goroutines that are none of the download's.
LEMMA OthersUnseen ==
  ASSUME RelinkInv, RelinkInv', UNCHANGED <<stage, getVars, issued>>,
         \A g \in Mine : pc'[g] = pc[g] /\ answer'[g] = answer[g]
  PROVE  UNCHANGED D!vars
<1>1. UNCHANGED <<SeenWpc, SeenUrl>>
  BY SeenAsBefore, WorkerNumbers DEF getVars, Mine
<1>2. UNCHANGED <<SeenPc, SeenContentURL>>
  BY DEF getVars, Mine, SeenPc, SeenContentURL, GetsLink, Underway
<1> QED
  BY <1>1, <1>2, UnseenStutters DEF getVars

\* The first link, or the failure to get it.
LEMMA GettersFetchServes ==
  ASSUME RelinkInv, RelinkInv', FetchStep(Getter)
  PROVE  D!Next \/ UNCHANGED D!vars
<1> USE DEF getVars
<1>1. /\ stage = "get" /\ dpc = "link" /\ stage' = "get"
      /\ UNCHANGED <<length, next, wpc, url, fpos, written, file, bar, expiries, retries>>
      /\ \A g \in G!Worker : issued'[g] = issued[g]
  <2>1. NeedsLink(Getter) /\ UNCHANGED stage
    BY DEF FetchStep, AskForLink, IssueLink, GotLink, GotNoLink
  <2>2. UNCHANGED <<length, next, wpc, url, fpos, written, file, bar, expiries, retries>>
    BY DEF FetchStep, AskForLink, IssueLink, GotLink, GotNoLink
  <2>3. issued' = issued \/ issued' = [issued EXCEPT ![Getter] = expiries]
    <3>1. IssueLink(Getter) => issued' = [issued EXCEPT ![Getter] = expiries]
      BY DEF IssueLink
    <3>2. AskForLink(Getter) \/ GotLink(Getter) \/ GotNoLink(Getter) => issued' = issued
      BY DEF AskForLink, GotLink, GotNoLink
    <3> QED
      BY <3>1, <3>2 DEF FetchStep
  <2>4. \A g \in G!Worker : issued'[g] = issued[g]
    <3> issued \in [Fetchers -> Nat]
      BY DEF RelinkInv, Typed
    <3> QED
      BY <2>3, WorkerNumbers, GoroutinesFetch
  <2> QED
    BY <2>1, <2>2, <2>4 DEF NeedsLink
<1>2. \A g \in G!Worker : pc'[g] = pc[g] /\ answer'[g] = answer[g]
  <2>1. Fetch(Getter)
    BY DEF FetchStep, AskForLink, IssueLink, GotLink, GotNoLink, Fetch
  <2> QED
    BY <2>1, FetchFrame, WorkerNumbers, GoroutinesFetch DEF Callers
<1>3. UNCHANGED <<SeenWpc, SeenUrl>>
  BY <1>1, <1>2, SeenAsBefore, WorkerNumbers
<1>4. UNCHANGED <<D!workerVars, D!envVars>>
  BY <1>1, <1>3 DEF D!workerVars, D!envVars
<1>5. SeenPc = IF Underway(Getter) THEN "head" ELSE "link"
  BY <1>1 DEF SeenPc, GetsLink
<1>6. SeenContentURL = IF Underway(Getter) THEN issued[Getter] ELSE contentURL
  BY <1>1 DEF SeenContentURL, GetsLink
<1>7. CASE AskForLink(Getter)
  <2>1. /\ ~Underway(Getter) /\ ~Underway(Getter)'
        /\ dpc' = "link" /\ UNCHANGED contentURL
    BY <1>1, <1>7, GoroutinesFetch
       DEF AskForLink, BeginFetch, Begin, Refused, Answer, Underway, RelinkInv, IInv, TypeOK, Callers
  <2> QED
    BY <1>1, <1>3, <1>5, <1>6, <2>1, UnseenStutters DEF SeenPc, SeenContentURL, GetsLink
<1>8. CASE IssueLink(Getter)
  <2>1. /\ ~Underway(Getter) /\ dpc' = "link" /\ UNCHANGED contentURL
        /\ issued'[Getter] = expiries
    BY <1>1, <1>8, GoroutinesFetch
       DEF IssueLink, Redirected, Answer, Underway, RelinkInv, Typed, IInv, TypeOK
  <2>2. CASE Underway(Getter)'
    <3>1. SeenPc' = "head" /\ SeenContentURL' = expiries
      BY <1>1, <2>1, <2>2 DEF SeenPc, SeenContentURL, GetsLink
    <3>2. D!FetchLink
      BY <1>1, <1>4, <1>5, <2>1, <3>1 DEF D!FetchLink
    <3> QED
      BY <3>2 DEF D!Next, D!Main
  <2>3. CASE ~Underway(Getter)'
    BY <1>1, <1>3, <1>5, <1>6, <2>1, <2>3, UnseenStutters DEF SeenPc, SeenContentURL, GetsLink
  <2> QED
    BY <2>2, <2>3
<1>9. CASE GotLink(Getter)
  <2>1. Underway(Getter) /\ dpc' = "head" /\ contentURL' = issued[Getter]
    BY <1>9 DEF GotLink, FetchedLink, ReturnLink, Return, Underway
  <2>2. SeenPc' = "head" /\ SeenContentURL' = issued[Getter]
    BY <1>1, <2>1 DEF SeenPc, SeenContentURL, GetsLink
  <2> QED
    BY <1>1, <1>3, <1>5, <1>6, <2>1, <2>2, UnseenStutters
<1>10. CASE GotNoLink(Getter)
  <2>1. ~Underway(Getter) /\ dpc' = "err" /\ UNCHANGED contentURL
    BY <1>10 DEF GotNoLink, ReturnFetchError, Underway
  <2>2. SeenPc' = "err" /\ UNCHANGED SeenContentURL
    BY <1>1, <1>6, <2>1 DEF SeenPc, SeenContentURL, GetsLink
  <2>3. D!FetchLink
    BY <1>1, <1>4, <1>5, <2>1, <2>2 DEF D!FetchLink
  <2> QED
    BY <2>3 DEF D!Next, D!Main
<1> QED
  BY <1>7, <1>8, <1>9, <1>10 DEF FetchStep

\* A fresh link for a worker, or the failure to get it.
LEMMA WorkersFetchServes ==
  ASSUME RelinkInv, RelinkInv', NEW w \in G!Worker, FetchStep(w)
  PROVE  D!Next \/ UNCHANGED D!vars
<1> USE DEF getVars
<1> w # Getter
  BY WorkerNumbers
<1>1. NeedsLink(w) /\ UNCHANGED <<stage, dpc, contentURL>>
  BY DEF FetchStep, AskForLink, IssueLink, GotLink, GotNoLink
<1>2. UNCHANGED <<length, next, fpos, written, file, bar, expiries, retries>>
  BY DEF FetchStep, AskForLink, IssueLink, GotLink, GotNoLink
<1>3. /\ wpc[w] = "relink" /\ dpc \notin {"link", "crashed"}
      /\ wpc \in [G!Worker -> G!WorkerStates] /\ url \in [G!Worker -> Nat]
      /\ issued \in [Fetchers -> Nat]
  BY <1>1, WorkersRunPastLink DEF NeedsLink, Alive, G!Running, RelinkInv, Typed
<1>4. /\ SeenPc = dpc /\ UNCHANGED <<SeenPc, SeenContentURL>>
  BY <1>1, <1>3, SeenPastLink, SeenNextPastLink
<1>5. \A g \in G!Worker \ {w} : pc'[g] = pc[g] /\ answer'[g] = answer[g]
  <2>1. Fetch(w)
    BY DEF FetchStep, AskForLink, IssueLink, GotLink, GotNoLink, Fetch
  <2> QED
    BY <2>1, FetchFrame, GoroutinesFetch DEF Callers
<1>6. UNCHANGED <<D!mainVars, D!envVars>>
  BY <1>2, <1>4 DEF D!mainVars, D!envVars
<1>7. /\ SeenWpc[w] = IF Underway(w) THEN "seek" ELSE "relink"
      /\ SeenUrl[w] = IF Underway(w) THEN issued[w] ELSE url[w]
  BY <1>3, SeenOf DEF RelinksNow
<1>8. /\ SeenWpc'[w] = IF RelinksNow(w)' THEN "seek" ELSE wpc'[w]
      /\ SeenUrl'[w] = IF RelinksNow(w)' THEN issued'[w] ELSE url'[w]
  BY DEF SeenWpc, SeenUrl
<1>9. CASE AskForLink(w)
  <2>1. ~Underway(w) /\ ~Underway(w)' /\ UNCHANGED <<wpc, url, issued>>
    BY <1>9, GoroutinesFetch
       DEF AskForLink, BeginFetch, Begin, Refused, Answer, Underway, RelinkInv, IInv, TypeOK, Callers
  <2>2. UNCHANGED <<SeenWpc, SeenUrl>>
    BY <1>3, <1>5, <1>7, <1>8, <2>1, SeenAsBefore DEF RelinksNow
  <2> QED
    BY <1>2, <1>4, <2>2, UnseenStutters
<1>10. CASE IssueLink(w)
  <2>1. ~Underway(w) /\ UNCHANGED <<wpc, url>> /\ issued' = [issued EXCEPT ![w] = expiries]
    BY <1>10 DEF IssueLink, Redirected, Answer, Underway
  <2>2. issued'[w] = expiries /\ \A g \in G!Worker \ {w} : issued'[g] = issued[g]
    BY <1>3, <2>1, GoroutinesFetch
  <2>3. CASE Underway(w)'
    <3>1. SeenWpc'[w] = "seek" /\ SeenUrl'[w] = expiries
      BY <1>3, <1>8, <2>1, <2>2, <2>3 DEF RelinksNow
    <3>2. /\ SeenWpc' = [SeenWpc EXCEPT ![w] = "seek"]
          /\ SeenUrl' = [SeenUrl EXCEPT ![w] = expiries]
      BY <1>5, <2>1, <2>2, <3>1, SeenBeside
    <3>3. D!Relink(w)
      BY <1>2, <1>3, <1>4, <1>6, <1>7, <2>1, <3>2 DEF D!Relink, D!At, D!Goto, D!FreshURL
    <3> QED
      BY <3>3, SameRanges DEF D!Next, D!Work
  <2>4. CASE ~Underway(w)'
    <3>1. UNCHANGED <<SeenWpc, SeenUrl>>
      BY <1>3, <1>5, <1>7, <1>8, <2>1, <2>2, <2>4, SeenAsBefore DEF RelinksNow
    <3> QED
      BY <1>2, <1>4, <3>1, UnseenStutters
  <2> QED
    BY <2>3, <2>4
<1>11. CASE GotLink(w)
  <2>1. /\ Underway(w) /\ UNCHANGED issued
        /\ wpc' = [wpc EXCEPT ![w] = "seek"] /\ url' = [url EXCEPT ![w] = issued[w]]
    BY <1>11 DEF GotLink, FetchedLink, ReturnLink, Return, Underway
  <2>2. SeenWpc'[w] = "seek" /\ SeenUrl'[w] = issued[w]
    BY <1>3, <1>8, <2>1 DEF RelinksNow
  <2>3. \A g \in G!Worker \ {w} : wpc'[g] = wpc[g] /\ url'[g] = url[g]
    BY <1>3, <2>1
  <2>4. UNCHANGED <<SeenWpc, SeenUrl>>
    BY <1>5, <1>7, <2>1, <2>2, <2>3, SeenAsBefore
  <2> QED
    BY <1>2, <1>4, <2>4, UnseenStutters
<1>12. CASE GotNoLink(w)
  <2>1. /\ ~Underway(w) /\ UNCHANGED <<issued, url>>
        /\ wpc' = [wpc EXCEPT ![w] = "failed"]
    BY <1>12 DEF GotNoLink, ReturnFetchError, Underway, AfterFetchError
  <2>2. SeenWpc'[w] = "failed" /\ SeenUrl'[w] = SeenUrl[w]
    BY <1>3, <1>7, <1>8, <2>1 DEF RelinksNow
  <2>3. \A g \in G!Worker \ {w} : wpc'[g] = wpc[g]
    BY <1>3, <2>1
  <2>4. /\ SeenWpc' = [SeenWpc EXCEPT ![w] = "failed"]
        /\ SeenUrl' = [SeenUrl EXCEPT ![w] = SeenUrl[w]]
    BY <1>5, <2>1, <2>2, <2>3, SeenBeside
  <2>5. UNCHANGED SeenUrl
    BY <2>4 DEF SeenUrl
  <2>6. D!Relink(w)
    BY <1>2, <1>3, <1>4, <1>6, <1>7, <2>1, <2>4, <2>5 DEF D!Relink, D!At, D!Goto
  <2> QED
    BY <2>6, SameRanges DEF D!Next, D!Work
<1> QED
  BY <1>9, <1>10, <1>11, <1>12 DEF FetchStep

LEMMA LookUpServes ==
  ASSUME RelinkInv, RelinkInv', LookUp \/ LookedUp
  PROVE  D!Next \/ UNCHANGED D!vars
<1>1. stage = "lookup" /\ UNCHANGED <<getVars, issued>>
  BY DEF LookUp, LookedUp
<1>2. \A g \in Callers \ {Lookup} : pc'[g] = pc[g] /\ answer'[g] = answer[g]
  BY DEF LookUp, LookedUp, BeginOther, Begin, Answered, Redirected, Refused, Answer, ReturnOther, Return,
     RelinkInv, IInv, TypeOK
<1>3. \A g \in Mine : pc'[g] = pc[g] /\ answer'[g] = answer[g]
  BY <1>2, DistinctAssumption DEF Callers
<1>4. CASE stage' = "lookup"
  BY <1>1, <1>3, <1>4, OthersUnseen
<1>5. CASE stage' # "lookup"
  <2>1. stage' \in {"get", "error"} /\ dpc = "link" /\ dpc' = "link" /\ ~Underway(Getter)
    BY <1>1, <1>5 DEF getVars, RelinkInv, Typed, PlaceInv, Underway
  <2>2. ~Underway(Getter)'
    BY <1>3, <2>1 DEF Mine, Underway
  <2>3. SeenPc = "link" /\ UNCHANGED SeenContentURL
    BY <1>1, <2>1, <2>2 DEF SeenPc, SeenContentURL, GetsLink, getVars
  <2>4. UNCHANGED <<SeenWpc, SeenUrl>>
    BY <1>1, <1>3, SeenAsBefore, WorkerNumbers DEF getVars, Mine
  <2>5. CASE stage' = "get"
    <3> UNCHANGED SeenPc
      BY <2>1, <2>2, <2>3, <2>5 DEF SeenPc, GetsLink
    <3> QED
      BY <1>1, <2>3, <2>4, UnseenStutters DEF getVars
  <2>6. CASE stage' = "error"
    <3>1. SeenPc' = "err"
      BY <2>6 DEF SeenPc
    <3>2. D!FetchLink
      BY <1>1, <2>3, <2>4, <3>1 DEF D!FetchLink, D!workerVars, D!envVars, getVars
    <3> QED
      BY <3>2 DEF D!Next, D!Main
  <2> QED
    BY <2>1, <2>5, <2>6
<1> QED
  BY <1>4, <1>5

LEMMA RelinkServes ==
  ASSUME RelinkInv, RelinkInv', [RelinkNext]_allVars
  PROVE  [D!Next]_(D!vars)
<1>1. CASE Caller
  BY <1>1, LookUpServes, GettersFetchServes, GetServes DEF Caller
<1>2. ASSUME NEW w \in G!Worker, WorkerStep(w) PROVE D!Next \/ UNCHANGED D!vars
  BY <1>2, WorkersFetchServes, WorkerServes DEF WorkerStep
<1>3. CASE Elsewhere
  <2>1. \A g \in Mine : pc'[g] = pc[g] /\ answer'[g] = answer[g]
    BY <1>3, FetchFrame DEF Elsewhere, Callers
  <2> QED
    BY <1>3, <2>1, OthersUnseen DEF Elsewhere
<1>4. CASE Expire
  BY <1>4, ExpireServes
<1>5. CASE UNCHANGED allVars
  BY <1>5, OthersUnseen DEF allVars, fetchVars
<1> QED
  BY <1>1, <1>2, <1>3, <1>4, <1>5 DEF RelinkNext

\* With fetchers that overtake each other and links that expire on their way,
\* every call of DownloadForRelease behaves as Downloader says.
THEOREM DownloadServesTheDownloader == RelinkSpec => ServesTheDownloader
<1>1. RelinkInit => D!Init
  <2> SUFFICES ASSUME RelinkInit PROVE D!Init
    OBVIOUS
  <2>1. ~GetsLink /\ \A w \in G!Worker : ~RelinksNow(w)
    BY GoroutinesFetch DEF RelinkInit, Init, G!Init, GetsLink, RelinksNow, Underway, Callers
  <2>2. SeenPc = "link" /\ SeenContentURL = 0
    BY <2>1 DEF RelinkInit, G!Init, SeenPc, SeenContentURL
  <2>3. /\ SeenWpc = [w \in G!Worker |-> "idle"]
        /\ SeenUrl = [w \in G!Worker |-> 0]
    BY <2>1 DEF RelinkInit, G!Init, SeenWpc, SeenUrl
  <2> QED
    BY <2>2, <2>3, SameRanges DEF RelinkInit, D!Init, G!Init, G!Positions, D!Positions, G!Absent, D!Absent, G!Old, D!Old
<1> QED
  BY <1>1, RelinkInvariance, RelinkServes, PTL DEF RelinkSpec, D!Spec, ServesTheDownloader

-----------------------------------------------------------------------------
(***************************************************************************)
(* What the download inherits.  The theorems of DownloaderProofs hold of   *)
(* the download that Downloader sees; what is left to prove is that they   *)
(* are about D, and that D and the call agree where it matters.            *)
(***************************************************************************)

DP ==
  INSTANCE DownloaderProofs WITH
    Faults <- Faults \cup {"link"},
    pc <- SeenPc, contentURL <- SeenContentURL, wpc <- SeenWpc, url <- SeenUrl

LEMMA SeenAssumptions ==
  /\ DP!RemoteSizeAssumption /\ DP!NumHunksAssumption /\ DP!DiskAssumption
  /\ DP!ErrorLengthsAssumption /\ DP!FaultsAssumption /\ DP!BoundsAssumption
BY DownloadAssumption
   DEF DP!RemoteSizeAssumption, DP!NumHunksAssumption, DP!DiskAssumption,
       DP!ErrorLengthsAssumption, DP!FaultsAssumption, DP!BoundsAssumption,
       DP!FaultNames, G!FaultNames, DP!ContentLength, G!ContentLength,
       DP!UnknownLength, G!UnknownLength

LEMMA SameConstants ==
  /\ DP!Worker = G!Worker /\ D!Worker = DP!Worker
  /\ D!Count = DP!Count
  /\ D!RemoteBytes = DP!RemoteBytes /\ DP!RemoteBytes = G!RemoteBytes
  /\ D!Positions = DP!Positions /\ DP!Positions = G!Positions
  /\ D!Absent = DP!Absent /\ DP!Absent = G!Absent
  /\ D!Old = DP!Old /\ DP!Old = G!Old
  /\ DP!ContentLength = G!ContentLength
BY DEF D!Worker, DP!Worker, G!Worker, D!Count, DP!Count,
       D!Iterations, DP!Iterations, D!HunkSize, DP!HunkSize, D!Quot, DP!Quot,
       D!Magnitude, DP!Magnitude,
       D!RemoteBytes, DP!RemoteBytes, G!RemoteBytes, D!Positions, DP!Positions, G!Positions,
       D!Absent, DP!Absent, G!Absent, D!Old, DP!Old, G!Old,
       DP!ContentLength, G!ContentLength, DP!UnknownLength, G!UnknownLength

LEMMA SameBodies ==
  \A w \in G!Worker :
    D!Lo(w) = DP!Lo(w) /\ D!Hi(w) = DP!Hi(w) /\ D!BodySize(w) = DP!BodySize(w)
BY DEF D!Lo, DP!Lo, D!Hi, DP!Hi, D!BodySize, DP!BodySize, D!Lower, DP!Lower,
       D!Upper, DP!Upper, D!Iterations, DP!Iterations, D!Remainder, DP!Remainder,
       D!Rem, DP!Rem, D!HunkSize, DP!HunkSize, D!Quot, DP!Quot,
       D!Magnitude, DP!Magnitude

\* DownloaderProofs instantiates Downloader once more, with the same steps.
LEMMA SameDownloader ==
  /\ D!Init <=> DP!Init
  /\ D!Next <=> DP!Next
  /\ D!vars = DP!vars /\ D!vars' = DP!vars'
<1> USE SameConstants, SameBodies
<1>1. (D!Init <=> DP!Init) /\ D!vars = DP!vars /\ D!vars' = DP!vars'
  BY DEF D!Init, DP!Init, D!vars, DP!vars, D!mainVars, DP!mainVars,
       D!workerVars, DP!workerVars, D!envVars, DP!envVars
<1>2. D!FetchLink <=> DP!FetchLink
  BY DEF D!FetchLink, DP!FetchLink, D!workerVars, DP!workerVars, D!envVars, DP!envVars
<1>3. D!HeadRequest <=> DP!HeadRequest
  BY DEF D!HeadRequest, DP!HeadRequest, D!HeadLengths, DP!HeadLengths,
       D!UnknownLength, DP!UnknownLength, D!workerVars, DP!workerVars,
       D!envVars, DP!envVars
<1>4. D!Prepare <=> DP!Prepare
  BY DEF D!Prepare, DP!Prepare, D!TooBig, DP!TooBig,
       D!BuildRangeFails, DP!BuildRangeFails, D!workerVars, DP!workerVars,
       D!envVars, DP!envVars
<1>5. D!SpawnWorker <=> DP!SpawnWorker
  BY DEF D!SpawnWorker, DP!SpawnWorker, D!envVars, DP!envVars
<1>6. D!OpenFails <=> DP!OpenFails
  BY DEF D!OpenFails, DP!OpenFails, D!workerVars, DP!workerVars, D!envVars, DP!envVars
<1>7. D!Wait <=> DP!Wait
  BY DEF D!Wait, DP!Wait, D!Joined, DP!Joined, D!Running, DP!Running,
       D!WaitResult, DP!WaitResult, D!workerVars, DP!workerVars, D!envVars, DP!envVars
<1>8. D!ExpireLinks <=> DP!ExpireLinks
  BY DEF D!ExpireLinks, DP!ExpireLinks, D!mainVars, DP!mainVars,
       D!workerVars, DP!workerVars
<1>9. \A w \in G!Worker : D!Seek(w) <=> DP!Seek(w)
  BY DEF D!Seek, DP!Seek, D!SeekTo, DP!SeekTo, D!At, DP!At, D!Goto, DP!Goto,
       D!mainVars, DP!mainVars, D!workerVars, DP!workerVars, D!envVars, DP!envVars
<1>10. \A w \in G!Worker : D!TemporaryError(w) <=> DP!TemporaryError(w)
  BY DEF D!TemporaryError, DP!TemporaryError, D!At, DP!At, D!Goto, DP!Goto,
       D!mainVars, DP!mainVars, D!workerVars, DP!workerVars, D!envVars, DP!envVars
<1>11. \A w \in G!Worker : D!RequestFails(w) <=> DP!RequestFails(w)
  BY DEF D!RequestFails, DP!RequestFails, D!At, DP!At, D!Goto, DP!Goto,
       D!mainVars, DP!mainVars, D!workerVars, DP!workerVars, D!envVars, DP!envVars
<1>12. \A w \in G!Worker : D!LinkRefused(w) <=> DP!LinkRefused(w)
  BY DEF D!LinkRefused, DP!LinkRefused, D!At, DP!At, D!Goto, DP!Goto,
       D!mainVars, DP!mainVars, D!workerVars, DP!workerVars, D!envVars, DP!envVars
<1>13. \A w \in G!Worker : D!UnexpectedStatus(w) <=> DP!UnexpectedStatus(w)
  BY DEF D!UnexpectedStatus, DP!UnexpectedStatus, D!At, DP!At, D!Goto, DP!Goto,
       D!mainVars, DP!mainVars, D!workerVars, DP!workerVars, D!envVars, DP!envVars
<1>14. \A w \in G!Worker : D!PartialContent(w) <=> DP!PartialContent(w)
  BY DEF D!PartialContent, DP!PartialContent, D!At, DP!At, D!Goto, DP!Goto,
       D!mainVars, DP!mainVars, D!workerVars, DP!workerVars, D!envVars, DP!envVars
<1>15. \A w \in G!Worker : D!Relink(w) <=> DP!Relink(w)
  BY DEF D!Relink, DP!Relink, D!FreshURL, DP!FreshURL, D!At, DP!At, D!Goto, DP!Goto,
       D!mainVars, DP!mainVars, D!workerVars, DP!workerVars, D!envVars, DP!envVars
<1>16. \A w \in G!Worker : D!CopyChunk(w) <=> DP!CopyChunk(w)
  BY DEF D!CopyChunk, DP!CopyChunk, D!Positions, DP!Positions, D!At, DP!At,
       D!Goto, DP!Goto, D!mainVars, DP!mainVars, D!workerVars, DP!workerVars,
       D!envVars, DP!envVars
<1>17. \A w \in G!Worker : D!CopyDone(w) <=> DP!CopyDone(w)
  BY DEF D!CopyDone, DP!CopyDone, D!At, DP!At, D!Goto, DP!Goto, D!mainVars, DP!mainVars,
       D!workerVars, DP!workerVars, D!envVars, DP!envVars
<1>18. \A w \in G!Worker : D!CopyBroken(w) <=> DP!CopyBroken(w)
  BY DEF D!CopyBroken, DP!CopyBroken, D!BarAfterBreak, DP!BarAfterBreak,
       D!AfterBreak, DP!AfterBreak, D!At, DP!At, D!Goto, DP!Goto,
       D!mainVars, DP!mainVars, D!workerVars, DP!workerVars, D!envVars, DP!envVars
<1>19. \A w \in G!Worker : D!CopyFails(w) <=> DP!CopyFails(w)
  BY DEF D!CopyFails, DP!CopyFails, D!At, DP!At, D!Goto, DP!Goto, D!mainVars, DP!mainVars,
       D!workerVars, DP!workerVars, D!envVars, DP!envVars
<1>20. \A w \in G!Worker : D!CopyPanics(w) <=> DP!CopyPanics(w)
  BY DEF D!CopyPanics, DP!CopyPanics, D!At, DP!At, D!Goto, DP!Goto,
       D!mainVars, DP!mainVars, D!workerVars, DP!workerVars, D!envVars, DP!envVars
<1>21. \A w \in G!Worker : D!Work(w) <=> DP!Work(w)
  BY <1>9, <1>10, <1>11, <1>12, <1>13, <1>14, <1>15, <1>16, <1>17, <1>18, <1>19, <1>20
  DEF D!Work, DP!Work
<1>22. D!Main <=> DP!Main
  BY <1>2, <1>3, <1>4, <1>5, <1>6, <1>7 DEF D!Main, DP!Main
<1> QED
  BY <1>1, <1>8, <1>21, <1>22 DEF D!Next, DP!Next

LEMMA DownloadRefinesDownloader == RelinkSpec => DP!Spec
<1>1. D!Init => DP!Init
  BY SameDownloader
<1>2. [D!Next]_(D!vars) => [DP!Next]_(DP!vars)
  BY SameDownloader
<1> QED
  BY <1>1, <1>2, DownloadServesTheDownloader, PTL DEF ServesTheDownloader, D!Spec, DP!Spec

\* Types are kept, with fetches and expiries between any two steps.
THEOREM RelinkTypesAreKept == RelinkSpec => []RelinkTypeOK
<1>1. DP!Spec => []DP!TypeOK
  BY DP!TypeCorrect, SeenAssumptions
<1>2. RelinkInv /\ DP!TypeOK => RelinkTypeOK
  BY SameConstants DEF RelinkInv, IInv, Typed, DP!TypeOK, G!TypeOK, RelinkTypeOK
<1> QED
  BY <1>1, <1>2, DownloadRefinesDownloader, RelinkInvariance, PTL

\* When DownloadForRelease returns nil and the HEAD request announced two bytes or
\* more, all bytes below the announced length are there, whichever fetchers
\* overtook each other; and no byte is ever out of its place
\* (product_files.go:469-489 with downloader.go:114-118).
THEOREM RelinkedBytesAreInPlace == RelinkSpec => [](G!OkMeansWholeFile /\ G!NoMisplacedBytes)
<1>1. DP!Spec => []DP!OkMeansWholeFile
  BY DP!OkMeansWholeFileAlways, SeenAssumptions
<1>2. DP!Spec => []DP!NoMisplacedBytes
  BY DP!NoMisplacedBytesAlways, SeenAssumptions
<1>3. RelinkInv /\ DP!OkMeansWholeFile => G!OkMeansWholeFile
  BY SameConstants, SeenPastLink DEF DP!OkMeansWholeFile, G!OkMeansWholeFile
<1>4. DP!NoMisplacedBytes => G!NoMisplacedBytes
  BY SameConstants DEF DP!NoMisplacedBytes, G!NoMisplacedBytes
<1> QED
  BY <1>1, <1>2, <1>3, <1>4, DownloadRefinesDownloader, RelinkInvariance, PTL

\* The bar, which all workers share, counts the bytes of their unbroken attempts
\* also when workers come back with new links (downloader.go:155-179).
THEOREM RelinkedBarCounts == RelinkSpec => []G!BarCountsTheBytes
<1>1. DP!Spec => []DP!BarCountsTheBytes
  BY DP!BarCountsTheBytesAlways, SeenAssumptions
<1>2. DP!SumFunction(written) = G!SumFunction(written)
  BY DEF DP!SumFunction, G!SumFunction, DP!SumFunctionOnSet, G!SumFunctionOnSet,
         DP!FoldFunctionOnSet, G!FoldFunctionOnSet, DP!MapThenFoldSet, G!MapThenFoldSet
<1>3. RelinkInv /\ DP!BarCountsTheBytes => G!BarCountsTheBytes
  BY <1>2, SeenPastLink DEF DP!BarCountsTheBytes, G!BarCountsTheBytes
<1> QED
  BY <1>1, <1>3, DownloadRefinesDownloader, RelinkInvariance, PTL

\* Workers run, and may write to the caller's file, from the start of their range
\* until they end; when DownloadForRelease has returned nil or the error of a
\* worker none does, not even one that was fetching a link.  What they can outlive
\* is a panic, and the return for a later range whose OpenFile failed
\* (downloader.go:100-101): then those of the ranges before it go on.
THEOREM RelinkingWorkersOutliveOnlyFailedOpens ==
  RelinkSpec =>
    [](/\ G!NoWorkerOutlivesTheCall
       /\ \A w \in G!Worker :
            G!Running(w) => w < next /\ dpc \in {"open", "openErr", "crashed"})
<1>1. ASSUME RelinkInv, NEW w \in G!Worker, G!Running(w)
      PROVE  w < next /\ dpc \in {"open", "openErr", "crashed"}
  <2>1. w < next
    BY <1>1, WorkerNumbers DEF RelinkInv, Typed, PlaceInv, G!Running
  <2>2. dpc \notin {"link", "head", "prepare", "ok", "err"}
    BY <1>1, <2>1, WorkerNumbers DEF RelinkInv, PlaceInv
  <2> QED
    BY <1>1, <2>1, <2>2 DEF RelinkInv, Typed, G!MainStates
<1>2. RelinkInv =>
        /\ G!NoWorkerOutlivesTheCall
        /\ \A w \in G!Worker :
             G!Running(w) => w < next /\ dpc \in {"open", "openErr", "crashed"}
  BY <1>1 DEF RelinkInv, PlaceInv, G!NoWorkerOutlivesTheCall
<1> QED
  BY <1>2, RelinkInvariance, PTL

\* A worker that goes back to the server has a younger link than the refused
\* one, also when the link expired on its way (downloader.go:155-161).
THEOREM RelinkedWorkersUseFreshLinks ==
  RelinkSpec => [][\A w \in G!Worker :
                     (wpc[w] = "relink" /\ wpc'[w] = "seek") => url'[w] > url[w]]_allVars
<1>1. ASSUME RelinkInv, [RelinkNext]_allVars, NEW w \in G!Worker,
             wpc[w] = "relink", wpc'[w] = "seek"
      PROVE  url'[w] > url[w]
  <2>1. wpc \in [G!Worker -> G!WorkerStates] /\ url \in [G!Worker -> Nat]
        /\ issued \in [Fetchers -> Nat]
    BY <1>1 DEF RelinkInv, Typed
  <2>2. ASSUME NEW f \in Mine, GotLink(f)
        PROVE  url'[w] > url[w]
    <3>1. f = w /\ url'[w] = issued[w] /\ RelinksNow(w)
      <4>1. f # Getter
        BY <1>1, <2>2 DEF GotLink
      <4>2. f = w
        BY <1>1, <2>1, <2>2, <4>1 DEF GotLink
      <4> QED
        BY <1>1, <2>1, <2>2, <4>1, <4>2
           DEF GotLink, ReturnLink, Return, RelinksNow, Underway, FetchedLink
    <3> QED
      BY <1>1, <2>1, <3>1, GoroutinesFetch DEF RelinkInv, LinksInv
  <2>3. ASSUME NEW f \in Mine, FetchStep(f), ~GotLink(f)
        PROVE  wpc'[w] # "seek"
    BY <1>1, <2>1, <2>3
       DEF FetchStep, AskForLink, IssueLink, GotNoLink, AfterFetchError, getVars
  <2>4. ~GetStep
    <3>1. w # next
      BY <1>1, WorkerNumbers DEF RelinkInv, Typed, PlaceInv
    <3> QED
      BY <1>1, <2>1, <3>1
         DEF GetStep, G!HeadRequest, G!Prepare, G!SpawnWorker, G!OpenFails, G!Wait, G!workerVars
  <2>5. ASSUME NEW v \in G!Worker, Unanswered(v) \/ Responded(v) \/ FileStep(v)
        PROVE  FALSE
    <3>1. Moves(v)
      BY <1>1, <2>5, WorkerMoves DEF RelinkInv
    <3> QED
      BY <1>1, <2>1, <3>1 DEF Moves
  <2>6. ~LookUp /\ ~LookedUp /\ ~Elsewhere /\ ~Expire /\ ~UNCHANGED allVars
    BY <1>1 DEF LookUp, LookedUp, Elsewhere, Expire, G!ExpireLinks, G!workerVars, allVars, getVars
  <2> QED
    BY <1>1, <2>2, <2>3, <2>4, <2>5, <2>6 DEF RelinkNext, Caller, WorkerStep, Mine
<1>2. RelinkInv /\ [RelinkNext]_allVars =>
        [\A w \in G!Worker :
           (wpc[w] = "relink" /\ wpc'[w] = "seek") => url'[w] > url[w]]_allVars
  BY <1>1
<1> QED
  BY <1>2, RelinkInvariance, PTL DEF RelinkSpec

\* If a refused HEAD request announces no length or zero, and the file has two
\* bytes or more, a nil from DownloadForRelease means that the whole product is
\* there, whichever fetchers overtook each other on the way.
THEOREM RelinkedProductIsWritten ==
  ASSUME RemoteSize >= 2, ErrorLengths \subseteq {G!UnknownLength, 0}
  PROVE  RelinkSpec => []G!WritesTheProduct
<1>1. DP!Spec => []DP!WritesTheProduct
  BY DP!WritesTheProductWhenLengthIsHonest, SeenAssumptions DEF DP!UnknownLength, G!UnknownLength
<1>2. RelinkInv /\ DP!WritesTheProduct => G!WritesTheProduct
  BY SameConstants, SeenPastLink DEF DP!WritesTheProduct, G!WritesTheProduct
<1> QED
  BY <1>1, <1>2, DownloadRefinesDownloader, RelinkInvariance, PTL

\* Under the same two conditions, which the runs ranger_one_byte and
\* downloader_refused_head show to be necessary, every step of DownloadForRelease
\* is one that Download allows or changes nothing there.
THEOREM RelinkedDownloadKeepsItsPromise ==
  ASSUME RemoteSize >= 2, ErrorLengths \subseteq {G!UnknownLength, 0}
  PROVE  RelinkSpec => D!KeepsItsPromise
<1>1. DP!Spec => DP!KeepsItsPromise
  BY DP!ImplementsDownload, SeenAssumptions DEF DP!UnknownLength, G!UnknownLength
<1>2. /\ D!D!Init <=> DP!D!Init
      /\ D!D!Next <=> DP!D!Next
      /\ D!D!vars = DP!D!vars /\ D!D!vars' = DP!D!vars'
  BY SameConstants
     DEF D!D!Init, DP!D!Init, D!D!vars, DP!D!vars, D!outcome, DP!outcome,
         D!D!Next, DP!D!Next, D!D!Receive, DP!D!Receive, D!D!Succeed, DP!D!Succeed,
         D!D!Fail, DP!D!Fail, D!D!Crash, DP!D!Crash, D!D!RemoteBytes, DP!D!RemoteBytes
<1>3. (DP!D!Init => D!D!Init) /\ ([DP!D!Next]_(DP!D!vars) => [D!D!Next]_(D!D!vars))
  BY <1>2
<1> QED
  BY <1>1, <1>3, DownloadRefinesDownloader, PTL
     DEF DP!KeepsItsPromise, D!KeepsItsPromise, DP!D!Spec, D!D!Spec

=============================================================================
