----------------------------- MODULE LinkFetcher -----------------------------
(***************************************************************************)
(* ProductFileLinkFetcher.NewDownloadLink (product_file_link_fetcher.go).  *)
(* The API answers the POST for a link with a redirect to it, so the       *)
(* fetcher tells the http.Client not to follow redirects, makes the        *)
(* request, and sets the client back.  The http.Client is a pointer, which *)
(* every copy of the pivnet Client shares: all fetchers of concurrent      *)
(* downloads, the workers of one download that ask for a fresh link, and   *)
(* the calls of all other services use the one CheckRedirect field.        *)
(***************************************************************************)
EXTENDS Naturals, FiniteSets

CONSTANTS
  Fetchers,     \* the goroutines that call NewDownloadLink
  Others,       \* the goroutines that make other API calls
  MaxCalls      \* bound: how many calls each goroutine makes

ASSUME DistinctAssumption == Fetchers \cap Others = {}
ASSUME CallsAssumption == MaxCalls \in Nat

Callers == Fetchers \cup Others

\* What http.Client.Do makes of the answer to a request.  "followed" is the
\* answer of the place a redirect points to, "failed" any other error.
Answers == {"none", "ok", "redirect", "followed", "failed"}

VARIABLES
  checkRedirect,  \* "nil": follow redirects, "useLast": return them
  pc,             \* where each goroutine is in its call
  answer,         \* what MakeRequest got, for each goroutine
  result,         \* what each goroutine's last call returned
  calls           \* how many calls each goroutine has begun

vars == <<checkRedirect, pc, answer, result, calls>>

TypeOK ==
  /\ checkRedirect \in {"nil", "useLast"}
  /\ pc \in [Callers -> {"idle", "request", "answered"}]
  /\ answer \in [Callers -> Answers]
  /\ result \in [Callers -> {"none", "link", "response", "error"}]
  /\ calls \in [Callers -> Nat]

Init ==
  /\ checkRedirect = "nil"
  /\ pc = [c \in Callers |-> "idle"]
  /\ answer = [c \in Callers |-> "none"]
  /\ result = [c \in Callers |-> "none"]
  /\ calls = [c \in Callers |-> 0]

-----------------------------------------------------------------------------

Begin(c) ==
  /\ pc[c] = "idle"
  /\ calls[c] < MaxCalls
  /\ calls' = [calls EXCEPT ![c] = @ + 1]
  /\ pc' = [pc EXCEPT ![c] = "request"]
  /\ answer' = [answer EXCEPT ![c] = "none"]
  /\ result' = [result EXCEPT ![c] = "none"]

\* Mutant: the policy returns an error other than ErrUseLastResponse.
PolicyForFetch_Refuse == "refuse"

\* Mutant: the policy is left as it is.
PolicyForFetch_Unset == checkRedirect

PolicyForFetch == "useLast"

BeginFetch(f) ==
  /\ Begin(f)
  /\ checkRedirect' = PolicyForFetch

BeginOther(o) ==
  /\ Begin(o)
  /\ UNCHANGED checkRedirect

\* http.Client reads CheckRedirect when a redirect comes in, not when the
\* request goes out.
OnRedirect == IF checkRedirect = "nil" THEN "followed" ELSE "redirect"

Answer(c, a) ==
  /\ pc[c] = "request"
  /\ answer' = [answer EXCEPT ![c] = a]
  /\ pc' = [pc EXCEPT ![c] = "answered"]
  /\ UNCHANGED <<checkRedirect, result, calls>>

Redirected(c) == Answer(c, OnRedirect)

\* The API refuses the request, or it is lost.
Refused(c) == Answer(c, "failed")

\* Only calls of other services are answered without a redirect.
Answered(o) == Answer(o, "ok")

Return(c, r) ==
  /\ pc[c] = "answered"
  /\ pc' = [pc EXCEPT ![c] = "idle"]
  /\ result' = [result EXCEPT ![c] = r]
  /\ UNCHANGED <<answer, calls>>

\* Mutant: the client is not set back.
PolicyAfterFetch_Kept == checkRedirect

PolicyAfterFetch == "nil"

ReturnLink(f) ==
  /\ answer[f] = "redirect"
  /\ Return(f, "link")
  /\ checkRedirect' = PolicyAfterFetch

\* MakeRequest wants 302; on its error the policy stays as it is.
ReturnFetchError(f) ==
  /\ answer[f] # "redirect"
  /\ Return(f, "error")
  /\ UNCHANGED checkRedirect

ReturnOther(o) ==
  /\ Return(o, IF answer[o] \in {"ok", "followed"} THEN "response" ELSE "error")
  /\ UNCHANGED checkRedirect

Fetch(f) ==
  BeginFetch(f) \/ Redirected(f) \/ Refused(f) \/ ReturnLink(f) \/ ReturnFetchError(f)

Other(o) ==
  BeginOther(o) \/ Answered(o) \/ Redirected(o) \/ Refused(o) \/ ReturnOther(o)

Next == (\E f \in Fetchers : Fetch(f)) \/ (\E o \in Others : Other(o))

Spec == Init /\ [][Next]_vars

-----------------------------------------------------------------------------

\* "NewDownloadLink returns a url" (product_file_link_fetcher_test.go:43-44):
\* a fetcher whose request the API answers with the redirect, as it should,
\* returns the link, whatever else goes over the shared client.
RedirectBecomesLink ==
  \A f \in Fetchers : answer[f] # "followed"

\* When no fetch is under way, the client follows redirects again for the
\* calls of the other services (product_file_link_fetcher.go:28), even after
\* fetches that overtook each other, one of which returned an error without
\* setting the client back.  Only a fetch that the API refused leaves its
\* policy behind (product_file_link_fetcher.go:22-24).
PolicyIsRestored ==
  (\A f \in Fetchers : pc[f] = "idle" /\ answer[f] # "failed") => checkRedirect = "nil"

\* A fetcher whose request is underway loses its redirect only to another one
\* that has just returned with a link: a fetcher alone always gets its link, as
\* do fetchers beside calls of other services or beside fetches that fail.
OnlyFetchersOvertake ==
  \A f \in Fetchers :
    (pc[f] = "request" /\ OnRedirect = "followed") =>
      \E g \in Fetchers \ {f} : pc[g] = "idle" /\ result[g] = "link"

=============================================================================
