-------------------------- MODULE LinkFetcherProofs --------------------------
(* That the shared http.Client follows redirects again whenever no fetch is  *)
(* under way and none was refused, and that only fetchers take each other's  *)
(* redirects, for any number of goroutines.                                  *)
EXTENDS LinkFetcher, TLAPS

(***************************************************************************)
(* PolicyIsRestored alone is not inductive: a fetcher could be about to    *)
(* return an error and leave the policy of another behind.  What holds is  *)
(* that the last fetcher to have set the policy is still there to set it   *)
(* back, its request unanswered or answered under its own policy, or was   *)
(* refused.                                                                *)
(***************************************************************************)
SomeoneWillRestore ==
  checkRedirect = "useLast" =>
    \E f \in Fetchers :
      \/ pc[f] = "request"
      \/ pc[f] = "answered" /\ answer[f] = "redirect"
      \/ answer[f] = "failed"

IInv == TypeOK /\ SomeoneWillRestore /\ OnlyFetchersOvertake

LEMMA InitInv == Init => IInv
BY DEF Init, IInv, TypeOK, SomeoneWillRestore, OnlyFetchersOvertake, Callers, Answers

\* The answer to one goroutine leaves the others where they are.
LEMMA AnswerInv ==
  ASSUME IInv, NEW c \in Callers, NEW a \in Answers, Answer(c, a),
         checkRedirect = "useLast" /\ c \in Fetchers => a \in {"redirect", "failed"}
  PROVE  IInv'
<1>1. /\ pc[c] = "request" /\ pc'[c] = "answered" /\ answer'[c] = a
      /\ \A d \in Callers \ {c} : pc'[d] = pc[d] /\ answer'[d] = answer[d]
      /\ UNCHANGED <<checkRedirect, result>>
  BY DEF Answer, IInv, TypeOK
<1>2. TypeOK'
  BY DEF Answer, IInv, TypeOK
<1>3. SomeoneWillRestore'
  BY <1>1 DEF IInv, SomeoneWillRestore, Callers
<1>4. OnlyFetchersOvertake'
  BY <1>1 DEF IInv, OnlyFetchersOvertake, OnRedirect, Callers
<1> QED
  BY <1>2, <1>3, <1>4 DEF IInv

LEMMA StepInv ==
  ASSUME IInv, [Next]_vars
  PROVE  IInv'
<1> USE DEF IInv, TypeOK, SomeoneWillRestore, OnlyFetchersOvertake, OnRedirect, Callers, Answers
<1>1. ASSUME NEW f \in Fetchers, BeginFetch(f) PROVE IInv'
  <2>1. pc'[f] = "request"
    BY <1>1 DEF BeginFetch, Begin
  <2> QED
    BY <1>1, <2>1 DEF BeginFetch, Begin, PolicyForFetch
<1>2. ASSUME NEW o \in Others, BeginOther(o) PROVE IInv'
  <2>1. \A f \in Fetchers : pc'[f] = pc[f] /\ answer'[f] = answer[f] /\ result'[f] = result[f]
    BY <1>2, DistinctAssumption DEF BeginOther, Begin
  <2> QED
    BY <1>2, <2>1 DEF BeginOther, Begin
<1>3. ASSUME NEW c \in Callers, Redirected(c) \/ Refused(c) PROVE IInv'
  BY <1>3, AnswerInv DEF Redirected, Refused
<1>4. ASSUME NEW o \in Others, Answered(o) PROVE IInv'
  BY <1>4, AnswerInv, DistinctAssumption DEF Answered
<1>5. ASSUME NEW f \in Fetchers, ReturnLink(f) PROVE IInv'
  <2>1. /\ pc[f] = "answered" /\ pc'[f] = "idle" /\ result'[f] = "link" /\ checkRedirect' = "nil"
        /\ \A g \in Fetchers \ {f} : pc'[g] = pc[g]
    BY <1>5 DEF ReturnLink, Return, PolicyAfterFetch
  <2>2. TypeOK'
    BY <1>5 DEF ReturnLink, Return, PolicyAfterFetch
  <2> QED
    BY <2>1, <2>2
<1>6. ASSUME NEW f \in Fetchers, ReturnFetchError(f) PROVE IInv'
  <2>1. /\ \A g \in Fetchers \ {f} : pc'[g] = pc[g] /\ result'[g] = result[g]
        /\ pc[f] = "answered" /\ answer[f] # "redirect" /\ pc'[f] = "idle"
        /\ UNCHANGED <<answer, checkRedirect>>
    BY <1>6 DEF ReturnFetchError, Return
  <2>2. TypeOK'
    BY <1>6 DEF ReturnFetchError, Return
  <2>3. SomeoneWillRestore'
    BY <2>1
  <2>4. OnlyFetchersOvertake'
    BY <2>1
  <2> QED
    BY <2>2, <2>3, <2>4
<1>7. ASSUME NEW o \in Others, ReturnOther(o) PROVE IInv'
  <2>1. \A f \in Fetchers : pc'[f] = pc[f] /\ answer'[f] = answer[f] /\ result'[f] = result[f]
    BY <1>7, DistinctAssumption DEF ReturnOther, Return
  <2> QED
    BY <1>7, <2>1 DEF ReturnOther, Return
<1>8. CASE UNCHANGED vars
  BY <1>8 DEF vars
<1> QED
  BY <1>1, <1>2, <1>3, <1>4, <1>5, <1>6, <1>7, <1>8 DEF Next, Fetch, Other

LEMMA Invariance == Spec => []IInv
BY InitInv, StepInv, PTL DEF Spec

\* Fetchers that overtake each other leave no policy behind, unless the API
\* refuses one of them.
THEOREM PolicyIsAlwaysRestored == Spec => []PolicyIsRestored
<1>1. IInv => PolicyIsRestored
  BY DEF IInv, TypeOK, SomeoneWillRestore, PolicyIsRestored
<1> QED
  BY Invariance, <1>1, PTL

\* Of any number of goroutines, only another fetcher that has got its link can
\* take the redirect of a fetcher.
THEOREM OnlyFetchersOvertakeAlways == Spec => []OnlyFetchersOvertake
<1>1. IInv => OnlyFetchersOvertake
  BY DEF IInv
<1> QED
  BY Invariance, <1>1, PTL

\* While only one goroutine of the program ever fetches a link, the fetch always
\* gets its link, whatever other calls go over the shared client: what the two
\* fetchers of the race of RedirectBecomesLink do to each other, calls of other
\* services cannot do.
THEOREM FetcherAloneGetsItsLink ==
  ASSUME \A f, g \in Fetchers : f = g
  PROVE  Spec => []RedirectBecomesLink
<1>1. Init => RedirectBecomesLink
  BY DEF Init, RedirectBecomesLink, Callers
<1>2. ASSUME IInv, RedirectBecomesLink, [Next]_vars PROVE RedirectBecomesLink'
  <2> USE <1>2 DEF RedirectBecomesLink
  <2>1. TypeOK
    BY DEF IInv
  <2>2. ASSUME NEW f \in Fetchers, BeginFetch(f) \/ ReturnLink(f) \/ ReturnFetchError(f)
        PROVE  RedirectBecomesLink'
    BY <2>1, <2>2 DEF BeginFetch, Begin, ReturnLink, ReturnFetchError, Return, TypeOK, Callers
  <2>3. ASSUME NEW o \in Others, BeginOther(o) \/ ReturnOther(o)
        PROVE  RedirectBecomesLink'
    BY <2>1, <2>3 DEF BeginOther, Begin, ReturnOther, Return, TypeOK, Callers
  <2>4. ASSUME NEW f \in Fetchers, Redirected(f) PROVE RedirectBecomesLink'
    <3>1. OnRedirect # "followed"
      BY <2>4 DEF Redirected, Answer, IInv, OnlyFetchersOvertake
    <3>2. answer' = [answer EXCEPT ![f] = OnRedirect]
      BY <2>4 DEF Redirected, Answer
    <3> QED
      BY <2>1, <3>1, <3>2 DEF TypeOK, Callers
  <2>5. ASSUME NEW c \in Callers, Refused(c) PROVE RedirectBecomesLink'
    BY <2>1, <2>5 DEF Refused, Answer, TypeOK, Callers
  <2>6. ASSUME NEW o \in Others, Redirected(o) \/ Answered(o) PROVE RedirectBecomesLink'
    BY <2>1, <2>6, DistinctAssumption DEF Redirected, Answered, Answer, TypeOK, Callers
  <2>7. CASE UNCHANGED vars
    BY <2>7 DEF vars
  <2> QED
    BY <2>2, <2>3, <2>4, <2>5, <2>6, <2>7 DEF Next, Fetch, Other, Callers
<1> QED
  BY Invariance, <1>1, <1>2, PTL DEF Spec

=============================================================================
