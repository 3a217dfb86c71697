------------------------- MODULE PivnetClientProofs -------------------------
(* That what a call returns tells what the API answered, for any number of   *)
(* concurrent calls, any mixture of operations and any token.                *)
EXTENDS PivnetClient, TLAPS

\* A finished call returns what its own response amounts to, or had none.
ResultInv ==
  \A c \in Calls :
    /\ pc[c] \in {"create", "token", "request"} =>
         result[c] = "none" /\ response[c] = NoResponse
    /\ pc[c] = "responded" => result[c] = "none" /\ response[c] \in Responses
    /\ pc[c] = "done" =>
         \/ result[c] = "request" /\ response[c] = NoResponse
         \/ /\ result[c] = Returned(operation[c], response[c])
            /\ response[c] \in Responses

TypedFunctions ==
  /\ tokenLength \in TokenLengths
  /\ process \in {"running", "exited"}
  /\ credentials \in {"valid", "revoked"}
  /\ exchange \in [Calls -> Exchanges]
  /\ operation \in [Calls -> Operations]
  /\ pc \in [Calls -> {"create", "token", "request", "responded", "done"}]
  /\ DOMAIN response = Calls /\ response = [c \in Calls |-> response[c]]
  /\ DOMAIN result = Calls /\ result = [c \in Calls |-> result[c]]

IInv == TypedFunctions /\ ResultInv

LEMMA InitInv == Init => IInv
BY DEF Init, IInv, TypedFunctions, ResultInv, Exchanges

LEMMA StepInv == IInv /\ [Next]_vars => IInv'
<1> SUFFICES ASSUME IInv, [Next]_vars PROVE IInv'
  OBVIOUS
<1> USE DEF IInv, TypedFunctions, ResultInv, Step, configuration
<1>1. ASSUME NEW c \in Calls, CreateRequest(c) PROVE IInv'
  BY <1>1 DEF CreateRequest
<1>2. ASSUME NEW c \in Calls, GetToken(c) PROVE IInv'
  BY <1>2 DEF GetToken, Exchanges
<1>3. ASSUME NEW c \in Calls, GetTokenRefused(c) \/ GetTokenFails(c) PROVE IInv'
  BY <1>3 DEF GetTokenRefused, GetTokenFails, Fatal, Exchanges
<1>4. ASSUME NEW c \in Calls, RequestFails(c) PROVE IInv'
  BY <1>4 DEF RequestFails
<1>5. ASSUME NEW c \in Calls, Respond(c) PROVE IInv'
  BY <1>5 DEF Respond
<1>6. ASSUME NEW c \in Calls, Return(c) PROVE IInv'
  BY <1>6 DEF Return
<1>7. CASE Revoke
  BY <1>7 DEF Revoke
<1>8. CASE UNCHANGED vars
  BY <1>8 DEF vars
<1>9. ASSUME NEW c \in Calls, CreateRequestFails(c) PROVE IInv'
  BY <1>9 DEF CreateRequestFails
<1> QED
  BY <1>1, <1>2, <1>3, <1>4, <1>5, <1>6, <1>7, <1>8, <1>9 DEF Next, Call

LEMMA Invariance == Spec => []IInv
BY InitInv, StepInv, PTL DEF Spec

-----------------------------------------------------------------------------

\* Whatever the answer to a call of any operation, the call returns a verdict or
\* an error: Returned has a value for each pair.
LEMMA EveryResponseHasAResult ==
  ASSUME NEW op \in Operations, NEW r \in Responses
  PROVE  Returned(op, r) \in Results
<1>1. HandleUnexpected(r) \in Errors
  BY DEF HandleUnexpected, Errors, Responses, Statuses, Bodies
<1>2. Decoded(r) \in Results
  BY DEF Decoded, DecodeError, Results, Errors
<1>3. CreateError(HandleUnexpected(r)) \in Errors
  BY <1>1 DEF CreateError, Errors
<1>4. CASE op = "check"
  BY <1>1, <1>4 DEF Returned, CheckResult, Results
<1>5. CASE op = "fetchToken"
  BY <1>2, <1>5 DEF Returned, FetchUAATokenResult, Results, Errors
<1>6. CASE op = "create"
  BY <1>2, <1>3, <1>6 DEF Returned, Results
<1>7. CASE op \in {"list", "delete"}
  BY <1>1, <1>2, <1>7 DEF Returned, Results
<1> QED
  BY <1>4, <1>5, <1>6, <1>7 DEF Operations

\* Types are kept: every call that is done returned one of the results of its
\* method, for every status and body the API may answer with.
THEOREM TypeCorrect == Spec => []TypeOK
<1>1. IInv => TypeOK
  <2> SUFFICES ASSUME IInv
               PROVE  TypeOK
    OBVIOUS
  <2> USE DEF IInv, TypedFunctions, ResultInv
  <2>1. ASSUME NEW c \in Calls
        PROVE  response[c] \in Responses \cup {NoResponse} /\ result[c] \in Results
    BY EveryResponseHasAResult DEF Results, Errors
  <2>2. /\ response \in [Calls -> Responses \cup {NoResponse}]
        /\ result \in [Calls -> Results]
    BY <2>1
  <2> QED
    BY <2>2 DEF TypeOK
<1> QED
  BY Invariance, <1>1, PTL

\* The error of a response is never taken for one of Check's two answers.
LEMMA ErrorsAreNoAnswers ==
  ASSUME NEW r \in Responses
  PROVE  HandleUnexpected(r) \notin {"true", "false", "nil"}
BY DEF HandleUnexpected, Responses, Statuses, Bodies

\* Check returns true for a 200, false for a 401 or 403, and an error for all
\* else, whatever other calls do.
THEOREM CheckKeepsItsContract == Spec => []CheckContract
<1>1. IInv => CheckContract
  <2> SUFFICES ASSUME IInv, NEW c \in Calls, Done(c, "check")
               PROVE  /\ result[c] = "true" <=> response[c].status = 200
                      /\ result[c] = "false" <=> response[c].status \in {401, 403}
    BY DEF CheckContract
  <2>1. CASE result[c] = "request" /\ response[c] = NoResponse
    BY <2>1 DEF NoResponse
  <2>2. CASE /\ result[c] = Returned("check", response[c])
             /\ response[c] \in Responses
    BY <2>2, ErrorsAreNoAnswers DEF Returned, CheckResult
  <2> QED
    BY <2>1, <2>2 DEF IInv, ResultInv, Done
<1> QED
  BY Invariance, <1>1, PTL

\* An error that is no rate limit's stays what it is.
LEMMA RateLimitsAreErrors ==
  ASSUME NEW r \in Responses
  PROVE  /\ HandleUnexpected(r) = "tooMany" <=> r.status = 429 /\ r.body # "broken"
         /\ HandleUnexpected(r) # "creationLimit"
         /\ Decoded(r) \notin {"tooMany", "creationLimit"}
BY DEF HandleUnexpected, Decoded, DecodeError, Responses, Statuses, Bodies

\* Callers of a service and of Check get the error of a rate limit when there is
\* one with a readable body, and at no other time; Create's get its own.
THEOREM RateLimitIsAlwaysRecognised == Spec => []RateLimitIsRecognised
<1>1. IInv => RateLimitIsRecognised
  <2> SUFFICES ASSUME IInv, NEW c \in Calls, pc[c] = "done"
               PROVE  /\ result[c] = "tooMany" <=>
                           operation[c] \in {"list", "delete", "check"} /\ RateLimited(c)
                      /\ result[c] = "creationLimit" <=> operation[c] = "create" /\ RateLimited(c)
    BY DEF RateLimitIsRecognised
  <2>1. CASE result[c] = "request" /\ response[c] = NoResponse
    BY <2>1 DEF NoResponse, RateLimited
  <2>2. CASE /\ result[c] = Returned(operation[c], response[c])
             /\ response[c] \in Responses
    <3>1. CASE operation[c] \in {"list", "delete"}
      BY <2>2, <3>1, RateLimitsAreErrors DEF Returned, Unexpected, Expected, RateLimited
    <3>2. CASE operation[c] = "create"
      BY <2>2, <3>2, RateLimitsAreErrors
         DEF Returned, Unexpected, Expected, CreateError, RateLimited
    <3>3. CASE operation[c] = "check"
      BY <2>2, <3>3, RateLimitsAreErrors DEF Returned, CheckResult, RateLimited
    <3>4. CASE operation[c] = "fetchToken"
      BY <2>2, <3>4, RateLimitsAreErrors DEF Returned, FetchUAATokenResult
    <3> QED
      BY <3>1, <3>2, <3>3, <3>4 DEF IInv, TypedFunctions, Operations
  <2> QED
    BY <2>1, <2>2 DEF IInv, ResultInv
<1> QED
  BY Invariance, <1>1, PTL

\* No error means that the one expected status came back.
THEOREM NilAlwaysMeansExpectedResponse == Spec => []NilMeansExpectedResponse
<1>1. IInv => NilMeansExpectedResponse
  <2> SUFFICES ASSUME IInv, NEW c \in Calls, result[c] = "nil",
                      operation[c] # "fetchToken"
               PROVE  /\ response[c].status = Expected(operation[c])
                      /\ operation[c] # "delete" => response[c].body = "json"
    BY DEF NilMeansExpectedResponse
  <2>1. /\ Returned(operation[c], response[c]) = "nil"
        /\ response[c] \in Responses
    BY DEF IInv, TypedFunctions, ResultInv
  <2>2. operation[c] \in Operations \ {"fetchToken"}
    BY DEF IInv, TypedFunctions
  <2>3. HandleUnexpected(response[c]) # "nil"
        /\ CreateError(HandleUnexpected(response[c])) # "nil"
    BY <2>1, ErrorsAreNoAnswers DEF CreateError
  <2>4. operation[c] # "check"
    BY <2>1, <2>3 DEF Returned, CheckResult
  <2>5. ~Unexpected(operation[c], response[c])
    BY <2>1, <2>2, <2>3, <2>4 DEF Returned, Operations
  <2>6. operation[c] # "delete" => Decoded(response[c]) = "nil"
    BY <2>1, <2>2, <2>4, <2>5 DEF Returned, Operations
  <2> QED
    BY <2>2, <2>4, <2>5, <2>6 DEF Unexpected, Expected, Decoded, DecodeError, Operations
<1> QED
  BY Invariance, <1>1, PTL

\* Only a call whose exchange of a refresh token failed ends the process
\* (pivnet.go:136-143): with a legacy token nothing does, so that Check comes back.
THEOREM OnlyFailedExchangesExit ==
  Spec => [](process = "exited" =>
               UsesUAAToken /\ \E c \in Calls : exchange[c] \in {"refused", "failed"})
<1> DEFINE Exits == process = "exited" => \E c \in Calls : exchange[c] \in {"refused", "failed"}
           Exchanging == \A c \in Calls :
                           (pc[c] = "token" \/ exchange[c] # "none") => UsesUAAToken
<1>1. Init => Exits /\ Exchanging
  BY DEF Init
<1>2. IInv /\ Exits /\ Exchanging /\ [Next]_vars => (Exits /\ Exchanging)'
  <2> SUFFICES ASSUME IInv, Exits, Exchanging, [Next]_vars PROVE (Exits /\ Exchanging)'
    OBVIOUS
  <2>1. /\ pc \in [Calls -> {"create", "token", "request", "responded", "done"}]
        /\ exchange \in [Calls -> Exchanges]
    BY DEF IInv, TypedFunctions
  <2>2. ASSUME NEW c \in Calls, Call(c) PROVE (Exits /\ Exchanging)'
    <3>1. UsesUAAToken' <=> UsesUAAToken
      BY <2>2 DEF Call, CreateRequest, CreateRequestFails, GetToken, GetTokenRefused,
         GetTokenFails, Fatal, RequestFails, Respond, Return, configuration, UsesUAAToken
    <3>2. CASE GetTokenRefused(c) \/ GetTokenFails(c)
      BY <2>1, <3>1, <3>2 DEF GetTokenRefused, GetTokenFails, Fatal
    <3>3. CASE CreateRequest(c) \/ GetToken(c)
      BY <2>1, <3>1, <3>3 DEF CreateRequest, GetToken, Step
    <3>4. CASE CreateRequestFails(c) \/ RequestFails(c) \/ Respond(c) \/ Return(c)
      BY <2>1, <3>1, <3>4 DEF CreateRequestFails, RequestFails, Respond, Return, Step
    <3> QED
      BY <2>2, <3>2, <3>3, <3>4 DEF Call
  <2>3. CASE Revoke \/ UNCHANGED vars
    BY <2>3 DEF Revoke, vars, configuration, UsesUAAToken
  <2> QED
    BY <2>2, <2>3 DEF Next
<1>3. Exits /\ Exchanging =>
        (process = "exited" =>
           UsesUAAToken /\ \E c \in Calls : exchange[c] \in {"refused", "failed"})
  OBVIOUS
<1> QED
  BY Invariance, <1>1, <1>2, <1>3, PTL DEF Spec

=============================================================================
