---------------------------- MODULE PivnetClient ----------------------------
(***************************************************************************)
(* How the pivnet Client (pivnet.go) makes a request to the API and what   *)
(* an answer becomes for the caller: the token that is fetched before      *)
(* every request of a client with a UAA refresh token (uaa.go), the status *)
(* the caller expects, and the error an unexpected one is turned into.     *)
(* Calls of different services run concurrently in one process.  The       *)
(* operator of the API may revoke the client's credentials at any time.    *)
(***************************************************************************)
EXTENDS Naturals

CONSTANTS
  Calls,        \* the calls that are made
  TokenLengths  \* lengths the token in the ClientConfig may have

\* Auth.Check, Auth.FetchUAAToken, ProductFiles.Create, and two calls that
\* stand for the other services: one decodes its response, one ignores it.
Operations == {"check", "fetchToken", "create", "list", "delete"}

ASSUME TokenLengthsAssumption == TokenLengths \subseteq Nat

\* The statuses the code tells apart, one that is a success for nobody (418)
\* and the successes of the operations.
Statuses == {200, 201, 204, 401, 403, 404, 418, 429, 451, 500}

\* Whether the body of a response can be read and has the JSON shape that
\* belongs to its status.
Bodies == {"json", "garbled", "broken"}

Responses == [status : Statuses, body : Bodies]
NoResponse == [status |-> 0, body |-> "broken"]

Errors ==
  {"request",        \* no response: the URL, the network, a timeout
   "unreadable",     \* the body broke off
   "undecodable",    \* the body is not the JSON that was expected
   "tooMany", "unauthorized", "notFound", "unavailable",
   "other",          \* ErrPivnetOther
   "creationLimit",  \* what Create makes of ErrTooManyRequests
   "noToken"}        \* FetchUAAToken: any status but 200

Results == {"none", "nil", "true", "false"} \cup Errors

\* An exchange is refused for the credentials, or fails for any other reason:
\* the network, another status, a response that cannot be decoded.
Exchanges == {"none", "token", "refused", "failed"}

VARIABLES
  tokenLength,  \* that of the client of all calls
  operation,    \* what each call is
  process,      \* "running", or "exited" by log.Fatalf
  credentials,  \* "valid" or "revoked"
  exchange,     \* what became of each call's exchange of the refresh token
  pc,           \* where each call is
  response,     \* what the API answered to each call
  result        \* what each call returned; "true" and "false" with no error

configuration == <<tokenLength, operation>>
vars == <<configuration, process, credentials, exchange, pc, response, result>>

TypeOK ==
  /\ tokenLength \in TokenLengths
  /\ operation \in [Calls -> Operations]
  /\ process \in {"running", "exited"}
  /\ credentials \in {"valid", "revoked"}
  /\ exchange \in [Calls -> Exchanges]
  /\ pc \in [Calls -> {"create", "token", "request", "responded", "done"}]
  /\ response \in [Calls -> Responses \cup {NoResponse}]
  /\ result \in [Calls -> Results]

Init ==
  /\ tokenLength \in TokenLengths
  /\ operation \in [Calls -> Operations]
  /\ process = "running"
  /\ credentials = "valid"
  /\ exchange = [c \in Calls |-> "none"]
  /\ pc = [c \in Calls |-> "create"]
  /\ response = [c \in Calls |-> NoResponse]
  /\ result = [c \in Calls |-> "none"]

-----------------------------------------------------------------------------
(* What becomes of a response *)

\* The status MakeRequest is told to expect; 0 accepts every status.
Expected(op) ==
  CASE op \in {"check", "fetchToken"} -> 0
    [] op = "create" -> 201
    [] op = "list" -> 200
    [] op = "delete" -> 204

\* json.Decode: reading and decoding the body of an expected response.
DecodeError(r) == IF r.body = "broken" THEN "unreadable" ELSE "undecodable"

\* Mutant: the body is decoded before the status is looked at.
HandleUnexpected_DecodeFirst(r) ==
  CASE r.body # "json" -> DecodeError(r)
    [] r.status = 429 -> "tooMany"
    [] OTHER -> "other"

HandleUnexpected(r) ==
  IF r.body = "broken" THEN "unreadable"
  ELSE CASE r.status = 429 -> "tooMany"
         [] r.status # 429 /\ r.body = "garbled" -> "undecodable"
         [] r.status = 401 /\ r.body = "json" -> "unauthorized"
         [] r.status = 404 /\ r.body = "json" -> "notFound"
         [] r.status = 451 /\ r.body = "json" -> "unavailable"
         [] OTHER -> "other"

\* Mutant: a caller that expects any status of success gets it.
Unexpected_Failures(op, r) == Expected(op) > 0 /\ r.status >= 400

Unexpected(op, r) == Expected(op) > 0 /\ r.status # Expected(op)

\* Mutant: the 403 has a case without a return.
CheckResult_NoVerdict(r) ==
  CASE r.status = 200 -> "true"
    [] r.status = 401 -> "false"
    [] r.status = 403 -> "neither"
    [] OTHER -> HandleUnexpected(r)

\* Mutant: a 403 is an error like any other.
CheckResult_401Only(r) ==
  CASE r.status = 200 -> "true"
    [] r.status = 401 -> "false"
    [] OTHER -> HandleUnexpected(r)

CheckResult(r) ==
  CASE r.status = 200 -> "true"
    [] r.status \in {401, 403} -> "false"
    [] OTHER -> HandleUnexpected(r)

Decoded(r) == IF r.body = "json" THEN "nil" ELSE DecodeError(r)

FetchUAATokenResult(r) == IF r.status = 200 THEN Decoded(r) ELSE "noToken"

CreateError(e) == IF e = "tooMany" THEN "creationLimit" ELSE e

Returned(op, r) ==
  CASE op = "check" -> CheckResult(r)
    [] op = "fetchToken" -> FetchUAATokenResult(r)
    [] op = "create" -> IF Unexpected(op, r) THEN CreateError(HandleUnexpected(r)) ELSE Decoded(r)
    [] op = "list" -> IF Unexpected(op, r) THEN HandleUnexpected(r) ELSE Decoded(r)
    [] op = "delete" -> IF Unexpected(op, r) THEN HandleUnexpected(r) ELSE "nil"

-----------------------------------------------------------------------------
(* A call *)

LegacyAPITokenLength == 20

\* Mutant: a token of the legacy length is taken for a refresh token.
UsesUAAToken_AtLegacyLength == tokenLength >= LegacyAPITokenLength

UsesUAAToken == tokenLength > LegacyAPITokenLength

Step(c, from, to) ==
  /\ process = "running"
  /\ pc[c] = from
  /\ pc' = [pc EXCEPT ![c] = to]

CreateRequest(c) ==
  /\ Step(c, "create", IF UsesUAAToken THEN "token" ELSE "request")
  /\ UNCHANGED <<configuration, process, credentials, exchange, response, result>>

\* The URL or the method is malformed, which is seen before any token is fetched.
CreateRequestFails(c) ==
  /\ Step(c, "create", "done")
  /\ result' = [result EXCEPT ![c] = "request"]
  /\ UNCHANGED <<configuration, process, credentials, exchange, response>>

GetToken(c) ==
  /\ Step(c, "token", "request")
  /\ credentials = "valid"
  /\ exchange' = [exchange EXCEPT ![c] = "token"]
  /\ UNCHANGED <<configuration, process, credentials, response, result>>

\* Any failure to get a token ends the process: log.Fatalf.
Fatal(c, failure) ==
  /\ process = "running"
  /\ pc[c] = "token"
  /\ process' = "exited"
  /\ exchange' = [exchange EXCEPT ![c] = failure]
  /\ UNCHANGED <<configuration, credentials, pc, response, result>>

\* The refresh token has been revoked, and is answered with a 401.
GetTokenRefused(c) == credentials = "revoked" /\ Fatal(c, "refused")

GetTokenFails(c) == Fatal(c, "failed")

\* The request cannot be dumped, or http.Client.Do gives no response.
RequestFails(c) ==
  /\ Step(c, "request", "done")
  /\ result' = [result EXCEPT ![c] = "request"]
  /\ UNCHANGED <<configuration, process, credentials, exchange, response>>

\* The API refuses revoked credentials; an access token got before is as good
\* as revoked.
Respond(c) ==
  /\ Step(c, "request", "responded")
  /\ \E r \in Responses :
       /\ credentials = "revoked" => r.status = 401
       /\ response' = [response EXCEPT ![c] = r]
  /\ UNCHANGED <<configuration, process, credentials, exchange, result>>

Return(c) ==
  /\ Step(c, "responded", "done")
  /\ result' = [result EXCEPT ![c] = Returned(operation[c], response[c])]
  /\ UNCHANGED <<configuration, process, credentials, exchange, response>>

Revoke ==
  /\ credentials = "valid"
  /\ credentials' = "revoked"
  /\ UNCHANGED <<configuration, process, exchange, pc, response, result>>

Call(c) ==
  \/ CreateRequest(c) \/ CreateRequestFails(c)
  \/ GetToken(c) \/ GetTokenRefused(c) \/ GetTokenFails(c)
  \/ RequestFails(c) \/ Respond(c) \/ Return(c)

Next == Revoke \/ \E c \in Calls : Call(c)

Spec == Init /\ [][Next]_vars

\* Every goroutine runs, and every request is answered or times out after the
\* 60 seconds of the client (pivnet.go:65).  The fetch of an access token goes
\* over a client without a timeout (uaa.go:24) and may never end.
FairSpec == Spec /\ \A c \in Calls : WF_vars(pc[c] # "token" /\ Call(c))

-----------------------------------------------------------------------------

Done(c, op) == pc[c] = "done" /\ operation[c] = op

\* "Check returns: true,nil if the auth attempt was succesful, false,nil if
\* the auth attempt failed for 401 or 403, false,err if the auth attempt failed
\* for any other reason" (auth.go:18-21), whatever the body and whatever other
\* calls do: an unreadable refusal is a refusal too.
CheckContract ==
  \A c \in Calls : Done(c, "check") =>
    /\ result[c] = "true" <=> response[c].status = 200
    /\ result[c] = "false" <=> response[c].status \in {401, 403}

\* The API limits the rate, and the body of its answer can be read.
RateLimited(c) == response[c].status = 429 /\ response[c].body # "broken"

\* A rate limit is recognised as one even if its body is no JSON, as in
\* pivnet_test.go:241, and Create tells its caller so in its own words
\* (product_files.go:222-224); and nothing else is taken for one, no other
\* refusal and no rate limit whose body breaks off (pivnet.go:199-202), so that
\* a caller that waits and tries again does so for a reason.  FetchUAAToken has
\* one error for all statuses (auth.go:68-70).
RateLimitIsRecognised ==
  \A c \in Calls : pc[c] = "done" =>
    /\ result[c] = "tooMany" <=> operation[c] \in {"list", "delete", "check"} /\ RateLimited(c)
    /\ result[c] = "creationLimit" <=> operation[c] = "create" /\ RateLimited(c)

\* A service call without error was answered with the one status it expects
\* (pivnet.go:181-183), and with a body it could decode if it decodes one: no
\* other status of success will do.
NilMeansExpectedResponse ==
  \A c \in Calls :
    (result[c] = "nil" /\ operation[c] # "fetchToken") =>
      /\ response[c].status = Expected(operation[c])
      /\ operation[c] # "delete" => response[c].body = "json"

\* With a legacy token, which has 20 characters (pivnet.go:135-136), no call
\* can take the program down or hang: every call returns.
LegacyCallsReturn ==
  tokenLength <= 20 => \A c \in Calls : <>(pc[c] = "done")

\* The credentials of call c were revoked, and its exchange refused for that.
Refused(c) == credentials = "revoked" /\ exchange[c] = "refused"

\* "false,nil if the auth attempt failed for 401 or 403" (auth.go:20): a Check
\* whose revoked refresh token is refused comes back, the program does not end
\* under it.
CheckComesBack ==
  \A c \in Calls : (operation[c] = "check" /\ Refused(c)) => process = "running"

=============================================================================
