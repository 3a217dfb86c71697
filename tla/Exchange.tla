------------------------------ MODULE Exchange ------------------------------
(***************************************************************************)
(* How the methods of the services talk to the API (Client.MakeRequest in  *)
(* pivnet.go as they use it): a client process makes one call after the    *)
(* other, every call sends one request and never a second one, and ends    *)
(* with the answer's verdict or without an answer, after an error of the   *)
(* network or the 60 seconds of http.Client.Timeout.  A request whose      *)
(* caller has given up may be lost or may still be on its way: nothing     *)
(* stops the server from processing it later.                              *)
(***************************************************************************)
EXTENDS Naturals

CONSTANTS
  Clients,   \* processes that use the library
  MaxCalls,  \* bound on the calls of each of them
  Nothing    \* no request, no answer, and in other modules no object

ASSUME MaxCallsAssumption == MaxCalls \in Nat

VARIABLES
  made,     \* how many calls each client has made
  phase,    \* whether its current call is on its way or answered
  request,  \* the request of the current call
  answer,   \* the server's answer to it
  late,     \* requests whose callers have given up
  outcome   \* how each client's last call ended

exchangeVars == <<made, phase, request, answer, late, outcome>>

ExchangeInit ==
  /\ made = [c \in Clients |-> 0]
  /\ phase = [c \in Clients |-> "idle"]
  /\ request = [c \in Clients |-> Nothing]
  /\ answer = [c \in Clients |-> Nothing]
  /\ late = {}
  /\ outcome = [c \in Clients |-> "none"]

\* A client makes a call and does nothing else until it has ended.
Begin(c, to, o) ==
  /\ phase[c] = "idle"
  /\ made[c] < MaxCalls
  /\ made' = [made EXCEPT ![c] = @ + 1]
  /\ phase' = [phase EXCEPT ![c] = to]
  /\ outcome' = [outcome EXCEPT ![c] = o]
  /\ UNCHANGED <<answer, late>>

\* The call with the arguments args sends the given body.  The identity of the
\* call tells apart requests that say the same.
Send(c, args, body) ==
  /\ Begin(c, "sent", "none")
  /\ request' = [request EXCEPT ![c] =
       [id |-> <<c, made[c]>>, args |-> args, body |-> body]]

\* The server sends its answer to the current call of c.
Answer(c, a) ==
  /\ phase[c] = "sent"
  /\ phase' = [phase EXCEPT ![c] = "answered"]
  /\ answer' = [answer EXCEPT ![c] = a]
  /\ UNCHANGED <<made, request, late, outcome>>

End(c, o) ==
  /\ phase' = [phase EXCEPT ![c] = "idle"]
  /\ request' = [request EXCEPT ![c] = Nothing]
  /\ answer' = [answer EXCEPT ![c] = Nothing]
  /\ outcome' = [outcome EXCEPT ![c] = o]
  /\ UNCHANGED made

\* http.Client.Do gives no response.
GiveUp(c) ==
  /\ phase[c] # "idle"
  /\ late' = IF phase[c] = "sent" THEN late \cup {request[c]} ELSE late
  /\ End(c, "error")

\* Mutant: the status is not compared with the expected one.
Accepted_Always(a, expected, decodes) == decodes => a.readable

\* The status is the expected one, and the body can be decoded if the method
\* decodes it.
Accepted(a, expected, decodes) ==
  /\ a.status = expected
  /\ decodes => a.readable

\* Mutant: a call that does not succeed is made once more.
Return_Retry(c, expected, decodes) ==
  /\ phase[c] = "answered"
  /\ IF Accepted(answer[c], expected, decodes)
     THEN End(c, "nil")
     ELSE /\ phase' = [phase EXCEPT ![c] = "sent"]
          /\ answer' = [answer EXCEPT ![c] = Nothing]
          /\ UNCHANGED <<made, request, outcome>>
  /\ UNCHANGED late

Return(c, expected, decodes) ==
  /\ phase[c] = "answered"
  /\ End(c, IF Accepted(answer[c], expected, decodes) THEN "nil" ELSE "error")
  /\ UNCHANGED late

=============================================================================
