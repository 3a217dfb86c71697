------------------------------ MODULE Download ------------------------------
(***************************************************************************)
(* What download.Client.Get promises its caller, with no ranges, no        *)
(* goroutines and no retries: the bytes of the remote file arrive at their *)
(* places in the output file in any order, a byte that has arrived is      *)
(* never lost again, and Get reports success only when it has them all and *)
(* nobody will touch the file any more.  An error promises nothing about   *)
(* the file, which may even still be written to afterwards.                *)
(***************************************************************************)
EXTENDS Integers

CONSTANT RemoteSize  \* the length of the remote file in bytes

VARIABLES have,     \* the positions that hold their byte of the remote file
          outcome   \* "pending", or what became of the call

vars == <<have, outcome>>

RemoteBytes == 0 .. RemoteSize - 1

TypeOK ==
  /\ have \subseteq RemoteBytes
  /\ outcome \in {"pending", "ok", "err", "crashed"}

Init ==
  /\ have = {}
  /\ outcome = "pending"

Receive ==
  /\ outcome \in {"pending", "err"}
  /\ have' \in {have \cup S : S \in SUBSET RemoteBytes}
  /\ UNCHANGED outcome

Succeed ==
  /\ outcome = "pending"
  /\ have = RemoteBytes
  /\ outcome' = "ok"
  /\ UNCHANGED have

Fail ==
  /\ outcome = "pending"
  /\ outcome' = "err"
  /\ UNCHANGED have

\* The process may die under the call, and also after it has failed.
Crash ==
  /\ outcome \in {"pending", "err"}
  /\ outcome' = "crashed"
  /\ UNCHANGED have

Next == Receive \/ Succeed \/ Fail \/ Crash

Spec == Init /\ [][Next]_vars

=============================================================================
