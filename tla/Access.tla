------------------------------- MODULE Access -------------------------------
(***************************************************************************)
(* What the user groups service promises about who has access to what: a   *)
(* call means one change of the memberships or of the groups' releases, or *)
(* none, as its name says.  The change happens at most once, as one step.  *)
(* If the call returns nil it has happened by then; if the call returns an *)
(* error it may have happened, may still happen, or may never.             *)
(***************************************************************************)
EXTENDS Naturals

CONSTANTS Clients, Groups

VARIABLES
  life,      \* "unborn", "alive" or "deleted" for each group
  members,   \* of each group
  releases,  \* the releases each group is attached to
  call,      \* what each client is asking for, in the field args
  stage,     \* "idle", or whether it has happened yet
  late,      \* calls that returned an error before anything happened
  outcome    \* how each client's last call ended

vars == <<life, members, releases, call, stage, late, outcome>>

Init ==
  /\ life = [g \in Groups |-> "unborn"]
  /\ members = [g \in Groups |-> {}]
  /\ releases = [g \in Groups |-> {}]
  /\ stage = [c \in Clients |-> "idle"]
  /\ late = {}
  /\ outcome = [c \in Clients |-> "none"]

Create(g, them) ==
  /\ life[g] = "unborn"
  /\ life' = [life EXCEPT ![g] = "alive"]
  /\ members' = [members EXCEPT ![g] = them]
  /\ UNCHANGED releases

Delete(g) ==
  /\ life' = [life EXCEPT ![g] = "deleted"]
  /\ members' = [members EXCEPT ![g] = {}]
  /\ releases' = [releases EXCEPT ![g] = {}]

SetMembers(g, them) ==
  /\ members' = [members EXCEPT ![g] = them]
  /\ UNCHANGED <<life, releases>>

SetReleases(g, those) ==
  /\ releases' = [releases EXCEPT ![g] = those]
  /\ UNCHANGED <<life, members>>

\* What a call with the arguments a means, for which its group must exist.
Meaning(a) ==
  \E g \in Groups :
    \/ a.op = "create" /\ Create(g, a.members)
    \/ /\ g = a.group
       /\ life[g] = "alive"
       /\ \/ a.op = "delete" /\ Delete(g)
          \/ a.op = "addMember" /\ SetMembers(g, members[g] \cup a.members)
          \/ a.op = "removeMember" /\ SetMembers(g, members[g] \ a.members)
          \/ a.op = "addToRelease" /\ SetReleases(g, releases[g] \cup a.releases)
          \/ a.op = "removeFromRelease" /\ SetReleases(g, releases[g] \ a.releases)
          \/ a.op \in {"get", "update"} /\ UNCHANGED <<life, members, releases>>

Ask(c) ==
  /\ stage[c] = "idle"
  /\ stage' = [stage EXCEPT ![c] = "asking"]
  /\ call' = [call EXCEPT ![c] = call'[c]]
  /\ outcome' = [outcome EXCEPT ![c] = "none"]
  /\ UNCHANGED <<life, members, releases, late>>

Happen(c) ==
  /\ stage[c] = "asking"
  /\ Meaning(call[c].args)
  /\ stage' = [stage EXCEPT ![c] = "happened"]
  /\ UNCHANGED <<call, late, outcome>>

HappenLate ==
  /\ \E q \in late : Meaning(q.args) /\ late' = late \ {q}
  /\ UNCHANGED <<call, stage, outcome>>

End(c, o) ==
  /\ stage' = [stage EXCEPT ![c] = "idle"]
  /\ call' = [call EXCEPT ![c] = call'[c]]
  /\ outcome' = [outcome EXCEPT ![c] = o]
  /\ UNCHANGED <<life, members, releases>>

Succeed(c) ==
  /\ stage[c] = "happened"
  /\ End(c, "nil")
  /\ UNCHANGED late

\* Only what has not happened may happen later.
Fail(c) ==
  /\ stage[c] # "idle"
  /\ late' = late \/ (stage[c] = "asking" /\ late' = late \cup {call[c]})
  /\ End(c, "error")

Next ==
  \/ \E c \in Clients : Ask(c) \/ Happen(c) \/ Succeed(c) \/ Fail(c)
  \/ HappenLate

Spec == Init /\ [][Next]_vars

=============================================================================
