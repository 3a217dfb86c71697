----------------------------- MODULE UserGroups -----------------------------
(***************************************************************************)
(* The user groups service (user_groups.go): what its methods send for the *)
(* arguments they are given, what they expect back, and what becomes of    *)
(* the groups on the server when several clients call them concurrently,   *)
(* update groups from copies they have read earlier, and lose responses.   *)
(* The server is external: it does what a request asks if it can, or       *)
(* refuses, or fails before or after doing it.                             *)
(***************************************************************************)
EXTENDS Exchange

CONSTANTS
  Groups,    \* the identities the server may issue; it issues none twice
  Members,   \* e-mail addresses
  Releases,
  Texts,     \* what a group says of itself: its name and its description, which
             \* all methods treat alike, are one text here
  Empty,     \* the empty one
  Nil        \* the nil slice, null in JSON

\* Nothing also stands for a field that a body does not have.
ASSUME TextsAssumption == Empty \in Texts /\ Nothing \notin Texts
ASSUME SlicesAssumption ==
  /\ Nothing # Nil
  /\ \A S \in SUBSET Members : S \notin {Nothing, Nil}

VARIABLES
  life,      \* whether each group is unborn, alive or deleted
  groups,    \* its text and members on the server
  attached,  \* the releases it is attached to
  copy       \* the UserGroup each client was given last

serverVars == <<life, groups, attached>>
vars == <<life, groups, attached, copy, exchangeVars>>

Group == [text : Texts, members : SUBSET Members]
UserGroup == [id : Groups, text : Texts, members : SUBSET Members]

Operations ==
  {"get", "create", "update", "delete", "addMember", "removeMember",
   "addToRelease", "removeFromRelease"}

\* What the caller asks for: members and releases that are to be there at
\* first, to be added or to be removed.
Arguments ==
  [op : Operations, group : Groups \cup {Nothing}, members : SUBSET Members,
   releases : SUBSET Releases]

\* What the request says in its URL and its body.
Bodies ==
  [group : Groups \cup {Nothing}, text : Texts \cup {Nothing},
   members : (SUBSET Members) \cup {Nothing}, releases : SUBSET Releases]

Requests == [id : Clients \X Nat, args : Arguments, body : Bodies]

Answers ==
  [status : {200, 201, 204, 404}, applied : BOOLEAN, readable : BOOLEAN,
   userGroup : UserGroup \cup {Nothing}]

TypeOK ==
  /\ made \in [Clients -> 0 .. MaxCalls]
  /\ phase \in [Clients -> {"idle", "sent", "answered"}]
  /\ request \in [Clients -> Requests \cup {Nothing}]
  /\ answer \in [Clients -> Answers \cup {Nothing}]
  /\ late \subseteq Requests
  /\ outcome \in [Clients -> {"none", "nil", "error"}]
  /\ life \in [Groups -> {"unborn", "alive", "deleted"}]
  /\ groups \in [Groups -> Group]
  /\ attached \in [Groups -> SUBSET Releases]
  /\ copy \in [Clients -> UserGroup \cup {Nothing}]

NoGroup == [text |-> Empty, members |-> {}]

Init ==
  /\ ExchangeInit
  /\ life = [g \in Groups |-> "unborn"]
  /\ groups = [g \in Groups |-> NoGroup]
  /\ attached = [g \in Groups |-> {}]
  /\ copy = [c \in Clients |-> Nothing]

-----------------------------------------------------------------------------
(* What the methods send *)

Asked(op, g) == [op |-> op, group |-> g, members |-> {}, releases |-> {}]

NoFields(g) ==
  [group |-> g, text |-> Nothing, members |-> Nothing, releases |-> {}]

\* Mutant: a text without omitempty.
OmitEmpty_Never(t) == t

OmitEmpty(t) == IF t = Empty THEN Nothing ELSE t

\* Mutant: the nil slice goes out as null.
NonNil_AsIs(slice) == slice

NonNil(slice) == IF slice = Nil THEN {} ELSE slice

CreateBody(text, slice) ==
  [NoFields(Nothing) EXCEPT !.text = OmitEmpty(text), !.members = NonNil(slice)]

\* Mutant: the whole copy is sent back, its members unless there are none.
UpdateBody_Whole(u) ==
  [NoFields(u.id) EXCEPT !.text = OmitEmpty(u.text),
     !.members = IF u.members = {} THEN Nothing ELSE u.members]

UpdateBody(u) == [NoFields(u.id) EXCEPT !.text = OmitEmpty(u.text)]

Get(c) ==
  \E g \in Groups : Send(c, Asked("get", g), NoFields(g))

Create(c) ==
  \E text \in Texts, slice \in (SUBSET Members) \cup {Nil} :
    Send(c, [Asked("create", Nothing) EXCEPT !.members = IF slice = Nil THEN {} ELSE slice],
         CreateBody(text, slice))

\* The caller's UserGroup is the last one the client was given, with a text of
\* the caller's, or one that has only an ID and a text.
Update(c) ==
  \E text \in Texts, g \in Groups, them \in SUBSET Members :
    /\ them # {} => copy[c] # Nothing /\ g = copy[c].id /\ them = copy[c].members
    /\ Send(c, Asked("update", g), UpdateBody([id |-> g, text |-> text, members |-> them]))

Delete(c) ==
  \E g \in Groups : Send(c, Asked("delete", g), NoFields(g))

AddMemberToGroup(c) ==
  \E g \in Groups, m \in Members :
    Send(c, [Asked("addMember", g) EXCEPT !.members = {m}],
         [NoFields(g) EXCEPT !.members = {m}])

RemoveMemberFromGroup(c) ==
  \E g \in Groups, m \in Members :
    Send(c, [Asked("removeMember", g) EXCEPT !.members = {m}],
         [NoFields(g) EXCEPT !.members = {m}])

AddToRelease(c) ==
  \E g \in Groups, r \in Releases :
    Send(c, [Asked("addToRelease", g) EXCEPT !.releases = {r}],
         [NoFields(g) EXCEPT !.releases = {r}])

RemoveFromRelease(c) ==
  \E g \in Groups, r \in Releases :
    Send(c, [Asked("removeFromRelease", g) EXCEPT !.releases = {r}],
         [NoFields(g) EXCEPT !.releases = {r}])

Call(c) ==
  /\ \/ Get(c) \/ Create(c) \/ Update(c) \/ Delete(c)
     \/ AddMemberToGroup(c) \/ RemoveMemberFromGroup(c)
     \/ AddToRelease(c) \/ RemoveFromRelease(c)
  /\ UNCHANGED <<serverVars, copy>>

-----------------------------------------------------------------------------
(* The server *)

Field(value, old) == IF value = Nothing THEN old ELSE value

SetGroup(g, text, members) ==
  /\ groups' = [groups EXCEPT ![g] = [text |-> text, members |-> members]]
  /\ UNCHANGED <<life, attached>>

SetAttached(g, those) ==
  /\ attached' = [attached EXCEPT ![g] = those]
  /\ UNCHANGED <<life, groups>>

CreateGroup(g, body) ==
  /\ life[g] = "unborn"
  /\ life' = [life EXCEPT ![g] = "alive"]
  /\ groups' = [groups EXCEPT ![g] =
       [text |-> Field(body.text, Empty), members |-> Field(body.members, {})]]
  /\ UNCHANGED attached

DeleteGroup(g) ==
  /\ life' = [life EXCEPT ![g] = "deleted"]
  /\ groups' = [groups EXCEPT ![g] = NoGroup]
  /\ attached' = [attached EXCEPT ![g] = {}]

\* Doing what a request asks, to the group g.
Do(op, body, g) ==
  \/ op = "create" /\ CreateGroup(g, body)
  \/ /\ op # "create"
     /\ life[g] = "alive" /\ g = body.group
     /\ \/ op = "get" /\ UNCHANGED serverVars
        \/ op = "update" /\ SetGroup(g, Field(body.text, groups[g].text),
                                       Field(body.members, groups[g].members))
        \/ op = "delete" /\ DeleteGroup(g)
        \/ op = "addMember" /\ SetGroup(g, groups[g].text, groups[g].members \cup body.members)
        \/ op = "removeMember" /\ SetGroup(g, groups[g].text, groups[g].members \ body.members)
        \/ op = "addToRelease" /\ SetAttached(g, attached[g] \cup body.releases)
        \/ op = "removeFromRelease" /\ SetAttached(g, attached[g] \ body.releases)

-----------------------------------------------------------------------------
(* What the methods make of the answer *)

Expected(op) ==
  CASE op = "create" -> 201
    [] op \in {"get", "update", "addMember", "removeMember"} -> 200
    [] op \in {"delete", "addToRelease", "removeFromRelease"} -> 204

Decodes(op) == op \in {"get", "create", "update", "addMember", "removeMember"}

\* The server does it and answers so, perhaps with a body that cannot be decoded.
\* A failure of its own after it has done it is to the client like no answer.
Process(c) ==
  /\ phase[c] = "sent"
  /\ \E g \in Groups :
       /\ Do(request[c].args.op, request[c].body, g)
       /\ \E readable \in {TRUE, ~Decodes(request[c].args.op)} :
            Answer(c, [status |-> Expected(request[c].args.op), applied |-> TRUE,
              readable |-> readable, userGroup |-> [id |-> g, text |-> groups'[g].text, members |-> groups'[g].members]])
  /\ UNCHANGED copy

Refuse(c) ==
  /\ Answer(c, [status |-> 404, applied |-> FALSE, readable |-> TRUE, userGroup |-> Nothing])
  /\ UNCHANGED <<serverVars, copy>>

ProcessLate ==
  /\ \E q \in late :
       /\ \E g \in Groups : Do(q.args.op, q.body, g)
       /\ late' = late \ {q}
  /\ UNCHANGED <<copy, made, phase, request, answer, outcome>>

ReturnFrom(c) ==
  /\ phase[c] = "answered"
  /\ LET op == request[c].args.op IN
     /\ Return(c, Expected(op), Decodes(op))
     /\ copy' = IF Decodes(op) /\ Accepted(answer[c], Expected(op), TRUE)
                THEN [copy EXCEPT ![c] = answer[c].userGroup]
                ELSE copy
  /\ UNCHANGED serverVars

Fail(c) == GiveUp(c) /\ UNCHANGED <<serverVars, copy>>

Next ==
  \/ \E c \in Clients : Call(c) \/ Process(c) \/ Refuse(c) \/ ReturnFrom(c) \/ Fail(c)
  \/ ProcessLate

Spec == Init /\ [][Next]_vars

-----------------------------------------------------------------------------

\* No Update ever takes the name or the description from a group that has one,
\* whichever of them its caller left empty and whenever it arrives: empty ones
\* are not sent (user_groups.go:54-55).
TextsAreNeverBlanked ==
  [][\A g \in Groups : life'[g] # "deleted" =>
       (groups[g].text # Empty => groups'[g].text # Empty)]_vars

\* Whether what a client is asking for has happened.
Stage(c) ==
  CASE phase[c] = "idle" -> "idle"
    [] phase[c] = "sent" -> "asking"
    [] phase[c] = "answered" /\ answer[c].applied -> "happened"
    [] phase[c] = "answered" /\ ~answer[c].applied -> "asking"

A ==
  INSTANCE Access WITH
    members <- [g \in Groups |-> groups[g].members],
    releases <- attached,
    call <- request,
    stage <- [c \in Clients |-> Stage(c)]

\* Who sees what is decided by the calls that are made for it: each takes effect
\* at most once, has done so when it returns nil (the check of the status,
\* pivnet.go:181), and updates from stale copies have no part in it, as they do
\* not send members (user_groups.go:252-257).
GrantsAccess == A!Spec

=============================================================================
