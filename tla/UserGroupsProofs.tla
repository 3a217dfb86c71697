-------------------------- MODULE UserGroupsProofs --------------------------
(***************************************************************************)
(* UserGroups keeps its types, never blanks a text and implements Access,  *)
(* for any number of clients, groups, members and calls.                   *)
(***************************************************************************)
EXTENDS UserGroups, TLAPS

\* What a request says is what its caller asked for; an update says nothing of
\* the members.
Faithful(q) ==
  /\ q.args.op = "create" => q.body.members = q.args.members
  /\ q.args.op # "create" => q.body.group = q.args.group
  /\ q.args.op \in {"addMember", "removeMember"} => q.body.members = q.args.members
  /\ q.args.op = "update" => q.body.members = Nothing
  /\ q.body.text # Empty
  /\ q.body.releases = q.args.releases

Sound(q) == q \in Requests /\ Faithful(q)

\* A refusal is not taken for a success.
Honest(a, op) == a \in Answers /\ (a.status = Expected(op) => a.applied)

\* TypeOK says too little of the requests and answers of calls that are underway.
IInv ==
  /\ TypeOK
  /\ \A c \in Clients : phase[c] # "idle" => Sound(request[c])
  /\ \A c \in Clients : phase[c] = "answered" => Honest(answer[c], request[c].args.op)
  /\ \A q \in late : Sound(q)
  /\ \A g \in Groups : life[g] = "unborn" => groups[g].text = Empty

-----------------------------------------------------------------------------
(* The server *)

\* Doing what a request asks keeps the types of the server.
LEMMA DoKeepsTypes ==
  ASSUME NEW q, Sound(q), NEW g \in Groups, TypeOK, Do(q.args.op, q.body, g)
  PROVE  /\ life' \in [Groups -> {"unborn", "alive", "deleted"}]
         /\ groups' \in [Groups -> Group]
         /\ attached' \in [Groups -> SUBSET Releases]
<1> DEFINE op == q.args.op
           body == q.body
<1>1. /\ op \in Operations
      /\ body.text \in Texts \cup {Nothing}
      /\ body.members \in (SUBSET Members) \cup {Nothing}
      /\ body.releases \in SUBSET Releases
      /\ op \in {"create", "addMember", "removeMember"} => body.members \in SUBSET Members
  BY DEF Sound, Requests, Arguments, Bodies, Faithful
<1>2. groups[g].text \in Texts /\ groups[g].members \in SUBSET Members
  BY DEF TypeOK, Group
<1>3. ASSUME NEW text \in Texts, NEW them \in SUBSET Members, SetGroup(g, text, them)
      PROVE  /\ life' = life /\ attached' = attached
             /\ groups' \in [Groups -> Group]
  BY <1>3 DEF SetGroup, TypeOK, Group
<1>4. ASSUME NEW those \in SUBSET Releases, SetAttached(g, those)
      PROVE  /\ life' = life /\ groups' = groups
             /\ attached' \in [Groups -> SUBSET Releases]
  BY <1>4 DEF SetAttached, TypeOK
<1>5. CASE op = "create"
  <2>1. Field(body.text, Empty) \in Texts /\ Field(body.members, {}) \in SUBSET Members
    BY <1>1, TextsAssumption DEF Field
  <2>2. [text |-> Field(body.text, Empty), members |-> Field(body.members, {})] \in Group
    BY <2>1 DEF Group
  <2> QED
    BY <1>5, <2>2 DEF Do, CreateGroup, TypeOK
<1>6. CASE op = "delete"
  <2>1. NoGroup \in Group
    BY TextsAssumption DEF NoGroup, Group
  <2> QED
    BY <1>6, <2>1 DEF Do, DeleteGroup, TypeOK
<1>7. CASE op = "update"
  <2>1. /\ Field(body.text, groups[g].text) \in Texts
        /\ Field(body.members, groups[g].members) \in SUBSET Members
    BY <1>1, <1>2 DEF Field
  <2> QED
    BY <1>3, <1>7, <2>1 DEF Do, TypeOK
<1>8. CASE op \in {"addMember", "removeMember"}
  BY <1>1, <1>2, <1>3, <1>8 DEF Do, TypeOK
<1>9. CASE op \in {"addToRelease", "removeFromRelease"}
  BY <1>1, <1>4, <1>9 DEF Do, TypeOK
<1>10. CASE op = "get"
  BY <1>10 DEF Do, serverVars, TypeOK
<1> QED
  BY <1>1, <1>5, <1>6, <1>7, <1>8, <1>9, <1>10 DEF Operations

\* Doing what a request asks is what its caller meant.
LEMMA DoIsMeant ==
  ASSUME NEW q, Sound(q), NEW g \in Groups, TypeOK, Do(q.args.op, q.body, g)
  PROVE  A!Meaning(q.args)
<1> DEFINE op == q.args.op
           body == q.body
           members == [h \in Groups |-> groups[h].members]
<1>1. /\ op \in Operations
      /\ groups \in [Groups -> Group]
      /\ q.args.members \in SUBSET Members
      /\ Faithful(q)
  BY DEF Sound, Requests, Arguments, TypeOK
<1>2. ASSUME NEW those, SetAttached(g, those)
      PROVE  A!SetReleases(g, those)
  BY <1>2 DEF SetAttached, A!SetReleases
<1>3. CASE op = "create"
  <2>1. Field(body.members, {}) = q.args.members
    BY <1>1, <1>3, SlicesAssumption DEF Field, Faithful
  <2>2. /\ life[g] = "unborn"
        /\ life' = [life EXCEPT ![g] = "alive"]
        /\ groups' = [groups EXCEPT ![g] =
             [text |-> Field(body.text, Empty), members |-> q.args.members]]
        /\ attached' = attached
    BY <1>3, <2>1 DEF Do, CreateGroup
  <2>3. A!Create(g, q.args.members)
    BY <1>1, <2>2 DEF A!Create
  <2> QED
    BY <1>3, <2>3 DEF A!Meaning
<1>4. CASE op # "create"
  <2>1. g = q.args.group /\ life[g] = "alive"
    BY <1>1, <1>4 DEF Do, Faithful
  <2>2. CASE op = "delete"
    <3>1. DeleteGroup(g) /\ NoGroup.members = {}
      BY <2>2 DEF Do, NoGroup
    <3>2. A!Delete(g)
      BY <1>1, <3>1 DEF DeleteGroup, A!Delete
    <3> QED
      BY <2>1, <2>2, <3>2 DEF A!Meaning
  <2>3. CASE op = "get"
    BY <2>1, <2>3 DEF Do, serverVars, A!Meaning
  <2>4. CASE op = "update"
    <3>1. SetGroup(g, Field(body.text, groups[g].text), groups[g].members)
      BY <1>1, <2>4 DEF Do, Faithful, Field
    <3>2. UNCHANGED <<life, attached, [h \in Groups |-> groups[h].members]>>
      BY <1>1, <3>1 DEF SetGroup
    <3> QED
      BY <2>1, <2>4, <3>2 DEF A!Meaning
  <2>5. CASE op = "addMember"
    <3>1. SetGroup(g, groups[g].text, groups[g].members \cup q.args.members)
      BY <1>1, <2>5 DEF Do, Faithful
    <3>2. members' = [members EXCEPT ![g] = members[g] \cup q.args.members]
      BY <1>1, <3>1 DEF SetGroup
    <3> QED
      BY <2>1, <2>5, <3>1, <3>2 DEF A!Meaning, A!SetMembers, SetGroup
  <2>6. CASE op = "removeMember"
    <3>1. SetGroup(g, groups[g].text, groups[g].members \ q.args.members)
      BY <1>1, <2>6 DEF Do, Faithful
    <3>2. members' = [members EXCEPT ![g] = members[g] \ q.args.members]
      BY <1>1, <3>1 DEF SetGroup
    <3> QED
      BY <2>1, <2>6, <3>1, <3>2 DEF A!Meaning, A!SetMembers, SetGroup
  <2>7. CASE op = "addToRelease"
    <3>1. A!SetReleases(g, attached[g] \cup q.args.releases)
      BY <1>1, <1>2, <2>7 DEF Do, Faithful
    <3> QED
      BY <2>1, <2>7, <3>1 DEF A!Meaning
  <2>8. CASE op = "removeFromRelease"
    <3>1. A!SetReleases(g, attached[g] \ q.args.releases)
      BY <1>1, <1>2, <2>8 DEF Do, Faithful
    <3> QED
      BY <2>1, <2>8, <3>1 DEF A!Meaning
  <2> QED
    BY <1>1, <1>4, <2>2, <2>3, <2>4, <2>5, <2>6, <2>7, <2>8 DEF Operations
<1> QED
  BY <1>3, <1>4

\* What has not been born has no text yet, and no text is blanked.
LEMMA DoKeepsTexts ==
  ASSUME NEW q, Sound(q), NEW g \in Groups, IInv, Do(q.args.op, q.body, g)
  PROVE  /\ \A h \in Groups : life'[h] = "unborn" => groups'[h].text = Empty
         /\ \A h \in Groups : life'[h] # "deleted" =>
              (groups[h].text # Empty => groups'[h].text # Empty)
<1> DEFINE op == q.args.op
           body == q.body
<1>1. /\ op \in Operations
      /\ body.text # Empty
      /\ life \in [Groups -> {"unborn", "alive", "deleted"}]
      /\ groups \in [Groups -> Group]
      /\ \A h \in Groups : life[h] = "unborn" => groups[h].text = Empty
  BY DEF Sound, Requests, Arguments, Faithful, IInv, TypeOK
<1>2. CASE op = "create"
  BY <1>1, <1>2 DEF Do, CreateGroup
<1>3. CASE op = "delete"
  BY <1>1, <1>3 DEF Do, DeleteGroup
<1>4. CASE op = "update"
  <2>1. Field(body.text, groups[g].text) # Empty \/ Field(body.text, groups[g].text) = groups[g].text
    BY <1>1 DEF Field
  <2> QED
    BY <1>1, <1>4, <2>1 DEF Do, SetGroup
<1>5. CASE op \in {"addMember", "removeMember"}
  BY <1>1, <1>5 DEF Do, SetGroup
<1>6. CASE op \in {"addToRelease", "removeFromRelease", "get"}
  BY <1>1, <1>6 DEF Do, SetAttached, serverVars
<1> QED
  BY <1>1, <1>2, <1>3, <1>4, <1>5, <1>6 DEF Operations

-----------------------------------------------------------------------------
(* The methods *)

\* Every method sends what its caller asked for.
LEMMA CallIsFaithful ==
  ASSUME NEW c \in Clients, TypeOK, Call(c)
  PROVE  \E q : Sound(q) /\ Send(c, q.args, q.body)
<1>1. ASSUME NEW args \in Arguments, NEW body \in Bodies, Send(c, args, body),
             Faithful([id |-> <<c, made[c]>>, args |-> args, body |-> body])
      PROVE  \E q : Sound(q) /\ Send(c, q.args, q.body)
  <2> DEFINE q == [id |-> <<c, made[c]>>, args |-> args, body |-> body]
  <2>1. q \in Requests
    BY MaxCallsAssumption DEF TypeOK, Requests
  <2>2. q.args = args /\ q.body = body
    OBVIOUS
  <2> QED
    BY <1>1, <2>1, <2>2 DEF Sound
<1>2. \A t \in Texts : OmitEmpty(t) \in Texts \cup {Nothing} /\ OmitEmpty(t) # Empty
  BY TextsAssumption DEF OmitEmpty
<1>3. Nothing # Empty
  BY TextsAssumption
<1>4. CASE Get(c)
  <2>1. PICK g \in Groups : Send(c, Asked("get", g), NoFields(g))
    BY <1>4 DEF Get
  <2>2. Asked("get", g) \in Arguments /\ NoFields(g) \in Bodies
    BY DEF Asked, NoFields, Arguments, Bodies, Operations
  <2> QED
    BY <1>1, <1>3, <2>1, <2>2 DEF Faithful, Asked, NoFields
<1>5. CASE Delete(c)
  <2>1. PICK g \in Groups : Send(c, Asked("delete", g), NoFields(g))
    BY <1>5 DEF Delete
  <2>2. Asked("delete", g) \in Arguments /\ NoFields(g) \in Bodies
    BY DEF Asked, NoFields, Arguments, Bodies, Operations
  <2> QED
    BY <1>1, <1>3, <2>1, <2>2 DEF Faithful, Asked, NoFields
<1>6. CASE Create(c)
  <2> DEFINE Given(slice) == IF slice = Nil THEN {} ELSE slice
             args(slice) == [Asked("create", Nothing) EXCEPT !.members = Given(slice)]
  <2>1. PICK text \in Texts, slice \in (SUBSET Members) \cup {Nil} :
          Send(c, args(slice), CreateBody(text, slice))
    BY <1>6 DEF Create
  <2>2. Given(slice) \in SUBSET Members /\ NonNil(slice) = Given(slice)
    BY DEF NonNil
  <2>3. args(slice) \in Arguments
    BY <2>2 DEF Asked, Arguments, Operations
  <2>4. CreateBody(text, slice) \in Bodies
    BY <1>2, <2>2 DEF CreateBody, NoFields, Bodies
  <2>5. Faithful([id |-> <<c, made[c]>>, args |-> args(slice), body |-> CreateBody(text, slice)])
    BY <1>2, <2>2 DEF Faithful, Asked, CreateBody, NoFields
  <2> QED
    BY <1>1, <2>1, <2>3, <2>4, <2>5
<1>7. CASE Update(c)
  <2>1. PICK text \in Texts, g \in Groups, them \in SUBSET Members :
          Send(c, Asked("update", g), UpdateBody([id |-> g, text |-> text, members |-> them]))
    BY <1>7 DEF Update
  <2>2. UpdateBody([id |-> g, text |-> text, members |-> them])
          = [group |-> g, text |-> OmitEmpty(text), members |-> Nothing, releases |-> {}]
    BY DEF UpdateBody, NoFields
  <2>3. Asked("update", g) \in Arguments
    BY DEF Asked, Arguments, Operations
  <2>4. UpdateBody([id |-> g, text |-> text, members |-> them]) \in Bodies
    BY <1>2, <2>2 DEF Bodies
  <2> QED
    BY <1>1, <1>2, <2>1, <2>2, <2>3, <2>4 DEF Faithful, Asked
<1>8. CASE AddMemberToGroup(c)
  <2> DEFINE args(g, x) == [Asked("addMember", g) EXCEPT !.members = {x}]
             body(g, x) == [NoFields(g) EXCEPT !.members = {x}]
  <2>1. PICK g \in Groups, x \in Members : Send(c, args(g, x), body(g, x))
    BY <1>8 DEF AddMemberToGroup
  <2>2. args(g, x) \in Arguments /\ body(g, x) \in Bodies
    BY DEF Asked, NoFields, Arguments, Bodies, Operations
  <2>3. Faithful([id |-> <<c, made[c]>>, args |-> args(g, x), body |-> body(g, x)])
    BY <1>3 DEF Faithful, Asked, NoFields
  <2> QED
    BY <1>1, <2>1, <2>2, <2>3
<1>9. CASE RemoveMemberFromGroup(c)
  <2> DEFINE args(g, x) == [Asked("removeMember", g) EXCEPT !.members = {x}]
             body(g, x) == [NoFields(g) EXCEPT !.members = {x}]
  <2>1. PICK g \in Groups, x \in Members : Send(c, args(g, x), body(g, x))
    BY <1>9 DEF RemoveMemberFromGroup
  <2>2. args(g, x) \in Arguments /\ body(g, x) \in Bodies
    BY DEF Asked, NoFields, Arguments, Bodies, Operations
  <2>3. Faithful([id |-> <<c, made[c]>>, args |-> args(g, x), body |-> body(g, x)])
    BY <1>3 DEF Faithful, Asked, NoFields
  <2> QED
    BY <1>1, <2>1, <2>2, <2>3
<1>10. CASE AddToRelease(c)
  <2> DEFINE args(g, x) == [Asked("addToRelease", g) EXCEPT !.releases = {x}]
             body(g, x) == [NoFields(g) EXCEPT !.releases = {x}]
  <2>1. PICK g \in Groups, x \in Releases : Send(c, args(g, x), body(g, x))
    BY <1>10 DEF AddToRelease
  <2>2. args(g, x) \in Arguments /\ body(g, x) \in Bodies
    BY DEF Asked, NoFields, Arguments, Bodies, Operations
  <2>3. Faithful([id |-> <<c, made[c]>>, args |-> args(g, x), body |-> body(g, x)])
    BY <1>3 DEF Faithful, Asked, NoFields
  <2> QED
    BY <1>1, <2>1, <2>2, <2>3
<1>11. CASE RemoveFromRelease(c)
  <2> DEFINE args(g, x) == [Asked("removeFromRelease", g) EXCEPT !.releases = {x}]
             body(g, x) == [NoFields(g) EXCEPT !.releases = {x}]
  <2>1. PICK g \in Groups, x \in Releases : Send(c, args(g, x), body(g, x))
    BY <1>11 DEF RemoveFromRelease
  <2>2. args(g, x) \in Arguments /\ body(g, x) \in Bodies
    BY DEF Asked, NoFields, Arguments, Bodies, Operations
  <2>3. Faithful([id |-> <<c, made[c]>>, args |-> args(g, x), body |-> body(g, x)])
    BY <1>3 DEF Faithful, Asked, NoFields
  <2> QED
    BY <1>1, <2>1, <2>2, <2>3
<1> QED
  BY <1>4, <1>5, <1>6, <1>7, <1>8, <1>9, <1>10, <1>11 DEF Call

-----------------------------------------------------------------------------
(* The inductive invariant *)

LEMMA InitIInv == Init => IInv
<1>1. Empty \in Texts /\ NoGroup \in Group
  BY TextsAssumption DEF NoGroup, Group
<1> QED
  BY <1>1, MaxCallsAssumption
     DEF Init, ExchangeInit, IInv, TypeOK, NoGroup

LEMMA CallKeepsIInv ==
  ASSUME IInv, NEW c \in Clients, Call(c)
  PROVE  IInv'
<1>1. PICK q : Sound(q) /\ Send(c, q.args, q.body)
  BY CallIsFaithful DEF IInv
<1> DEFINE p == [id |-> <<c, made[c]>>, args |-> q.args, body |-> q.body]
<1>2. /\ phase[c] = "idle" /\ made[c] < MaxCalls
      /\ made' = [made EXCEPT ![c] = made[c] + 1]
      /\ phase' = [phase EXCEPT ![c] = "sent"]
      /\ request' = [request EXCEPT ![c] = p]
      /\ outcome' = [outcome EXCEPT ![c] = "none"]
      /\ UNCHANGED <<answer, late, life, groups, attached, copy>>
  BY <1>1 DEF Call, Send, Begin, serverVars
<1>3. Sound(p)
  <2>1. p \in Requests
    BY <1>1, MaxCallsAssumption DEF Sound, Requests, IInv, TypeOK
  <2> QED
    BY <1>1, <2>1 DEF Sound, Faithful
<1>4. made[c] + 1 \in 0 .. MaxCalls
  BY <1>2, MaxCallsAssumption DEF IInv, TypeOK
<1>5. TypeOK'
  BY <1>2, <1>3, <1>4 DEF IInv, TypeOK, Sound
<1>6. \A d \in Clients : phase'[d] # "idle" => Sound(request'[d])
  BY <1>2, <1>3 DEF IInv, TypeOK
<1>7. \A d \in Clients : phase'[d] = "answered" => Honest(answer'[d], request'[d].args.op)
  BY <1>2 DEF IInv, TypeOK
<1> QED
  BY <1>2, <1>5, <1>6, <1>7 DEF IInv

LEMMA ProcessKeepsIInv ==
  ASSUME IInv, NEW c \in Clients, Process(c)
  PROVE  IInv'
<1> DEFINE q == request[c]
<1>1. PICK g \in Groups, readable \in BOOLEAN :
        /\ Do(q.args.op, q.body, g)
        /\ Answer(c, [status |-> Expected(q.args.op), applied |-> TRUE, readable |-> readable,
             userGroup |-> [id |-> g, text |-> groups'[g].text, members |-> groups'[g].members]])
  BY DEF Process, Decodes
<1> DEFINE a == [status |-> Expected(q.args.op), applied |-> TRUE, readable |-> readable,
             userGroup |-> [id |-> g, text |-> groups'[g].text, members |-> groups'[g].members]]
<1>2. /\ phase[c] = "sent"
      /\ phase' = [phase EXCEPT ![c] = "answered"]
      /\ answer' = [answer EXCEPT ![c] = a]
      /\ UNCHANGED <<made, request, late, outcome, copy>>
  BY <1>1 DEF Process, Answer
<1>3. Sound(q) /\ TypeOK
  BY <1>2 DEF IInv
<1>4. /\ life' \in [Groups -> {"unborn", "alive", "deleted"}]
      /\ groups' \in [Groups -> Group]
      /\ attached' \in [Groups -> SUBSET Releases]
  BY <1>1, <1>3, DoKeepsTypes
<1>5. \A h \in Groups : life'[h] = "unborn" => groups'[h].text = Empty
  BY <1>1, <1>3, DoKeepsTexts
<1>6. Expected(q.args.op) \in {200, 201, 204, 404}
  BY <1>3 DEF Sound, Requests, Arguments, Operations, Expected
<1>7. a \in Answers
  BY <1>4, <1>6 DEF Answers, UserGroup, Group
<1>8. Honest(a, q.args.op)
  BY <1>7 DEF Honest
<1>9. TypeOK'
  BY <1>2, <1>3, <1>4, <1>7 DEF TypeOK
<1>10. \A d \in Clients : phase'[d] # "idle" => Sound(request'[d])
  BY <1>2, <1>3 DEF IInv, TypeOK
<1>11. \A d \in Clients : phase'[d] = "answered" => Honest(answer'[d], request'[d].args.op)
  BY <1>2, <1>8 DEF IInv, TypeOK
<1> QED
  BY <1>2, <1>5, <1>9, <1>10, <1>11 DEF IInv

LEMMA RefuseKeepsIInv ==
  ASSUME IInv, NEW c \in Clients, Refuse(c)
  PROVE  IInv'
<1> DEFINE a == [status |-> 404, applied |-> FALSE, readable |-> TRUE, userGroup |-> Nothing]
<1>1. /\ phase[c] = "sent"
      /\ phase' = [phase EXCEPT ![c] = "answered"]
      /\ answer' = [answer EXCEPT ![c] = a]
      /\ UNCHANGED <<made, request, late, outcome, copy, life, groups, attached>>
  BY DEF Refuse, Answer, serverVars
<1>2. Sound(request[c]) /\ TypeOK
  BY <1>1 DEF IInv
<1>3. a \in Answers
  BY DEF Answers
<1>4. Expected(request[c].args.op) # 404
  BY <1>2 DEF Sound, Requests, Arguments, Operations, Expected
<1>5. Honest(a, request[c].args.op)
  BY <1>3, <1>4 DEF Honest
<1>6. TypeOK'
  BY <1>1, <1>2, <1>3 DEF TypeOK
<1>7. \A d \in Clients : phase'[d] # "idle" => Sound(request'[d])
  BY <1>1, <1>2 DEF IInv, TypeOK
<1>8. \A d \in Clients : phase'[d] = "answered" => Honest(answer'[d], request'[d].args.op)
  BY <1>1, <1>5 DEF IInv, TypeOK
<1> QED
  BY <1>1, <1>6, <1>7, <1>8 DEF IInv

LEMMA ReturnKeepsIInv ==
  ASSUME IInv, NEW c \in Clients, ReturnFrom(c)
  PROVE  IInv'
<1> DEFINE op == request[c].args.op
           o == IF Accepted(answer[c], Expected(op), Decodes(op)) THEN "nil" ELSE "error"
<1>1. /\ phase[c] = "answered"
      /\ phase' = [phase EXCEPT ![c] = "idle"]
      /\ request' = [request EXCEPT ![c] = Nothing]
      /\ answer' = [answer EXCEPT ![c] = Nothing]
      /\ outcome' = [outcome EXCEPT ![c] = o]
      /\ UNCHANGED <<made, late, life, groups, attached>>
      /\ copy' = [copy EXCEPT ![c] = answer[c].userGroup] \/ copy' = copy
  BY DEF ReturnFrom, Return, End, serverVars
<1>2. answer[c].userGroup \in UserGroup \cup {Nothing}
  BY <1>1 DEF IInv, Honest, Answers
<1>3. copy' \in [Clients -> UserGroup \cup {Nothing}]
  BY <1>1, <1>2 DEF IInv, TypeOK
<1>4. TypeOK'
  BY <1>1, <1>3 DEF IInv, TypeOK
<1>5. \A d \in Clients : phase'[d] # "idle" => d # c /\ phase'[d] = phase[d]
  BY <1>1 DEF IInv, TypeOK
<1>6. \A d \in Clients : phase'[d] # "idle" => Sound(request'[d])
  BY <1>1, <1>5 DEF IInv, TypeOK
<1>7. \A d \in Clients : phase'[d] = "answered" => Honest(answer'[d], request'[d].args.op)
  BY <1>1, <1>5 DEF IInv, TypeOK
<1> QED
  BY <1>1, <1>4, <1>6, <1>7 DEF IInv

LEMMA FailKeepsIInv ==
  ASSUME IInv, NEW c \in Clients, Fail(c)
  PROVE  IInv'
<1>1. /\ phase[c] # "idle"
      /\ phase' = [phase EXCEPT ![c] = "idle"]
      /\ request' = [request EXCEPT ![c] = Nothing]
      /\ answer' = [answer EXCEPT ![c] = Nothing]
      /\ outcome' = [outcome EXCEPT ![c] = "error"]
      /\ late' \in {late, late \cup {request[c]}}
      /\ UNCHANGED <<made, life, groups, attached, copy>>
  BY DEF Fail, GiveUp, End, serverVars
<1>2. \A q \in late' : Sound(q)
  BY <1>1 DEF IInv
<1>3. TypeOK'
  BY <1>1, <1>2 DEF IInv, TypeOK, Sound
<1>4. \A d \in Clients : phase'[d] # "idle" => d # c /\ phase'[d] = phase[d]
  BY <1>1 DEF IInv, TypeOK
<1>5. \A d \in Clients : phase'[d] # "idle" => Sound(request'[d])
  BY <1>1, <1>4 DEF IInv, TypeOK
<1>6. \A d \in Clients : phase'[d] = "answered" => Honest(answer'[d], request'[d].args.op)
  BY <1>1, <1>4 DEF IInv, TypeOK
<1> QED
  BY <1>1, <1>2, <1>3, <1>5, <1>6 DEF IInv

LEMMA ProcessLateKeepsIInv ==
  ASSUME IInv, ProcessLate
  PROVE  IInv'
<1>1. PICK q \in late, g \in Groups :
        /\ Do(q.args.op, q.body, g)
        /\ late' = late \ {q}
        /\ UNCHANGED <<copy, made, phase, request, answer, outcome>>
  BY DEF ProcessLate
<1>2. Sound(q) /\ TypeOK
  BY DEF IInv
<1>3. /\ life' \in [Groups -> {"unborn", "alive", "deleted"}]
      /\ groups' \in [Groups -> Group]
      /\ attached' \in [Groups -> SUBSET Releases]
  BY <1>1, <1>2, DoKeepsTypes
<1>4. \A h \in Groups : life'[h] = "unborn" => groups'[h].text = Empty
  BY <1>1, <1>2, DoKeepsTexts
<1>5. TypeOK'
  BY <1>1, <1>2, <1>3 DEF TypeOK
<1> QED
  BY <1>1, <1>4, <1>5 DEF IInv

LEMMA NextKeepsIInv ==
  ASSUME IInv, [Next]_vars
  PROVE  IInv'
<1>1. CASE UNCHANGED vars
  BY <1>1 DEF vars, serverVars, exchangeVars, IInv, TypeOK
<1>2. CASE Next
  BY <1>2, CallKeepsIInv, ProcessKeepsIInv, RefuseKeepsIInv, ReturnKeepsIInv, FailKeepsIInv,
     ProcessLateKeepsIInv DEF Next
<1> QED
  BY <1>1, <1>2

LEMMA Invariance == Spec => []IInv
BY InitIInv, NextKeepsIInv, PTL DEF Spec

\* Types are kept by every interleaving of calls, answers and requests that
\* arrive late: above all, no request says null for a group's members.
THEOREM TypeCorrect == Spec => []TypeOK
<1>1. IInv => TypeOK
  BY DEF IInv
<1> QED
  BY <1>1, Invariance, PTL

\* Only a change of the groups can blank a text, and only Process and
\* ProcessLate make one.
LEMMA NextKeepsTexts ==
  ASSUME IInv, [Next]_vars
  PROVE  \A g \in Groups : life'[g] # "deleted" =>
           (groups[g].text # Empty => groups'[g].text # Empty)
<1>1. CASE groups' = groups
  BY <1>1
<1>2. ASSUME NEW c \in Clients, Process(c)
      PROVE  \E g \in Groups : Sound(request[c]) /\ Do(request[c].args.op, request[c].body, g)
  BY <1>2 DEF Process, IInv
<1>3. ASSUME NEW c \in Clients, Process(c)
      PROVE  \A g \in Groups : life'[g] # "deleted" =>
               (groups[g].text # Empty => groups'[g].text # Empty)
  BY <1>2, <1>3, DoKeepsTexts
<1>4. CASE ProcessLate
  <2>1. PICK q \in late, g \in Groups : Do(q.args.op, q.body, g)
    BY <1>4 DEF ProcessLate
  <2>2. Sound(q)
    BY DEF IInv
  <2> QED
    BY <2>1, <2>2, DoKeepsTexts
<1>5. ASSUME NEW c \in Clients, Call(c) \/ Refuse(c) \/ ReturnFrom(c) \/ Fail(c)
      PROVE  groups' = groups
  BY <1>5 DEF Call, Refuse, ReturnFrom, Fail, serverVars
<1>6. UNCHANGED vars => groups' = groups
  BY DEF vars, serverVars
<1> QED
  BY <1>1, <1>3, <1>4, <1>5, <1>6 DEF Next

\* No update blanks the text of a group, however many of them are underway or
\* arrive late.
THEOREM TextsStay == Spec => TextsAreNeverBlanked
<1>1. IInv /\ [Next]_vars =>
        [\A g \in Groups : life'[g] # "deleted" =>
           (groups[g].text # Empty => groups'[g].text # Empty)]_vars
  BY NextKeepsTexts
<1> QED
  BY <1>1, Invariance, PTL DEF Spec, TextsAreNeverBlanked

-----------------------------------------------------------------------------
(* UserGroups implements Access *)

\* A step of one client changes the stage of no other.
LEMMA OtherStages ==
  ASSUME TypeOK, NEW c \in Clients,
         \A d \in Clients \ {c} : phase'[d] = phase[d] /\ answer'[d] = answer[d]
  PROVE  /\ \A d \in Clients \ {c} : Stage(d)' = Stage(d)
         /\ [d \in Clients |-> Stage(d)'] = [[d \in Clients |-> Stage(d)] EXCEPT ![c] = Stage(c)']
<1>1. \A d \in Clients \ {c} : Stage(d)' = Stage(d)
  BY DEF Stage
<1> QED
  BY <1>1

LEMMA CallAsks ==
  ASSUME IInv, NEW c \in Clients, Call(c)
  PROVE  A!Ask(c)
<1>1. PICK q : Send(c, q.args, q.body)
  BY CallIsFaithful DEF IInv
<1> DEFINE p == [id |-> <<c, made[c]>>, args |-> q.args, body |-> q.body]
<1>2. /\ phase[c] = "idle"
      /\ phase' = [phase EXCEPT ![c] = "sent"]
      /\ request' = [request EXCEPT ![c] = p]
      /\ outcome' = [outcome EXCEPT ![c] = "none"]
      /\ UNCHANGED <<answer, late, life, groups, attached>>
  BY <1>1 DEF Call, Send, Begin, serverVars
<1>3. TypeOK
  BY DEF IInv
<1>4. Stage(c) = "idle" /\ Stage(c)' = "asking"
  BY <1>2, <1>3 DEF Stage, TypeOK
<1>5. [d \in Clients |-> Stage(d)'] = [[d \in Clients |-> Stage(d)] EXCEPT ![c] = "asking"]
  BY <1>2, <1>3, <1>4, OtherStages DEF TypeOK
<1>6. request' = [request EXCEPT ![c] = request'[c]]
  BY <1>2, <1>3 DEF TypeOK
<1> QED
  BY <1>2, <1>4, <1>5, <1>6 DEF A!Ask

LEMMA ProcessHappens ==
  ASSUME IInv, NEW c \in Clients, Process(c)
  PROVE  A!Happen(c)
<1> DEFINE q == request[c]
<1>1. PICK g \in Groups, readable \in BOOLEAN :
        /\ Do(q.args.op, q.body, g)
        /\ Answer(c, [status |-> Expected(q.args.op), applied |-> TRUE, readable |-> readable,
             userGroup |-> [id |-> g, text |-> groups'[g].text, members |-> groups'[g].members]])
  BY DEF Process, Decodes
<1>2. /\ phase[c] = "sent"
      /\ phase' = [phase EXCEPT ![c] = "answered"]
      /\ \A d \in Clients \ {c} : answer'[d] = answer[d]
      /\ answer'[c].applied
      /\ UNCHANGED <<request, late, outcome>>
  BY <1>1 DEF Answer, IInv, TypeOK
<1>3. Sound(q) /\ TypeOK
  BY <1>2 DEF IInv
<1>4. A!Meaning(request[c].args)
  <2>1. PICK p : p = request[c]
    OBVIOUS
  <2>2. Sound(p) /\ Do(p.args.op, p.body, g)
    BY <1>1, <1>3, <2>1
  <2>3. A!Meaning(p.args)
    BY <1>3, <2>2, DoIsMeant
  <2> QED
    BY <2>1, <2>3 DEF A!Meaning, A!Create, A!Delete, A!SetMembers, A!SetReleases
<1>5. Stage(c) = "asking" /\ Stage(c)' = "happened"
  BY <1>2, <1>3 DEF Stage, TypeOK
<1>6. [d \in Clients |-> Stage(d)'] = [[d \in Clients |-> Stage(d)] EXCEPT ![c] = "happened"]
  BY <1>2, <1>3, <1>5, OtherStages DEF TypeOK
<1> QED
  BY <1>2, <1>4, <1>5, <1>6 DEF A!Happen

\* A refusal changes nothing that the caller could see before the call returns.
LEMMA RefuseStutters ==
  ASSUME IInv, NEW c \in Clients, Refuse(c)
  PROVE  UNCHANGED A!vars
<1>1. /\ phase[c] = "sent"
      /\ phase' = [phase EXCEPT ![c] = "answered"]
      /\ \A d \in Clients \ {c} : answer'[d] = answer[d]
      /\ ~answer'[c].applied
      /\ UNCHANGED <<request, late, outcome, life, groups, attached>>
  BY DEF Refuse, Answer, serverVars, IInv, TypeOK
<1>2. TypeOK
  BY DEF IInv
<1>3. Stage(c) = "asking" /\ Stage(c)' = "asking"
  BY <1>1, <1>2 DEF Stage, TypeOK
<1>4. [d \in Clients |-> Stage(d)'] = [d \in Clients |-> Stage(d)]
  BY <1>1, <1>2, <1>3, OtherStages DEF TypeOK
<1> QED
  BY <1>1, <1>4 DEF A!vars

\* A call that returns nil has happened: its status is the expected one.
LEMMA ReturnEnds ==
  ASSUME IInv, NEW c \in Clients, ReturnFrom(c)
  PROVE  A!Succeed(c) \/ A!Fail(c)
<1> DEFINE op == request[c].args.op
           accepted == Accepted(answer[c], Expected(op), Decodes(op))
<1>1. /\ phase[c] = "answered"
      /\ phase' = [phase EXCEPT ![c] = "idle"]
      /\ request' = [request EXCEPT ![c] = Nothing]
      /\ answer' = [answer EXCEPT ![c] = Nothing]
      /\ outcome' = [outcome EXCEPT ![c] = IF accepted THEN "nil" ELSE "error"]
      /\ UNCHANGED <<late, life, groups, attached>>
  BY DEF ReturnFrom, Return, End, serverVars
<1>2. TypeOK /\ Honest(answer[c], op)
  BY <1>1 DEF IInv
<1>3. Stage(c)' = "idle"
  BY <1>1, <1>2 DEF Stage, TypeOK
<1>4. [d \in Clients |-> Stage(d)'] = [[d \in Clients |-> Stage(d)] EXCEPT ![c] = "idle"]
  BY <1>1, <1>2, <1>3, OtherStages DEF TypeOK
<1>5. request' = [request EXCEPT ![c] = request'[c]]
  BY <1>1, <1>2 DEF TypeOK
<1>6. ASSUME accepted
      PROVE  A!Succeed(c)
  <2>1. answer[c].applied
    BY <1>2, <1>6 DEF Accepted, Honest
  <2>2. Stage(c) = "happened"
    BY <1>1, <2>1 DEF Stage
  <2> QED
    BY <1>1, <1>4, <1>5, <1>6, <2>2 DEF A!Succeed, A!End
<1>7. ASSUME ~accepted
      PROVE  A!Fail(c)
  <2>1. Stage(c) # "idle"
    BY <1>1, <1>2 DEF Stage, Honest, Answers
  <2> QED
    BY <1>1, <1>4, <1>5, <1>7, <2>1 DEF A!Fail, A!End
<1> QED
  BY <1>6, <1>7

\* A call that ends without an answer leaves its request behind if the server
\* has not done it yet.
LEMMA GivingUpFails ==
  ASSUME IInv, NEW c \in Clients, Fail(c)
  PROVE  A!Fail(c)
<1>1. /\ phase[c] # "idle"
      /\ phase' = [phase EXCEPT ![c] = "idle"]
      /\ request' = [request EXCEPT ![c] = Nothing]
      /\ answer' = [answer EXCEPT ![c] = Nothing]
      /\ outcome' = [outcome EXCEPT ![c] = "error"]
      /\ late' = late \/ (phase[c] = "sent" /\ late' = late \cup {request[c]})
      /\ UNCHANGED <<life, groups, attached>>
  BY DEF Fail, GiveUp, End, serverVars
<1>2. TypeOK
  BY DEF IInv
<1>3. phase[c] = "answered" => Honest(answer[c], request[c].args.op)
  BY DEF IInv
<1>4. Stage(c)' = "idle"
  BY <1>1, <1>2 DEF Stage, TypeOK
<1>5. [d \in Clients |-> Stage(d)'] = [[d \in Clients |-> Stage(d)] EXCEPT ![c] = "idle"]
  BY <1>1, <1>2, <1>4, OtherStages DEF TypeOK
<1>6. request' = [request EXCEPT ![c] = request'[c]]
  BY <1>1, <1>2 DEF TypeOK
<1>7. Stage(c) # "idle" /\ (phase[c] = "sent" => Stage(c) = "asking")
  BY <1>1, <1>2, <1>3 DEF Stage, TypeOK, Honest, Answers
<1> QED
  BY <1>1, <1>5, <1>6, <1>7 DEF A!Fail, A!End

LEMMA LateHappens ==
  ASSUME IInv, ProcessLate
  PROVE  A!HappenLate
<1>1. PICK q \in late, g \in Groups :
        /\ Do(q.args.op, q.body, g)
        /\ late' = late \ {q}
        /\ UNCHANGED <<copy, made, phase, request, answer, outcome>>
  BY DEF ProcessLate
<1>2. Sound(q) /\ TypeOK
  BY DEF IInv
<1>3. A!Meaning(q.args)
  BY <1>1, <1>2, DoIsMeant
<1>4. [d \in Clients |-> Stage(d)'] = [d \in Clients |-> Stage(d)]
  BY <1>1 DEF Stage
<1> QED
  BY <1>1, <1>3, <1>4 DEF A!HappenLate

LEMMA NextImplements ==
  ASSUME IInv, [Next]_vars
  PROVE  [A!Next]_(A!vars)
<1>1. CASE UNCHANGED vars
  BY <1>1 DEF vars, serverVars, exchangeVars, A!vars, Stage
<1>2. ASSUME NEW c \in Clients,
             Call(c) \/ Process(c) \/ Refuse(c) \/ ReturnFrom(c) \/ Fail(c)
      PROVE  [A!Next]_(A!vars)
  BY <1>2, CallAsks, ProcessHappens, RefuseStutters, ReturnEnds, GivingUpFails DEF A!Next
<1>3. CASE ProcessLate
  BY <1>3, LateHappens DEF A!Next
<1> QED
  BY <1>1, <1>2, <1>3 DEF Next

LEMMA InitImplements == Init => A!Init
BY DEF Init, ExchangeInit, NoGroup, A!Init, Stage

\* Any number of clients, groups and lost or late requests implement the promise
\* that who sees what is decided by the calls made for it, each at most once.
THEOREM AccessIsGranted == Spec => GrantsAccess
BY InitImplements, NextImplements, Invariance, PTL DEF Spec, GrantsAccess, A!Spec

=============================================================================
