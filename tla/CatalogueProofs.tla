-------------------------- MODULE CatalogueProofs --------------------------
(***************************************************************************)
(* Whatever number of clients edits the catalogue, with however old copies *)
(* and late requests: it keeps its types, and it changes only as calls     *)
(* underway ask for, once for each.                                        *)
(***************************************************************************)
EXTENDS Catalogue, TLAPS

(***************************************************************************)
(* The properties speak of single steps of the server, which depend on     *)
(* what the methods have put into the requests long before: that is Sound. *)
(* A request says what its caller asked for, about objects of the right    *)
(* kind, and leaves the fields alone that the method does not mean.        *)
(***************************************************************************)
OfTheRightKind(a) ==
  /\ a.op \in {"updateFile", "deleteFile"} => a.object \in Files /\ a.to = Nothing
  /\ a.op \in {"updateRelease", "deleteRelease", "acceptEULA"} => a.object \in Releases /\ a.to = Nothing
  /\ a.op \in {"updateGroup", "deleteGroup"} => a.object \in FileGroups /\ a.to = Nothing
  /\ a.op \in {"addToGroup", "removeFromGroup"} => a.object \in Files /\ a.to \in FileGroups
  /\ a.op \in {"addToRelease", "removeFromRelease"} => a.object \in Files \cup FileGroups /\ a.to \in Releases
  /\ a.op \in RelateOps => a.object \in Releases /\ a.to \in Releases
  /\ a.op \in {"createDependencySpecifier", "createUpgradePathSpecifier"} => a.to \in Releases
  /\ a.op = "deleteSpecifier" => a.object \in Specifiers /\ a.to \in Releases

AsAsked(q) ==
  /\ IF q.args.op = "createFile" THEN q.body.key \in Keys \ {Empty} ELSE q.body.key = Nothing
  /\ q.args.op = "createRelease" => q.body.availability = "Admins Only"
  /\ q.args.op = "updateRelease" =>
       /\ q.args.release \in Submission
       /\ q.body.availability = OmitEmpty(q.args.release.availability, "")
       /\ q.body.controlled = OmitEmpty(q.args.release.controlled, FALSE)
  /\ q.args.op \in RelateOps => q.body.other = q.args.object
  /\ q.body.files = Nothing

Sound(q) == q \in Requests /\ OfTheRightKind(q.args) /\ AsAsked(q)

\* The number of a call identifies its request, late ones included.
Underway ==
  /\ made \in [Clients -> 0 .. MaxCalls]
  /\ phase \in [Clients -> {"idle", "sent", "answered"}]
  /\ request \in [Clients -> Requests \cup {Nothing}]
  /\ answer \in [Clients -> Answers \cup {Nothing}]
  /\ outcome \in [Clients -> {"none", "nil", "error"}]
  /\ \A c \in Clients :
       phase[c] # "idle" => Sound(request[c]) /\ request[c].id = <<c, made[c] - 1>>
  /\ \A q \in late :
       /\ Sound(q)
       /\ \E c \in Clients, n \in Nat :
            q.id = <<c, n>> /\ n < made[c] /\ (phase[c] # "idle" => n < made[c] - 1)

\* What is unborn is as it will be created, and no specifier has two releases.
Kept ==
  /\ life \in [Objects -> {"unborn", "alive", "deleted"}]
  /\ keys \in [Files -> Keys \ {Empty}]
  /\ releases \in [Releases -> Release]
  /\ inGroup \in [FileGroups -> SUBSET Files]
  /\ inRelease \in [Releases -> SUBSET (Files \cup FileGroups \cup Specifiers)]
  /\ related \in [Relations -> [Releases -> SUBSET Releases]]
  /\ accepted \subseteq Releases
  /\ \A r \in Releases : life[r] = "unborn" => releases[r].availability = "Admins Only"
  /\ \A s \in Specifiers, r \in Releases :
       s \in inRelease[r] =>
         /\ life[s] # "unborn"
         /\ \A other \in Releases \ {r} : s \notin inRelease[other]

IInv == Underway /\ Kept

LEMMA InvIsTyped == IInv => TypeOK
BY DEF IInv, Underway, Kept, Sound, TypeOK

-----------------------------------------------------------------------------
(* The methods *)

\* Every method sends a sound request, or fails before it sends one.
LEMMA CallIsSound ==
  ASSUME Underway, NEW c \in Clients, Call(c)
  PROVE  \/ \E q : Sound(q) /\ Send(c, q.args, q.body)
         \/ Begin(c, "idle", "error") /\ UNCHANGED request
<1> DEFINE Ok == \E q : Sound(q) /\ Send(c, q.args, q.body)
<1>1. ASSUME NEW args \in Arguments, NEW body \in Bodies, Send(c, args, body), OfTheRightKind(args),
             AsAsked([id |-> <<c, made[c]>>, args |-> args, body |-> body])
      PROVE  Ok
  <2> DEFINE q == [id |-> <<c, made[c]>>, args |-> args, body |-> body]
  <2>1. q \in Requests
    BY MaxCallsAssumption DEF Underway, Requests
  <2>2. q.args = args /\ q.body = body
    OBVIOUS
  <2> QED
    BY <1>1, <2>1, <2>2 DEF Sound
<1>2. \* requests without a body, for other operations than those that have one
      ASSUME NEW op \in Operations \ (RelateOps \cup {"createFile", "createRelease", "updateRelease"}),
             NEW x \in Objects \cup {Nothing}, NEW to \in Objects \cup {Nothing},
             OfTheRightKind([op |-> op, object |-> x, to |-> to, release |-> Nothing]),
             Send(c, [op |-> op, object |-> x, to |-> to, release |-> Nothing], NoFields)
      PROVE  Ok
  <2> DEFINE args == [op |-> op, object |-> x, to |-> to, release |-> Nothing]
  <2>1. args \in Arguments /\ NoFields \in Bodies
    BY DEF Arguments, Bodies, NoFields
  <2>2. AsAsked([id |-> <<c, made[c]>>, args |-> args, body |-> NoFields])
    BY DEF AsAsked, NoFields
  <2> QED
    BY <1>1, <1>2, <2>1, <2>2
<1>3. ASSUME NEW op \in Operations \ (RelateOps \cup {"createFile", "createRelease", "updateRelease"}),
             NEW x \in Objects \cup {Nothing}, Send(c, Asked(op, x), NoFields),
             OfTheRightKind([op |-> op, object |-> x, to |-> Nothing, release |-> Nothing])
      PROVE  Ok
  BY <1>2, <1>3 DEF Asked
<1>4. ASSUME NEW op \in Operations \ (RelateOps \cup {"createFile", "createRelease", "updateRelease"}),
             NEW x \in Objects \cup {Nothing}, NEW to \in Objects \cup {Nothing},
             Send(c, [Asked(op, x) EXCEPT !.to = to], NoFields),
             OfTheRightKind([op |-> op, object |-> x, to |-> to, release |-> Nothing])
      PROVE  Ok
  <2>1. [Asked(op, x) EXCEPT !.to = to] = [op |-> op, object |-> x, to |-> to, release |-> Nothing]
    BY DEF Asked
  <2> QED
    BY <1>2, <1>4, <2>1
<1>5. ASSUME NEW x \in Objects \cup {Nothing}, NEW to \in Objects \cup {Nothing}, Read(c, x, to)
      PROVE  Ok
  BY <1>4, <1>5 DEF Read, OfTheRightKind, Operations, RelateOps
<1>6. CASE Reads(c)
  BY <1>5, <1>6 DEF Reads, ReadFiles, ReadReleases, ReadFileGroups, ReadEULAs, ReadProducts, ReadReleaseTypes,
     ReadFileGroupsOfRelease, ReadDependencies, ReadUpgradePaths, ReadDependencySpecifiers,
     ReadUpgradePathSpecifiers, Objects, Specifiers
<1>7. ASSUME NEW op \in RelateOps, Relate(c, op)
      PROVE  Ok
  <2>1. PICK r \in Releases, other \in Releases :
          Send(c, [Asked(op, other) EXCEPT !.to = r], RelationBody(r, other))
    BY <1>7 DEF Relate
  <2> DEFINE args == [op |-> op, object |-> other, to |-> r, release |-> Nothing]
  <2>2. [Asked(op, other) EXCEPT !.to = r] = args
    BY DEF Asked
  <2>3. args \in Arguments /\ OfTheRightKind(args)
    BY DEF Arguments, Operations, Objects, OfTheRightKind, RelateOps
  <2>4. /\ RelationBody(r, other) \in Bodies
        /\ AsAsked([id |-> <<c, made[c]>>, args |-> args, body |-> RelationBody(r, other)])
    BY DEF RelationBody, NoFields, Bodies, AsAsked, RelateOps
  <2> QED
    BY <1>1, <2>1, <2>2, <2>3, <2>4
<1>8. CASE Relates(c)
  <2>1. CASE AddDependency(c) \/ RemoveDependency(c) \/ AddUpgradePath(c) \/ RemoveUpgradePath(c)
    BY <1>7, <2>1 DEF AddDependency, RemoveDependency, AddUpgradePath, RemoveUpgradePath, RelateOps
  <2>2. CASE CreateDependencySpecifier(c) \/ CreateUpgradePathSpecifier(c)
    BY <1>4, <2>2 DEF CreateDependencySpecifier, CreateUpgradePathSpecifier, OfTheRightKind, Operations,
       CreateOps, RelateOps, Objects
  <2>3. CASE DeleteDependencySpecifier(c) \/ DeleteUpgradePathSpecifier(c)
    BY <1>4, <2>3 DEF DeleteDependencySpecifier, DeleteUpgradePathSpecifier, OfTheRightKind, Operations,
       DeleteOps, RelateOps, Objects, Specifiers
  <2>4. CASE AcceptEULA(c)
    BY <1>3, <2>4 DEF AcceptEULA, OfTheRightKind, Operations, RelateOps, Objects
  <2> QED
    BY <1>8, <2>1, <2>2, <2>3, <2>4 DEF Relates
<1>9. CASE CreateFile(c)
  <2>1. PICK key \in Keys :
          IF KeyGiven(key)
          THEN Send(c, Asked("createFile", Nothing), CreateFileBody(key))
          ELSE Begin(c, "idle", "error") /\ UNCHANGED request
    BY <1>9 DEF CreateFile
  <2>2. CASE KeyGiven(key)
    <3>1. /\ Asked("createFile", Nothing) \in Arguments
          /\ OfTheRightKind(Asked("createFile", Nothing))
      BY DEF Asked, Arguments, Operations, CreateOps, OfTheRightKind, RelateOps
    <3>2. /\ CreateFileBody(key) \in Bodies
          /\ AsAsked([id |-> <<c, made[c]>>, args |-> Asked("createFile", Nothing), body |-> CreateFileBody(key)])
      BY <2>2 DEF KeyGiven, CreateFileBody, OmitEmpty, NoFields, Bodies, AsAsked, Asked, RelateOps
    <3> QED
      BY <1>1, <2>1, <2>2, <3>1, <3>2
  <2> QED
    BY <2>1, <2>2
<1>10. CASE UpdateFile(c) \/ DeleteFile(c)
  BY <1>3, <1>10 DEF UpdateFile, UpdateFileBody, DeleteFile, OfTheRightKind, Operations, UpdateOps, DeleteOps,
     RelateOps, Objects
<1>11. CASE AddFileToRelease(c) \/ RemoveFileFromRelease(c) \/ AddGroupToRelease(c) \/ RemoveGroupFromRelease(c)
  BY <1>4, <1>11 DEF AddFileToRelease, RemoveFileFromRelease, AddGroupToRelease, RemoveGroupFromRelease,
     OfTheRightKind, Operations, AttachOps, RelateOps, Objects
<1>12. CASE AddToFileGroup(c) \/ RemoveFromFileGroup(c)
  BY <1>4, <1>12 DEF AddToFileGroup, RemoveFromFileGroup, OfTheRightKind, Operations, AttachOps, RelateOps, Objects
<1>13. CASE CreateRelease(c)
  <2>1. PICK controlled \in BOOLEAN : Send(c, Asked("createRelease", Nothing), CreateReleaseBody(controlled))
    BY <1>13 DEF CreateRelease
  <2>2. /\ Asked("createRelease", Nothing) \in Arguments
        /\ OfTheRightKind(Asked("createRelease", Nothing))
    BY DEF Asked, Arguments, Operations, CreateOps, OfTheRightKind, RelateOps
  <2>3. /\ CreateReleaseBody(controlled) \in Bodies
        /\ AsAsked([id |-> <<c, made[c]>>, args |-> Asked("createRelease", Nothing),
                    body |-> CreateReleaseBody(controlled)])
    BY DEF CreateReleaseBody, OmitEmpty, NoFields, Bodies, Availabilities, AsAsked, Asked, RelateOps
  <2> QED
    BY <1>1, <2>1, <2>2, <2>3
<1>14. CASE UpdateRelease(c)
  <2>1. PICK r \in Releases, release \in Release :
          Send(c, [Asked("updateRelease", r) EXCEPT !.release =
                    [availability |-> release.availability, controlled |-> release.controlled]],
               UpdateReleaseBody(release))
    BY <1>14 DEF UpdateRelease
  <2> DEFINE args == [op |-> "updateRelease", object |-> r, to |-> Nothing,
                      release |-> [availability |-> release.availability, controlled |-> release.controlled]]
  <2>2. [Asked("updateRelease", r) EXCEPT !.release =
          [availability |-> release.availability, controlled |-> release.controlled]] = args
    BY DEF Asked
  <2>3. args \in Arguments /\ OfTheRightKind(args)
    BY DEF Arguments, Operations, UpdateOps, Objects, Submission, Release, OfTheRightKind, RelateOps
  <2>4. /\ UpdateReleaseBody(release) \in Bodies
        /\ AsAsked([id |-> <<c, made[c]>>, args |-> args, body |-> UpdateReleaseBody(release)])
    BY DEF UpdateReleaseBody, OmitEmpty, NoFields, Bodies, Release, Submission, AsAsked, RelateOps
  <2> QED
    BY <1>1, <2>1, <2>2, <2>3, <2>4
<1>15. CASE DeleteRelease(c) \/ DeleteFileGroup(c)
  BY <1>3, <1>15 DEF DeleteRelease, DeleteFileGroup, OfTheRightKind, Operations, DeleteOps, RelateOps, Objects
<1>16. CASE CreateFileGroup(c) \/ UpdateFileGroup(c)
  BY <1>3, <1>16 DEF CreateFileGroup, UpdateFileGroup, UpdateGroupBody, OfTheRightKind, Operations, CreateOps,
     UpdateOps, RelateOps, Objects
<1> QED
  BY <1>6, <1>8, <1>9, <1>10, <1>11, <1>12, <1>13, <1>14, <1>15, <1>16 DEF Call

-----------------------------------------------------------------------------
(* The server *)

LEMMA PatchedIsRelease ==
  ASSUME NEW release \in Release, NEW body \in Bodies
  PROVE  Patched(release, body) \in Release
<1>1. /\ Field(body.availability, release.availability) \in Availabilities
      /\ Field(body.controlled, release.controlled) \in BOOLEAN
      /\ Field(body.compliance, release.compliance) \in Compliances
  BY DEF Field, Bodies, Release, Compliances
<1> QED
  BY <1>1 DEF Patched, Release

LEMMA DoKeepsKept ==
  ASSUME Kept, NEW q, Sound(q), NEW x \in Objects, Do(q, x)
  PROVE  Kept'
<1> DEFINE op == q.args.op
           to == q.args.to
<1>1. q.body \in Bodies /\ op \in Operations /\ q.body.files = Nothing
  BY DEF Sound, Requests, Arguments, AsAsked
<1>2. InitialRelease \in Release /\ InitialRelease.availability = "Admins Only"
  BY DEF InitialRelease, Release, Availabilities, Compliances
<1>3. CASE op \in CreateOps /\ x \in CreatedBy(op) /\ Created(q, x)
  <2>1. /\ life[x] = "unborn" /\ life' = [life EXCEPT ![x] = "alive"]
        /\ UNCHANGED <<inGroup, related, accepted>>
    BY <1>3 DEF Created
  <2>2. x \in Files => op = "createFile"
    BY <1>3, KindsAssumption DEF CreateOps, CreatedBy, Specifiers
  <2>3. x \in Releases => op = "createRelease"
    BY <1>3, KindsAssumption DEF CreateOps, CreatedBy, Specifiers
  <2>4. keys' \in [Files -> Keys \ {Empty}]
    <3>1. CASE x \in Files
      <4>1. Field(q.body.key, Empty) \in Keys \ {Empty}
        BY <2>2, <3>1, KeysAssumption DEF Sound, AsAsked, Field
      <4> QED
        BY <1>3, <3>1, <4>1 DEF Created, Kept
    <3>2. CASE x \notin Files
      BY <1>3, <3>2 DEF Created, Kept
    <3> QED
      BY <3>1, <3>2
  <2>5. /\ releases' \in [Releases -> Release]
        /\ \A r \in Releases : life'[r] = "unborn" => releases'[r].availability = "Admins Only"
    <3>1. CASE x \in Releases
      <4>1. releases' = [releases EXCEPT ![x] = Patched(InitialRelease, q.body)]
        BY <1>3, <3>1 DEF Created
      <4>2. Patched(InitialRelease, q.body) \in Release
        BY <1>1, <1>2, PatchedIsRelease
      <4> QED
        BY <2>1, <3>1, <4>1, <4>2 DEF Kept, Objects
    <3>2. CASE x \notin Releases
      BY <1>3, <2>1, <3>2 DEF Created, Kept, Objects
    <3> QED
      BY <3>1, <3>2
  <2>6. /\ inRelease' \in [Releases -> SUBSET (Files \cup FileGroups \cup Specifiers)]
        /\ \A s \in Specifiers, r \in Releases :
             s \in inRelease'[r] =>
               /\ life'[s] # "unborn"
               /\ \A other \in Releases \ {r} : s \notin inRelease'[other]
    <3>1. inRelease' = [r \in Releases |->
            IF x \in Specifiers /\ r = to THEN inRelease[r] \cup {x} ELSE inRelease[r]]
      BY <1>3 DEF Created
    <3> QED
      BY <2>1, <3>1 DEF Kept, Objects
  <2>7. life' \in [Objects -> {"unborn", "alive", "deleted"}]
    BY <2>1 DEF Kept
  <2> QED
    BY <2>1, <2>4, <2>5, <2>6, <2>7 DEF Kept
<1>4. CASE op \in UpdateOps /\ x = q.args.object /\ Updated(q, x)
  <2>1. UNCHANGED <<life, inRelease, related, accepted>> /\ life[x] = "alive"
    BY <1>4 DEF Updated
  <2>2. keys' \in [Files -> Keys \ {Empty}]
    <3>1. q.body.key = Nothing
      BY <1>4 DEF Sound, AsAsked, UpdateOps
    <3> QED
      BY <1>4, <3>1 DEF Updated, Field, Kept
  <2>3. /\ releases' \in [Releases -> Release]
        /\ \A r \in Releases : r # x => releases'[r] = releases[r]
    <3>1. \A r \in Releases : Patched(releases[r], q.body) \in Release
      BY <1>1, PatchedIsRelease DEF Kept
    <3> QED
      BY <1>4, <3>1 DEF Updated, Kept
  <2>4. inGroup' \in [FileGroups -> SUBSET Files]
    BY <1>1, <1>4 DEF Updated, Field, Kept
  <2> QED
    BY <2>1, <2>2, <2>3, <2>4 DEF Kept
<1>5. CASE op \in DeleteOps /\ x = q.args.object /\ Deleted(q, x)
  <2>1. /\ life' = [life EXCEPT ![x] = "deleted"]
        /\ UNCHANGED <<keys, releases, accepted>>
    BY <1>5 DEF Deleted
  <2>2. /\ inGroup' = [g \in FileGroups |-> IF g = x THEN {} ELSE inGroup[g] \ {x}]
        /\ inRelease' = [r \in Releases |-> IF r = x THEN {} ELSE inRelease[r] \ {x}]
        /\ related' = [k \in Relations |->
             [r \in Releases |-> IF r = x THEN {} ELSE related[k][r] \ {x}]]
    BY <1>5 DEF Deleted
  <2>3. /\ inGroup' \in [FileGroups -> SUBSET Files]
        /\ inRelease' \in [Releases -> SUBSET (Files \cup FileGroups \cup Specifiers)]
    BY <2>2 DEF Kept
  <2>4. related' \in [Relations -> [Releases -> SUBSET Releases]]
    BY <2>2 DEF Kept
  <2>5. /\ life' \in [Objects -> {"unborn", "alive", "deleted"}]
        /\ \A y \in Objects : life'[y] = "unborn" => life[y] = "unborn"
        /\ \A y \in Objects : life[y] # "unborn" => life'[y] # "unborn"
    BY <2>1 DEF Kept
  <2>6. \A r \in Releases : inRelease'[r] \subseteq inRelease[r]
    BY <2>2
  <2>7. \A s \in Specifiers, r \in Releases :
             s \in inRelease'[r] =>
               /\ life'[s] # "unborn"
               /\ \A other \in Releases \ {r} : s \notin inRelease'[other]
    BY <2>5, <2>6 DEF Kept, Objects
  <2> QED
    BY <2>1, <2>3, <2>4, <2>5, <2>7 DEF Kept, Objects
<1>6. CASE op \in AttachOps /\ x = q.args.object /\ Attached(op, x, to)
  <2>1. UNCHANGED <<life, keys, releases, related, accepted>>
    BY <1>6 DEF Attached
  <2>2. inGroup' \in [FileGroups -> SUBSET Files]
    <3>1. CASE op \in {"addToGroup", "removeFromGroup"}
      <4>1. x \in Files /\ inGroup' = [inGroup EXCEPT ![to] = With(inGroup[to], x, op = "addToGroup")]
        BY <1>6, <3>1 DEF Attached, Sound, OfTheRightKind
      <4> QED
        BY <4>1 DEF Kept, With
    <3>2. CASE op \notin {"addToGroup", "removeFromGroup"}
      BY <1>6, <3>2 DEF Attached, Kept
    <3> QED
      BY <3>1, <3>2
  <2>3. /\ inRelease' \in [Releases -> SUBSET (Files \cup FileGroups \cup Specifiers)]
        /\ \A s \in Specifiers, r \in Releases : s \in inRelease'[r] <=> s \in inRelease[r]
    <3>1. CASE op \in {"addToRelease", "removeFromRelease"}
      <4>1. /\ x \in Files \cup FileGroups
            /\ inRelease' = [inRelease EXCEPT ![to] = With(inRelease[to], x, op = "addToRelease")]
        BY <1>6, <3>1 DEF Attached, Sound, OfTheRightKind
      <4>2. x \notin Specifiers
        BY <4>1, KindsAssumption
      <4> QED
        BY <4>1, <4>2 DEF Kept, With
    <3>2. CASE op \notin {"addToRelease", "removeFromRelease"}
      BY <1>6, <3>2 DEF Attached, Kept
    <3> QED
      BY <3>1, <3>2
  <2> QED
    BY <2>1, <2>2, <2>3 DEF Kept
<1>7. CASE op \in RelateOps /\ x = q.body.other /\ Related(op, x, to)
  <2>1. UNCHANGED <<life, keys, releases, inGroup, inRelease, accepted>>
    BY <1>7 DEF Related
  <2>2. PICK k \in Relations, add \in BOOLEAN :
          related' = [related EXCEPT ![k] = [related[k] EXCEPT ![to] = With(related[k][to], x, add)]]
    <3> DEFINE k == IF op \in {"addDependency", "removeDependency"} THEN "dependency" ELSE "upgradePath"
               add == op \in {"addDependency", "addUpgradePath"}
    <3>1. related' = [related EXCEPT ![k] = [related[k] EXCEPT ![to] = With(related[k][to], x, add)]]
      BY <1>7 DEF Related
    <3>2. k \in Relations /\ add \in BOOLEAN
      BY DEF Relations
    <3> QED
      BY <3>1, <3>2
  <2>3. x \in Releases /\ to \in Releases
    BY <1>7 DEF Sound, AsAsked, OfTheRightKind, RelateOps
  <2>4. [related[k] EXCEPT ![to] = With(related[k][to], x, add)] \in [Releases -> SUBSET Releases]
    <3>1. related[k] \in [Releases -> SUBSET Releases]
      BY DEF Kept
    <3>2. With(related[k][to], x, add) \in SUBSET Releases
      BY <2>3, <3>1 DEF With
    <3> QED
      BY <2>3, <3>1, <3>2
  <2>5. related' \in [Relations -> [Releases -> SUBSET Releases]]
    BY <2>2, <2>4 DEF Kept
  <2> QED
    BY <2>1, <2>5 DEF Kept
<1>8. CASE op = "acceptEULA" /\ x = q.args.object /\ Accept(x)
  BY <1>8 DEF Accept, Sound, OfTheRightKind, Kept
<1>9. CASE op = "read" /\ UNCHANGED serverVars
  BY <1>9 DEF serverVars, Kept
<1> QED
  BY <1>3, <1>4, <1>5, <1>6, <1>7, <1>8, <1>9 DEF Do

-----------------------------------------------------------------------------
(* Calls and their requests *)

LEMMA CallKeepsUnderway ==
  ASSUME Underway, NEW c \in Clients, Call(c)
  PROVE  Underway'
<1>1. /\ phase[c] = "idle" /\ made[c] < MaxCalls /\ made[c] + 1 \in 0 .. MaxCalls
      /\ made' = [made EXCEPT ![c] = made[c] + 1]
      /\ UNCHANGED <<answer, late>>
  BY CallIsSound, MaxCallsAssumption DEF Send, Begin, Underway
<1>2. /\ made' \in [Clients -> 0 .. MaxCalls]
      /\ \A q \in late :
           \E d \in Clients, n \in Nat :
             q.id = <<d, n>> /\ n < made'[d] /\ (phase'[d] # "idle" => n < made'[d] - 1)
  <2>1. made' \in [Clients -> 0 .. MaxCalls]
    BY <1>1 DEF Underway
  <2>2. ASSUME NEW q \in late
        PROVE  \E d \in Clients, n \in Nat :
                 q.id = <<d, n>> /\ n < made'[d] /\ (phase'[d] # "idle" => n < made'[d] - 1)
    <3>1. PICK d \in Clients, n \in Nat :
            q.id = <<d, n>> /\ n < made[d] /\ (phase[d] # "idle" => n < made[d] - 1)
      BY DEF Underway
    <3>2. d # c => phase'[d] = phase[d]
      BY CallIsSound DEF Send, Begin, Underway
    <3> QED
      BY <1>1, <3>1, <3>2, MaxCallsAssumption DEF Underway
  <2> QED
    BY <2>1, <2>2
<1>3. CASE \E q : Sound(q) /\ Send(c, q.args, q.body)
  <2>1. PICK q : Sound(q) /\ Send(c, q.args, q.body)
    BY <1>3
  <2> DEFINE p == [id |-> <<c, made[c]>>, args |-> q.args, body |-> q.body]
  <2>2. /\ phase' = [phase EXCEPT ![c] = "sent"]
        /\ request' = [request EXCEPT ![c] = p]
        /\ outcome' = [outcome EXCEPT ![c] = "none"]
    BY <2>1 DEF Send, Begin
  <2>3. Sound(p) /\ p.id = <<c, made[c]>> /\ p \in Requests
    <3>1. p \in Requests
      BY <2>1, MaxCallsAssumption DEF Sound, Requests, Underway
    <3>2. p.args = q.args /\ p.body = q.body /\ p.id = <<c, made[c]>>
      OBVIOUS
    <3>3. OfTheRightKind(p.args) /\ AsAsked(p)
      BY <2>1, <3>2 DEF Sound, AsAsked
    <3> QED
      BY <3>1, <3>2, <3>3 DEF Sound
  <2> HIDE DEF p
  <2>4. /\ phase' \in [Clients -> {"idle", "sent", "answered"}]
        /\ request' \in [Clients -> Requests \cup {Nothing}]
        /\ outcome' \in [Clients -> {"none", "nil", "error"}]
    BY <2>2, <2>3 DEF Underway
  <2>5. \A d \in Clients :
          phase'[d] # "idle" => Sound(request'[d]) /\ request'[d].id = <<d, made'[d] - 1>>
    <3> SUFFICES ASSUME NEW d \in Clients, phase'[d] # "idle"
                 PROVE  Sound(request'[d]) /\ request'[d].id = <<d, made'[d] - 1>>
      OBVIOUS
    <3>1. CASE d = c
      <4>1. request'[d] = p /\ made'[d] - 1 = made[c]
        BY <1>1, <2>2, <3>1, MaxCallsAssumption DEF Underway
      <4> QED
        BY <2>3, <3>1, <4>1
    <3>2. CASE d # c
      <4>1. request'[d] = request[d] /\ made'[d] = made[d] /\ phase'[d] = phase[d]
        BY <1>1, <2>2, <3>2 DEF Underway
      <4> QED
        BY <4>1 DEF Underway
    <3> QED
      BY <3>1, <3>2
  <2> QED
    BY <1>1, <1>2, <2>4, <2>5 DEF Underway
<1>4. CASE Begin(c, "idle", "error") /\ UNCHANGED request
  <2>1. /\ phase' = [phase EXCEPT ![c] = "idle"]
        /\ outcome' = [outcome EXCEPT ![c] = "error"]
        /\ UNCHANGED request
    BY <1>4 DEF Begin
  <2>2. \A d \in Clients :
          phase'[d] # "idle" => Sound(request'[d]) /\ request'[d].id = <<d, made'[d] - 1>>
    <3> SUFFICES ASSUME NEW d \in Clients, phase'[d] # "idle"
                 PROVE  Sound(request'[d]) /\ request'[d].id = <<d, made'[d] - 1>>
      OBVIOUS
    <3>1. d # c /\ request'[d] = request[d] /\ made'[d] = made[d] /\ phase'[d] = phase[d]
      BY <1>1, <2>1 DEF Underway
    <3> QED
      BY <3>1 DEF Underway
  <2> QED
    BY <1>1, <1>2, <2>1, <2>2 DEF Underway
<1> QED
  BY <1>3, <1>4, CallIsSound

LEMMA AnswerKeepsUnderway ==
  ASSUME Underway, NEW c \in Clients, NEW a \in Answers, Answer(c, a)
  PROVE  Underway'
<1>1. /\ phase[c] = "sent" /\ phase' = [phase EXCEPT ![c] = "answered"]
      /\ answer' = [answer EXCEPT ![c] = a]
      /\ UNCHANGED <<made, request, late, outcome>>
  BY DEF Answer
<1>2. \A d \in Clients : phase'[d] # "idle" <=> phase[d] # "idle"
  BY <1>1 DEF Underway
<1>3. /\ phase' \in [Clients -> {"idle", "sent", "answered"}]
      /\ answer' \in [Clients -> Answers \cup {Nothing}]
  BY <1>1 DEF Underway
<1> QED
  BY <1>1, <1>2, <1>3 DEF Underway

LEMMA EndKeepsUnderway ==
  ASSUME Underway, NEW c \in Clients, NEW o \in {"nil", "error"}, phase[c] # "idle", End(c, o),
         late' = late \/ late' = late \cup {request[c]}
  PROVE  Underway'
<1>1. /\ phase' = [phase EXCEPT ![c] = "idle"] /\ UNCHANGED made
      /\ request' = [request EXCEPT ![c] = Nothing]
      /\ answer' = [answer EXCEPT ![c] = Nothing]
      /\ outcome' = [outcome EXCEPT ![c] = o]
  BY DEF End
<1>2. /\ phase' \in [Clients -> {"idle", "sent", "answered"}]
      /\ request' \in [Clients -> Requests \cup {Nothing}]
      /\ answer' \in [Clients -> Answers \cup {Nothing}]
      /\ outcome' \in [Clients -> {"none", "nil", "error"}]
  BY <1>1 DEF Underway
<1>3. /\ phase'[c] = "idle"
      /\ \A d \in Clients \ {c} : phase'[d] = phase[d] /\ request'[d] = request[d]
  BY <1>1 DEF Underway
<1>4. \A d \in Clients :
        phase'[d] # "idle" => Sound(request'[d]) /\ request'[d].id = <<d, made'[d] - 1>>
  BY <1>1, <1>3 DEF Underway
<1>5. \A q \in late' :
        /\ Sound(q)
        /\ \E d \in Clients, n \in Nat :
             q.id = <<d, n>> /\ n < made'[d] /\ (phase'[d] # "idle" => n < made'[d] - 1)
  <2> SUFFICES ASSUME NEW q \in late'
               PROVE  /\ Sound(q)
                      /\ \E d \in Clients, n \in Nat :
                           q.id = <<d, n>> /\ n < made'[d] /\ (phase'[d] # "idle" => n < made'[d] - 1)
    OBVIOUS
  <2>1. CASE q \in late
    <3>1. PICK d \in Clients, n \in Nat :
            q.id = <<d, n>> /\ n < made[d] /\ (phase[d] # "idle" => n < made[d] - 1)
      BY <2>1 DEF Underway
    <3>2. phase'[d] # "idle" => phase[d] # "idle"
      BY <1>3
    <3> QED
      BY <1>1, <2>1, <3>1, <3>2 DEF Underway
  <2>2. CASE q = request[c]
    <3>1. Sound(q) /\ q.id = <<c, made[c] - 1>>
      BY <2>2 DEF Underway
    <3>2. made[c] \in Nat /\ made[c] - 1 \in Nat
      <4>1. q.id \in Clients \X Nat
        BY <3>1 DEF Sound, Requests
      <4> QED
        BY <3>1, <4>1, MaxCallsAssumption DEF Underway
    <3>3. made[c] - 1 < made'[c] /\ phase'[c] = "idle"
      BY <1>1, <1>3, <3>2
    <3> QED
      BY <3>1, <3>2, <3>3
  <2> QED
    BY <2>1, <2>2
<1> QED
  BY <1>1, <1>2, <1>4, <1>5 DEF Underway

\* No two requests that may yet take effect have the same identity.
LEMMA SentIsNoOther ==
  ASSUME Underway, NEW c \in Clients, phase[c] # "idle"
  PROVE  /\ request[c] \notin late
         /\ \A d \in Clients \ {c} : phase[d] # "idle" => request[d] # request[c]
<1>1. Sound(request[c]) /\ request[c].id = <<c, made[c] - 1>>
  BY DEF Underway
<1>2. \A d \in Clients \ {c} : phase[d] # "idle" => request[d].id = <<d, made[d] - 1>>
  BY DEF Underway
<1>3. ASSUME request[c] \in late
      PROVE  FALSE
  <2>1. PICK d \in Clients, n \in Nat :
          request[c].id = <<d, n>> /\ n < made[d] /\ (phase[d] # "idle" => n < made[d] - 1)
    BY <1>3 DEF Underway
  <2>2. d = c /\ n = made[c] - 1
    BY <1>1, <2>1
  <2> QED
    BY <2>1, <2>2
<1> QED
  BY <1>1, <1>2, <1>3

-----------------------------------------------------------------------------
(* Steps *)

\* The catalogue changes because a request that may yet take effect is done,
\* which then may no more.
LEMMA StepIsDone ==
  ASSUME IInv, [Next]_vars
  PROVE  \/ UNCHANGED serverVars
         \/ \E q \in OpenRequests, x \in Objects : Sound(q) /\ Do(q, x) /\ q \notin OpenRequests'
<1>1. ASSUME NEW c \in Clients, Process(c)
      PROVE  \E q \in OpenRequests, x \in Objects : Sound(q) /\ Do(q, x) /\ q \notin OpenRequests'
  <2>1. PICK q : q = request[c]
    OBVIOUS
  <2>0. PICK x \in Objects : Do(q, x)
    BY <1>1, <2>1 DEF Process
  <2>2. /\ phase[c] = "sent" /\ phase' = [phase EXCEPT ![c] = "answered"]
        /\ UNCHANGED <<request, late>>
    BY <1>1 DEF Process, Answer
  <2>3. q \in OpenRequests /\ Sound(q)
    BY <2>1, <2>2 DEF OpenRequests, IInv, Underway
  <2>4. q \notin OpenRequests'
    <3>1. phase'[c] = "answered" /\ \A d \in Clients \ {c} : phase'[d] = phase[d]
      BY <2>2 DEF IInv, Underway
    <3>2. q \notin late /\ \A d \in Clients \ {c} : phase[d] # "idle" => request[d] # q
      BY <2>1, <2>2, SentIsNoOther DEF IInv
    <3> QED
      BY <2>2, <3>1, <3>2 DEF OpenRequests
  <2> QED
    BY <2>0, <2>3, <2>4
<1>2. CASE ProcessLate
  <2>1. PICK q \in late, x \in Objects : Do(q, x) /\ late' = late \ {q}
    BY <1>2 DEF ProcessLate
  <2>2. UNCHANGED <<phase, request>>
    BY <1>2 DEF ProcessLate
  <2>3. \A d \in Clients : phase[d] = "sent" => request[d] # q
    BY SentIsNoOther DEF IInv
  <2>4. q \in OpenRequests /\ Sound(q) /\ q \notin OpenRequests'
    BY <2>1, <2>2, <2>3 DEF OpenRequests, IInv, Underway
  <2> QED
    BY <2>1, <2>4
<1>3. ASSUME NEW c \in Clients, Call(c) \/ Refuse(c) \/ ReturnFrom(c) \/ Fail(c)
      PROVE  UNCHANGED serverVars
  BY <1>3 DEF Call, Refuse, ReturnFrom, Fail
<1>4. CASE UNCHANGED vars
  BY <1>4 DEF vars
<1> QED
  BY <1>1, <1>2, <1>3, <1>4 DEF Next

LEMMA StepKeepsUnderway ==
  ASSUME IInv, Kept', [Next]_vars
  PROVE  Underway'
<1> USE DEF IInv
<1>1. ASSUME NEW c \in Clients, Process(c)
      PROVE  Underway'
  <2>1. Sound(request[c])
    BY <1>1 DEF Process, Underway
  <2> DEFINE op == request[c].args.op
  <2>2. PICK x \in Objects, readable \in {TRUE, ~Decodes(op)} :
          /\ Do(request[c], x)
          /\ Answer(c, [status |-> Expected(op), readable |-> readable,
               release |-> IF op \in {"createRelease", "updateRelease"} THEN releases'[x] ELSE Nothing])
    BY <1>1 DEF Process
  <2>3. op \in Operations
    BY <2>1 DEF Sound, Requests, Arguments
  <2>4. Expected(op) \in {200, 201, 204, 404}
    BY <2>3 DEF Expected, Operations, CreateOps, UpdateOps, DeleteOps, AttachOps, RelateOps
  <2>5. op \in {"createRelease", "updateRelease"} => x \in Releases
    BY <2>1, <2>2 DEF Do, CreatedBy, Sound, OfTheRightKind, CreateOps, UpdateOps, DeleteOps, AttachOps, RelateOps
  <2>6. PICK r : r = IF op \in {"createRelease", "updateRelease"} THEN releases'[x] ELSE Nothing
    OBVIOUS
  <2>7. r \in Release \cup {Nothing}
    BY <2>5, <2>6 DEF Kept
  <2>8. PICK a : a = [status |-> Expected(op), readable |-> readable, release |-> r]
    OBVIOUS
  <2>9. a \in Answers /\ Answer(c, a)
    BY <2>2, <2>4, <2>6, <2>7, <2>8 DEF Answers, Decodes
  <2> QED
    BY <2>9, AnswerKeepsUnderway
<1>2. ASSUME NEW c \in Clients, Refuse(c)
      PROVE  Underway'
  <2>1. [status |-> 404, readable |-> TRUE, release |-> Nothing] \in Answers
    BY DEF Answers
  <2> QED
    BY <1>2, <2>1, AnswerKeepsUnderway DEF Refuse
<1>3. ASSUME NEW c \in Clients, ReturnFrom(c) \/ Fail(c)
      PROVE  Underway'
  <2>1. PICK o \in {"nil", "error"} : End(c, o)
    BY <1>3 DEF ReturnFrom, Return, Fail, GiveUp
  <2>2. phase[c] # "idle" /\ (late' = late \/ late' = late \cup {request[c]})
    BY <1>3 DEF ReturnFrom, Return, Fail, GiveUp
  <2> QED
    BY <2>1, <2>2, EndKeepsUnderway
<1>4. CASE ProcessLate
  <2>1. late' \subseteq late /\ UNCHANGED <<made, phase, request, answer, outcome>>
    BY <1>4 DEF ProcessLate
  <2> QED
    BY <2>1 DEF Underway
<1>5. CASE UNCHANGED vars
  BY <1>5 DEF vars, exchangeVars, Underway
<1> QED
  BY <1>1, <1>2, <1>3, <1>4, <1>5, CallKeepsUnderway DEF Next

LEMMA InitIInv == Init => IInv
<1> SUFFICES ASSUME Init PROVE IInv
  OBVIOUS
<1>1. Underway
  BY MaxCallsAssumption DEF Init, ExchangeInit, Underway
<1>2. PICK S \in Existing : life = [x \in Objects |-> IF x \in S THEN "alive" ELSE "unborn"]
  BY DEF Init
<1>3. PICK attach \in BOOLEAN :
        LET here(T) == IF attach THEN {x \in T : life[x] = "alive"} ELSE {} IN
        /\ inGroup = [g \in FileGroups |-> IF g \in here(FileGroups) THEN here(Files) ELSE {}]
        /\ inRelease = [r \in Releases |->
             IF r \in here(Releases) THEN here(Files \cup FileGroups) ELSE {}]
        /\ related = [k \in Relations |-> [r \in Releases |->
             IF r \in here(Releases) THEN here(Releases) \ {r} ELSE {}]]
  BY DEF Init
<1>4. /\ life \in [Objects -> {"unborn", "alive", "deleted"}]
      /\ keys \in [Files -> Keys \ {Empty}]
      /\ accepted \subseteq Releases
  BY <1>2 DEF Init
<1>5. PICK R \in SUBSET Release : /\ releases \in [Releases -> R]
                                  /\ \A release \in R : release.availability = "Admins Only"
  <2> DEFINE R == {InitialRelease, [InitialRelease EXCEPT !.controlled = TRUE]}
  <2>1. R \in SUBSET Release /\ \A release \in R : release.availability = "Admins Only"
    <3>1. InitialRelease \in Release /\ InitialRelease.availability = "Admins Only"
      BY DEF InitialRelease, Release, Availabilities, Compliances
    <3>2. PICK release : release = [InitialRelease EXCEPT !.controlled = TRUE]
      OBVIOUS
    <3>3. release \in Release /\ release.availability = "Admins Only"
      BY <3>1, <3>2 DEF Release
    <3> QED
      BY <3>1, <3>2, <3>3
  <2> HIDE DEF R
  <2>2. releases \in [Releases -> R]
    BY Zenon DEF Init, R
  <2> QED
    BY <2>1, <2>2
<1>6. /\ releases \in [Releases -> Release]
      /\ \A r \in Releases : releases[r].availability = "Admins Only"
  BY <1>5
<1>7. /\ inGroup \in [FileGroups -> SUBSET Files]
      /\ inRelease \in [Releases -> SUBSET (Files \cup FileGroups \cup Specifiers)]
      /\ related \in [Relations -> [Releases -> SUBSET Releases]]
  <2>1. inGroup \in [FileGroups -> SUBSET Files]
    BY <1>3
  <2>2. inRelease \in [Releases -> SUBSET (Files \cup FileGroups \cup Specifiers)]
    BY <1>3
  <2>3. related \in [Relations -> [Releases -> SUBSET Releases]]
    BY <1>3
  <2> QED
    BY <2>1, <2>2, <2>3
<1>8. \A s \in Specifiers, r \in Releases : s \notin inRelease[r]
  BY <1>3, KindsAssumption
<1> QED
  BY <1>1, <1>4, <1>6, <1>7, <1>8 DEF IInv, Kept

LEMMA StepKeepsIInv ==
  ASSUME IInv, [Next]_vars
  PROVE  IInv'
<1>1. Kept'
  <2>1. CASE UNCHANGED serverVars
    BY <2>1 DEF IInv, serverVars, Kept
  <2>2. CASE \E q \in OpenRequests, x \in Objects : Sound(q) /\ Do(q, x)
    BY <2>2, DoKeepsKept DEF IInv
  <2> QED
    BY <2>1, <2>2, StepIsDone
<1> QED
  BY <1>1, StepKeepsUnderway DEF IInv

LEMMA Invariance == Spec => []IInv
BY InitIInv, StepKeepsIInv, PTL DEF Spec

\* The catalogue, the requests and the answers keep their types, whatever the
\* clients ask for and however late their requests arrive.
THEOREM TypeCorrect == Spec => []TypeOK
BY Invariance, InvIsTyped, PTL

-----------------------------------------------------------------------------
(* What a step may change, and because of which call *)

\* A file keeps the key it was created with, whatever is passed to Update.
THEOREM KeysStayFixed == Spec => KeysAreFixed
<1>1. ASSUME IInv, [Next]_vars, NEW f \in Files, life[f] # "unborn"
      PROVE  keys'[f] = keys[f]
  <2>1. CASE UNCHANGED serverVars
    BY <2>1 DEF serverVars
  <2>2. ASSUME NEW q, Sound(q), NEW x \in Objects, Do(q, x)
        PROVE  keys'[f] = keys[f]
    <3> USE <2>2
    <3>1. CASE q.args.op \in CreateOps /\ Created(q, x)
      BY <1>1, <3>1 DEF Created, IInv, Kept
    <3>2. CASE q.args.op \in UpdateOps /\ Updated(q, x)
      <4>1. q.body.key = Nothing
        BY <3>2 DEF Sound, AsAsked, UpdateOps
      <4> QED
        BY <1>1, <3>2, <4>1 DEF Updated, Field, IInv, Kept
    <3>3. CASE Deleted(q, x) \/ Attached(q.args.op, x, q.args.to) \/ Related(q.args.op, x, q.args.to) \/ Accept(x)
      BY <3>3 DEF Deleted, Attached, Related, Accept
    <3>4. CASE UNCHANGED serverVars
      BY <3>4 DEF serverVars
    <3> QED
      BY <3>1, <3>2, <3>3, <3>4 DEF Do
  <2> QED
    BY <1>1, <2>1, <2>2, StepIsDone
<1>2. IInv /\ [Next]_vars => [\A f \in Files : life[f] # "unborn" => keys'[f] = keys[f]]_vars
  BY <1>1
<1> QED
  BY Invariance, <1>2, PTL DEF Spec, KeysAreFixed

\* What a step does to a release.
LEMMA ReleaseChanges ==
  ASSUME IInv, [Next]_vars, NEW r \in Releases, releases'[r] # releases[r]
  PROVE  \E q \in OpenRequests :
           /\ Sound(q)
           /\ \/ /\ q.args.op = "createRelease" /\ life[r] = "unborn"
                 /\ releases'[r] = Patched(InitialRelease, q.body)
              \/ /\ q.args.op = "updateRelease" /\ q.args.object = r
                 /\ releases'[r] = Patched(releases[r], q.body)
<1>1. PICK q \in OpenRequests, x \in Objects : Sound(q) /\ Do(q, x)
  BY StepIsDone DEF serverVars
<1>2. q.args.op \in CreateOps /\ x \in CreatedBy(q.args.op) /\ Created(q, x) =>
        /\ q.args.op = "createRelease" /\ life[r] = "unborn"
        /\ releases'[r] = Patched(InitialRelease, q.body)
  <2> SUFFICES ASSUME q.args.op \in CreateOps, x \in CreatedBy(q.args.op), Created(q, x)
               PROVE  /\ q.args.op = "createRelease" /\ life[r] = "unborn"
                      /\ releases'[r] = Patched(InitialRelease, q.body)
    OBVIOUS
  <2>1. r = x /\ life[x] = "unborn"
    BY DEF Created, IInv, Kept
  <2>2. q.args.op = "createRelease"
    BY <2>1, KindsAssumption DEF CreateOps, CreatedBy, Specifiers
  <2> QED
    BY <2>1, <2>2 DEF Created, IInv, Kept
<1>3. q.args.op \in UpdateOps /\ x = q.args.object /\ Updated(q, x) =>
        /\ q.args.op = "updateRelease" /\ q.args.object = r
        /\ releases'[r] = Patched(releases[r], q.body)
  <2> SUFFICES ASSUME q.args.op \in UpdateOps, x = q.args.object, Updated(q, x)
               PROVE  /\ q.args.op = "updateRelease" /\ q.args.object = r
                      /\ releases'[r] = Patched(releases[r], q.body)
    OBVIOUS
  <2>1. r = x
    BY DEF Updated, IInv, Kept
  <2>2. q.args.op = "updateRelease"
    BY <1>1, <2>1, KindsAssumption DEF UpdateOps, Sound, OfTheRightKind
  <2> QED
    BY <2>1, <2>2 DEF Updated, IInv, Kept
<1>4. ~(Deleted(q, x) \/ Attached(q.args.op, x, q.args.to) \/ Related(q.args.op, x, q.args.to)
        \/ Accept(x) \/ UNCHANGED serverVars)
  BY DEF Deleted, Attached, Related, Accept, serverVars
<1> QED
  BY <1>1, <1>2, <1>3, <1>4 DEF Do

\* Late updates of other fields, updates without an availability and new
\* releases never publish or hide a release.
THEOREM AvailabilityChangesAsAsked == Spec => AvailabilityOnlyAsAsked
<1>1. ASSUME IInv, [Next]_vars, NEW r \in Releases, releases'[r].availability # releases[r].availability
      PROVE  \E a \in Open :
               /\ a.op = "updateRelease" /\ a.object = r
               /\ a.release.availability = releases'[r].availability
  <2>1. PICK q \in OpenRequests :
          /\ Sound(q)
          /\ \/ /\ q.args.op = "createRelease" /\ life[r] = "unborn"
                /\ releases'[r] = Patched(InitialRelease, q.body)
             \/ /\ q.args.op = "updateRelease" /\ q.args.object = r
                /\ releases'[r] = Patched(releases[r], q.body)
    BY <1>1, ReleaseChanges
  <2>2. q.args.op # "createRelease"
    <3> SUFFICES ASSUME q.args.op = "createRelease"
                 PROVE  FALSE
      OBVIOUS
    <3>1. q.body.availability = "Admins Only"
      BY <2>1 DEF Sound, AsAsked
    <3>2. releases'[r] = Patched(InitialRelease, q.body) /\ life[r] = "unborn"
      BY <2>1
    <3>3. releases'[r].availability = "Admins Only"
      <4>1. Patched(InitialRelease, q.body).availability
              = Field(q.body.availability, InitialRelease.availability)
        BY DEF Patched
      <4> QED
        BY <3>1, <3>2, <4>1 DEF Field, InitialRelease
    <3>4. releases[r].availability = "Admins Only"
      BY <1>1, <3>2 DEF IInv, Kept
    <3> QED
      BY <1>1, <3>3, <3>4
  <2>3. releases'[r].availability = q.args.release.availability
    <3>1. q.body.availability \in {q.args.release.availability, Nothing}
      BY <2>1, <2>2 DEF Sound, AsAsked, OmitEmpty
    <3>2. releases'[r].availability = Field(q.body.availability, releases[r].availability)
      BY <2>1, <2>2 DEF Patched
    <3> QED
      BY <1>1, <3>1, <3>2 DEF Field
  <2> QED
    BY <2>1, <2>2, <2>3 DEF Open
<1>2. IInv /\ [Next]_vars =>
        [\A r \in Releases :
           releases'[r].availability # releases[r].availability =>
             \E a \in Open :
               /\ a.op = "updateRelease" /\ a.object = r
               /\ a.release.availability = releases'[r].availability]_vars
  BY <1>1
<1> QED
  BY Invariance, <1>2, PTL DEF Spec, AvailabilityOnlyAsAsked

\* No copy that was read before a release was confirmed takes that back.
THEOREM ConfirmedForGood == Spec => StaysConfirmed
<1>1. ASSUME IInv, [Next]_vars, NEW r \in Releases, life[r] = "alive", releases[r].compliance = "confirm"
      PROVE  releases'[r].compliance = "confirm"
  <2>1. CASE releases'[r] # releases[r]
    <3>1. PICK q \in OpenRequests : Sound(q) /\ releases'[r] = Patched(releases[r], q.body)
      BY <1>1, <2>1, ReleaseChanges
    <3>2. q.body.compliance \in {"confirm", Nothing}
      BY <3>1 DEF Sound, Requests, Bodies
    <3> QED
      BY <1>1, <3>1, <3>2 DEF Patched, Field
  <2> QED
    BY <1>1, <2>1
<1>2. IInv /\ [Next]_vars =>
        [\A r \in Releases :
           (life[r] = "alive" /\ releases[r].compliance = "confirm") =>
             releases'[r].compliance = "confirm"]_vars
  BY <1>1
<1> QED
  BY Invariance, <1>2, PTL DEF Spec, StaysConfirmed

\* What joins or leaves a group.
LEMMA GroupChanges ==
  ASSUME IInv, NEW q \in OpenRequests, Sound(q), NEW x \in Objects, Do(q, x),
         NEW g \in FileGroups, NEW f \in Files
  PROVE  /\ f \in inGroup'[g] \ inGroup[g] => AskedFor({"addToGroup"}, f, g)
         /\ f \in inGroup[g] \ inGroup'[g] =>
              AskedFor({"removeFromGroup", "deleteFile", "deleteGroup"}, f, g)
<1> DEFINE op == q.args.op
<1>1. q.args \in Open
  BY DEF Open
<1>2. inGroup \in [FileGroups -> SUBSET Files]
  BY DEF IInv, Kept
<1>3. CASE op \in UpdateOps /\ Updated(q, x)
  <2>1. inGroup' = inGroup
    BY <1>2, <1>3 DEF Updated, Field, Sound, AsAsked
  <2> QED
    BY <2>1
<1>4. CASE op \in DeleteOps /\ x = q.args.object /\ Deleted(q, x)
  <2>1. inGroup'[g] = IF g = x THEN {} ELSE inGroup[g] \ {x}
    BY <1>4 DEF Deleted
  <2>2. CASE x = f
    <3>1. op = "deleteFile" /\ q.args.to = Nothing
      BY <1>4, <2>2, KindsAssumption DEF Sound, OfTheRightKind, DeleteOps
    <3> QED
      BY <1>1, <1>4, <2>1, <2>2, <3>1, KindsAssumption DEF AskedFor
  <2>3. CASE x = g
    <3>1. op = "deleteGroup" /\ q.args.to = Nothing
      BY <1>4, <2>3, KindsAssumption DEF Sound, OfTheRightKind, DeleteOps
    <3> QED
      BY <1>1, <1>4, <2>1, <2>3, <3>1 DEF AskedFor
  <2> QED
    BY <2>1, <2>2, <2>3
<1>5. CASE op \in AttachOps /\ x = q.args.object /\ Attached(op, x, q.args.to)
  <2>1. CASE op \in {"addToGroup", "removeFromGroup"}
    <3>1. inGroup' = [inGroup EXCEPT ![q.args.to] = With(inGroup[q.args.to], x, op = "addToGroup")]
      BY <1>5, <2>1 DEF Attached
    <3>2. g # q.args.to => inGroup'[g] = inGroup[g]
      BY <1>2, <3>1
    <3>3. g = q.args.to => inGroup'[g] = With(inGroup[g], x, op = "addToGroup")
      BY <1>2, <3>1
    <3> QED
      BY <1>1, <1>5, <2>1, <3>2, <3>3 DEF With, AskedFor
  <2>2. CASE op \notin {"addToGroup", "removeFromGroup"}
    BY <1>5, <2>2 DEF Attached
  <2> QED
    BY <2>1, <2>2
<1>6. CASE Created(q, x) \/ Related(op, x, q.args.to) \/ Accept(x) \/ UNCHANGED serverVars
  BY <1>6 DEF Created, Related, Accept, serverVars
<1> QED
  BY <1>3, <1>4, <1>5, <1>6 DEF Do

\* Updates of a group from copies that know of other files do not disturb it.
THEOREM GroupsChangeAsAsked == Spec => GroupFilesChangeOnlyWhenAsked
<1>1. ASSUME IInv, [Next]_vars, NEW g \in FileGroups, NEW f \in Files
      PROVE  /\ f \in inGroup'[g] \ inGroup[g] => AskedFor({"addToGroup"}, f, g)
             /\ f \in inGroup[g] \ inGroup'[g] =>
                  AskedFor({"removeFromGroup", "deleteFile", "deleteGroup"}, f, g)
  <2>1. CASE UNCHANGED serverVars
    BY <2>1 DEF serverVars
  <2>2. CASE \E q \in OpenRequests, x \in Objects : Sound(q) /\ Do(q, x)
    BY <1>1, <2>2, GroupChanges
  <2> QED
    BY <1>1, <2>1, <2>2, StepIsDone
<1>2. IInv /\ [Next]_vars =>
        [\A g \in FileGroups, f \in Files :
           /\ f \in inGroup'[g] \ inGroup[g] => AskedFor({"addToGroup"}, f, g)
           /\ f \in inGroup[g] \ inGroup'[g] =>
                AskedFor({"removeFromGroup", "deleteFile", "deleteGroup"}, f, g)]_vars
  BY <1>1
<1> QED
  BY Invariance, <1>2, PTL DEF Spec, GroupFilesChangeOnlyWhenAsked

\* No request is sent but that of a new call.
LEMMA NewRequestIsOfNewCall ==
  ASSUME IInv, [Next]_vars, NEW q \in OpenRequests' \ OpenRequests
  PROVE  \E c \in Clients : q.id = <<c, made[c]>> /\ made'[c] = made[c] + 1
<1> USE DEF IInv
<1>1. ASSUME NEW c \in Clients, Call(c)
      PROVE  q.id = <<c, made[c]>> /\ made'[c] = made[c] + 1
  <2>1. CASE \E p : Sound(p) /\ Send(c, p.args, p.body)
    <3>1. PICK p : Send(c, p.args, p.body)
      BY <2>1
    <3>2. PICK new : new = [id |-> <<c, made[c]>>, args |-> p.args, body |-> p.body]
      OBVIOUS
    <3>3. /\ phase' = [phase EXCEPT ![c] = "sent"] /\ request' = [request EXCEPT ![c] = new]
          /\ made' = [made EXCEPT ![c] = made[c] + 1] /\ late' = late
      BY <3>1, <3>2 DEF Send, Begin
    <3>4. OpenRequests' \subseteq OpenRequests \cup {new}
      BY <3>3 DEF OpenRequests, Underway
    <3>5. q = new
      BY <3>4
    <3> QED
      BY <3>2, <3>3, <3>5 DEF Underway
  <2>2. CASE Begin(c, "idle", "error") /\ UNCHANGED request
    <3>1. phase' = [phase EXCEPT ![c] = "idle"] /\ UNCHANGED <<request, late>>
      BY <2>2 DEF Begin
    <3>2. OpenRequests' \subseteq OpenRequests
      BY <3>1 DEF OpenRequests, Underway
    <3> QED
      BY <3>2
  <2> QED
    BY <1>1, <2>1, <2>2, CallIsSound
<1>2. ASSUME NEW c \in Clients, Process(c) \/ Refuse(c)
      PROVE  OpenRequests' \subseteq OpenRequests
  <2>1. phase' = [phase EXCEPT ![c] = "answered"] /\ UNCHANGED <<request, late>>
    BY <1>2 DEF Process, Refuse, Answer
  <2> QED
    BY <2>1 DEF OpenRequests, Underway
<1>3. ASSUME NEW c \in Clients, ReturnFrom(c) \/ Fail(c)
      PROVE  OpenRequests' \subseteq OpenRequests
  <2>1. /\ phase' = [phase EXCEPT ![c] = "idle"] /\ request' = [request EXCEPT ![c] = Nothing]
        /\ late' = late \/ (phase[c] = "sent" /\ late' = late \cup {request[c]})
    BY <1>3 DEF ReturnFrom, Return, Fail, GiveUp, End
  <2>2. \A d \in Clients : phase'[d] = "sent" => phase[d] = "sent" /\ request'[d] = request[d]
    BY <2>1 DEF Underway
  <2> QED
    BY <2>1, <2>2 DEF OpenRequests
<1>4. CASE ProcessLate \/ UNCHANGED vars
  <2>1. UNCHANGED <<phase, request>> /\ late' \subseteq late
    BY <1>4 DEF ProcessLate, vars, exchangeVars
  <2> QED
    BY <2>1 DEF OpenRequests
<1> QED
  BY <1>1, <1>2, <1>3, <1>4 DEF Next

\* A call is carried out at most once, however late, and nothing is sent again.
THEOREM CallsActOnce == Spec => OneEffectPerCall
<1>1. IInv /\ [Next]_vars => (serverVars' # serverVars => OpenRequests \ OpenRequests' # {})
  BY StepIsDone
<1>2. IInv /\ [Next]_vars =>
        \A q \in OpenRequests' \ OpenRequests :
          \E c \in Clients : q.id = <<c, made[c]>> /\ made'[c] = made[c] + 1
  BY NewRequestIsOfNewCall
<1>3. IInv /\ [Next]_vars =>
        [/\ serverVars' # serverVars => OpenRequests \ OpenRequests' # {}
         /\ \A q \in OpenRequests' \ OpenRequests :
              \E c \in Clients : q.id = <<c, made[c]>> /\ made'[c] = made[c] + 1]_vars
  BY <1>1, <1>2
<1> QED
  BY Invariance, <1>3, PTL DEF Spec, OneEffectPerCall

\* What a step does to the relations of a release.
LEMMA RelatedChanges ==
  ASSUME IInv, NEW q \in OpenRequests, Sound(q), NEW x \in Objects, Do(q, x),
         NEW r \in Releases, NEW s \in Releases
  PROVE  /\ s \in related'["dependency"][r] \ related["dependency"][r] => AskedFor({"addDependency"}, s, r)
         /\ s \in related["dependency"][r] \ related'["dependency"][r] =>
              AskedFor({"removeDependency", "deleteRelease"}, s, r)
         /\ s \in related'["upgradePath"][r] \ related["upgradePath"][r] => AskedFor({"addUpgradePath"}, s, r)
         /\ s \in related["upgradePath"][r] \ related'["upgradePath"][r] =>
              AskedFor({"removeUpgradePath", "deleteRelease"}, s, r)
<1> DEFINE op == q.args.op
           to == q.args.to
<1>1. q.args \in Open
  BY DEF Open
<1>2. related \in [Relations -> [Releases -> SUBSET Releases]]
  BY DEF IInv, Kept
<1>3. CASE op \in DeleteOps /\ x = q.args.object /\ Deleted(q, x)
  <2>1. \A k \in Relations : related'[k][r] = IF r = x THEN {} ELSE related[k][r] \ {x}
    BY <1>3 DEF Deleted
  <2>2. CASE x = r \/ x = s
    <3>1. op = "deleteRelease" /\ q.args.to = Nothing
      BY <1>3, <2>2, KindsAssumption DEF Sound, OfTheRightKind, DeleteOps
    <3> QED
      BY <1>1, <1>3, <2>1, <2>2, <3>1 DEF AskedFor, Relations
  <2>3. CASE x # r /\ x # s
    BY <2>1, <2>3 DEF Relations
  <2> QED
    BY <2>2, <2>3
<1>4. CASE op \in RelateOps /\ x = q.body.other /\ Related(op, x, to)
  <2>1. x = q.args.object /\ to \in Releases
    BY <1>4 DEF Sound, AsAsked, OfTheRightKind
  <2>2. ASSUME NEW k \in Relations, NEW add \in BOOLEAN,
               related' = [related EXCEPT ![k] = [related[k] EXCEPT ![to] = With(related[k][to], x, add)]]
        PROVE  /\ \A j \in Relations : j # k \/ r # to => related'[j][r] = related[j][r]
               /\ r = to => related'[k][r] = With(related[k][r], x, add)
    BY <1>2, <2>1, <2>2
  <2>3. CASE op = "addDependency"
    <3>1. related' = [related EXCEPT !["dependency"] =
            [related["dependency"] EXCEPT ![to] = With(related["dependency"][to], x, TRUE)]]
      BY <1>4, <2>3 DEF Related
    <3>2. /\ \A j \in Relations : j # "dependency" \/ r # to => related'[j][r] = related[j][r]
          /\ r = to => related'["dependency"][r] = With(related["dependency"][r], x, TRUE)
      BY <2>2, <3>1 DEF Relations
    <3> QED
      BY <1>1, <2>1, <2>3, <3>2 DEF With, AskedFor, Relations
  <2>4. CASE op = "removeDependency"
    <3>1. related' = [related EXCEPT !["dependency"] =
            [related["dependency"] EXCEPT ![to] = With(related["dependency"][to], x, FALSE)]]
      BY <1>4, <2>4 DEF Related, With
    <3>2. /\ \A j \in Relations : j # "dependency" \/ r # to => related'[j][r] = related[j][r]
          /\ r = to => related'["dependency"][r] = With(related["dependency"][r], x, FALSE)
      BY <2>2, <3>1 DEF Relations
    <3> QED
      BY <1>1, <2>1, <2>4, <3>2 DEF With, AskedFor, Relations
  <2>5. CASE op = "addUpgradePath"
    <3>1. related' = [related EXCEPT !["upgradePath"] =
            [related["upgradePath"] EXCEPT ![to] = With(related["upgradePath"][to], x, TRUE)]]
      BY <1>4, <2>5 DEF Related
    <3>2. /\ \A j \in Relations : j # "upgradePath" \/ r # to => related'[j][r] = related[j][r]
          /\ r = to => related'["upgradePath"][r] = With(related["upgradePath"][r], x, TRUE)
      BY <2>2, <3>1 DEF Relations
    <3> QED
      BY <1>1, <2>1, <2>5, <3>2 DEF With, AskedFor, Relations
  <2>6. CASE op = "removeUpgradePath"
    <3>1. related' = [related EXCEPT !["upgradePath"] =
            [related["upgradePath"] EXCEPT ![to] = With(related["upgradePath"][to], x, FALSE)]]
      BY <1>4, <2>6 DEF Related, With
    <3>2. /\ \A j \in Relations : j # "upgradePath" \/ r # to => related'[j][r] = related[j][r]
          /\ r = to => related'["upgradePath"][r] = With(related["upgradePath"][r], x, FALSE)
      BY <2>2, <3>1 DEF Relations
    <3> QED
      BY <1>1, <2>1, <2>6, <3>2 DEF With, AskedFor, Relations
  <2> QED
    BY <1>4, <2>3, <2>4, <2>5, <2>6 DEF RelateOps
<1>5. CASE Created(q, x) \/ Updated(q, x) \/ Attached(op, x, to) \/ Accept(x) \/ UNCHANGED serverVars
  BY <1>5 DEF Created, Updated, Attached, Accept, serverVars
<1> QED
  BY <1>3, <1>4, <1>5 DEF Do

\* What a step attaches to a release or detaches from it.
LEMMA AttachedChanges ==
  ASSUME IInv, NEW q \in OpenRequests, Sound(q), NEW x \in Objects, Do(q, x),
         NEW r \in Releases, NEW y
  PROVE  /\ y \in inRelease'[r] \ inRelease[r] =>
              \/ AskedFor({"addToRelease"}, y, r)
              \/ \E a \in Open : a.op \in CreateOps /\ y \in CreatedBy(a.op) /\ a.to = r
         /\ y \in inRelease[r] \ inRelease'[r] =>
              AskedFor({"removeFromRelease"} \cup DeleteOps, y, r)
<1> DEFINE op == q.args.op
           to == q.args.to
<1>1. q.args \in Open
  BY DEF Open
<1>2. inRelease \in [Releases -> SUBSET (Files \cup FileGroups \cup Specifiers)]
  BY DEF IInv, Kept
<1>3. CASE op \in CreateOps /\ x \in CreatedBy(op) /\ Created(q, x)
  <2>1. inRelease'[r] = IF x \in Specifiers /\ r = to THEN inRelease[r] \cup {x} ELSE inRelease[r]
    BY <1>3 DEF Created
  <2> QED
    BY <1>1, <1>3, <2>1
<1>4. CASE op \in DeleteOps /\ x = q.args.object /\ Deleted(q, x)
  <2>1. inRelease'[r] = IF r = x THEN {} ELSE inRelease[r] \ {x}
    BY <1>4 DEF Deleted
  <2>2. y \notin inRelease'[r] \ inRelease[r]
    BY <2>1
  <2>3. CASE x = r
    <3>1. to = Nothing
      BY <1>4, <2>3, KindsAssumption DEF Sound, OfTheRightKind, DeleteOps
    <3> QED
      BY <1>1, <1>4, <2>2, <2>3, <3>1 DEF AskedFor
  <2>4. CASE x # r
    <3> SUFFICES ASSUME y \in inRelease[r] \ inRelease'[r]
                 PROVE  AskedFor({"removeFromRelease"} \cup DeleteOps, y, r)
      BY <2>2
    <3>1. y = x /\ x \in inRelease[r]
      BY <2>1, <2>4
    <3>2. to = r \/ to = Nothing
      <4>1. CASE op = "deleteSpecifier"
        <5>1. x \in Specifiers /\ to \in Releases /\ x \in inRelease[to]
          BY <1>4, <4>1 DEF Deleted, Sound, OfTheRightKind
        <5> QED
          BY <3>1, <5>1 DEF IInv, Kept
      <4>2. CASE op # "deleteSpecifier"
        BY <1>4, <4>2 DEF Sound, OfTheRightKind, DeleteOps
      <4> QED
        BY <4>1, <4>2
    <3> QED
      BY <1>1, <1>4, <3>1, <3>2 DEF AskedFor
  <2> QED
    BY <2>3, <2>4
<1>5. CASE op \in AttachOps /\ x = q.args.object /\ Attached(op, x, to)
  <2>1. CASE op \in {"addToRelease", "removeFromRelease"}
    <3>1. inRelease' = [inRelease EXCEPT ![to] = With(inRelease[to], x, op = "addToRelease")]
      BY <1>5, <2>1 DEF Attached
    <3>2. r # to => inRelease'[r] = inRelease[r]
      BY <1>2, <3>1
    <3>3. r = to => inRelease'[r] = With(inRelease[r], x, op = "addToRelease")
      BY <1>2, <3>1
    <3> QED
      BY <1>1, <1>5, <2>1, <3>2, <3>3 DEF With, AskedFor
  <2>2. CASE op \notin {"addToRelease", "removeFromRelease"}
    BY <1>5, <2>2 DEF Attached
  <2> QED
    BY <2>1, <2>2
<1>6. CASE Updated(q, x) \/ Related(op, x, to) \/ Accept(x) \/ UNCHANGED serverVars
  BY <1>6 DEF Updated, Related, Accept, serverVars
<1> QED
  BY <1>3, <1>4, <1>5, <1>6 DEF Do

LEMMA AcceptedChanges ==
  ASSUME NEW q \in OpenRequests, NEW x \in Objects, Do(q, x), NEW r \in accepted' \ accepted
  PROVE  \E a \in Open : a.op = "acceptEULA" /\ a.object = r
<1>1. ~(Created(q, x) \/ Updated(q, x) \/ Deleted(q, x) \/ Attached(q.args.op, x, q.args.to)
        \/ Related(q.args.op, x, q.args.to) \/ UNCHANGED serverVars)
  BY DEF Created, Updated, Deleted, Attached, Related, serverVars
<1>2. q.args.op = "acceptEULA" /\ x = q.args.object /\ Accept(x)
  BY <1>1 DEF Do
<1> QED
  BY <1>2 DEF Accept, Open

\* Nothing is related, attached or accepted, or no longer so, but at a call's request.
THEOREM RelationsChangeAsAsked == Spec => RelationsChangeOnlyWhenAsked
<1> DEFINE
  AsAskedFor(r) ==
       /\ \A s \in Releases :
            /\ s \in related'["dependency"][r] \ related["dependency"][r] =>
                 AskedFor({"addDependency"}, s, r)
            /\ s \in related["dependency"][r] \ related'["dependency"][r] =>
                 AskedFor({"removeDependency", "deleteRelease"}, s, r)
            /\ s \in related'["upgradePath"][r] \ related["upgradePath"][r] =>
                 AskedFor({"addUpgradePath"}, s, r)
            /\ s \in related["upgradePath"][r] \ related'["upgradePath"][r] =>
                 AskedFor({"removeUpgradePath", "deleteRelease"}, s, r)
       /\ \A x \in inRelease'[r] \ inRelease[r] :
            \/ AskedFor({"addToRelease"}, x, r)
            \/ \E a \in Open : a.op \in CreateOps /\ x \in CreatedBy(a.op) /\ a.to = r
       /\ \A x \in inRelease[r] \ inRelease'[r] :
            AskedFor({"removeFromRelease"} \cup DeleteOps, x, r)
       /\ r \in accepted' \ accepted => \E a \in Open : a.op = "acceptEULA" /\ a.object = r
<1>1. ASSUME IInv, [Next]_vars, NEW r \in Releases
      PROVE  AsAskedFor(r)
  <2>1. CASE UNCHANGED serverVars
    BY <2>1 DEF serverVars
  <2>2. CASE \E q \in OpenRequests, x \in Objects : Sound(q) /\ Do(q, x)
    <3>1. PICK q \in OpenRequests, z \in Objects : Sound(q) /\ Do(q, z)
      BY <2>2
    <3> QED
      BY <1>1, <3>1, RelatedChanges, AttachedChanges, AcceptedChanges
  <2> QED
    BY <1>1, <2>1, <2>2, StepIsDone
<1>2. IInv /\ [Next]_vars => [\A r \in Releases : AsAskedFor(r)]_vars
  BY <1>1
<1> QED
  BY Invariance, <1>2, PTL DEF Spec, RelationsChangeOnlyWhenAsked

-----------------------------------------------------------------------------
(* What an Update's caller reads in the answer *)

\* A release as it is after an update shows what the update was asked to set.
LEMMA PatchedShows ==
  ASSUME NEW q, Sound(q), q.args.op = "updateRelease", NEW release
  PROVE  Shows(Patched(release, q.body), q.args.release)
<1>1. /\ q.args.release \in Submission
      /\ q.body.availability = OmitEmpty(q.args.release.availability, "")
      /\ q.body.controlled = OmitEmpty(q.args.release.controlled, FALSE)
  BY DEF Sound, AsAsked
<1>2. /\ Patched(release, q.body).availability = Field(q.body.availability, release.availability)
      /\ Patched(release, q.body).controlled = Field(q.body.controlled, release.controlled)
  BY DEF Patched
<1>3. Nothing \notin Availabilities /\ Nothing # TRUE
  BY FieldsAssumption, KeysAssumption
<1> QED
  BY <1>1, <1>2, <1>3 DEF OmitEmpty, Field, Submission, Shows

LEMMA StepKeepsSubmits ==
  ASSUME IInv, SubmitsWhatIsSet, [Next]_vars
  PROVE  SubmitsWhatIsSet'
<1> USE DEF SubmitsWhatIsSet
<1>0. /\ phase \in [Clients -> {"idle", "sent", "answered"}]
      /\ request \in [Clients -> Requests \cup {Nothing}]
      /\ answer \in [Clients -> Answers \cup {Nothing}]
  BY DEF IInv, Underway
<1>1. ASSUME NEW c \in Clients, Process(c)
      PROVE  SubmitsWhatIsSet'
  <2>1. PICK q : q = request[c]
    OBVIOUS
  <2>2. PICK x \in Objects, readable \in {TRUE, ~Decodes(q.args.op)} :
          /\ Do(q, x)
          /\ Answer(c, [status |-> Expected(q.args.op), readable |-> readable,
               release |-> IF q.args.op \in {"createRelease", "updateRelease"}
                           THEN releases'[x] ELSE Nothing])
    BY <1>1, <2>1 DEF Process
  <2>3. /\ phase[c] = "sent" /\ phase' = [phase EXCEPT ![c] = "answered"] /\ request' = request
        /\ \A d \in Clients \ {c} : answer'[d] = answer[d] /\ phase'[d] = phase[d]
        /\ answer'[c].release = IF q.args.op \in {"createRelease", "updateRelease"}
                                THEN releases'[x] ELSE Nothing
    BY <1>0, <2>2 DEF Answer
  <2>4. Sound(q)
    BY <2>1, <2>3 DEF IInv, Underway
  <2>5. CASE q.args.op = "updateRelease"
    <3>1. x = q.args.object /\ Updated(q, x)
      BY <2>2, <2>5 DEF Do, CreateOps, DeleteOps, AttachOps, RelateOps
    <3>2. x \in Releases
      BY <2>4, <2>5, <3>1 DEF Sound, OfTheRightKind
    <3>3. releases'[x] = Patched(releases[x], q.body)
      BY <3>1, <3>2 DEF Updated, IInv, Kept
    <3>4. answer'[c].release = Patched(releases[x], q.body)
      BY <2>3, <2>5, <3>3
    <3>5. Shows(answer'[c].release, q.args.release)
      BY <2>4, <2>5, <3>4, PatchedShows
    <3> QED
      BY <2>1, <2>3, <3>5
  <2> QED
    BY <2>1, <2>3, <2>5
<1>2. ASSUME NEW c \in Clients, Refuse(c)
      PROVE  SubmitsWhatIsSet'
  <2>1. /\ answer'[c].status = 404 /\ request' = request
        /\ \A d \in Clients \ {c} : answer'[d] = answer[d] /\ phase'[d] = phase[d]
    BY <1>0, <1>2 DEF Refuse, Answer
  <2> QED
    BY <2>1
<1>3. ASSUME NEW c \in Clients, Call(c) \/ ReturnFrom(c) \/ Fail(c)
      PROVE  SubmitsWhatIsSet'
  <2>1. /\ phase'[c] # "answered"
        /\ \A d \in Clients \ {c} :
             answer'[d] = answer[d] /\ phase'[d] = phase[d] /\ request'[d] = request[d]
    <3>1. CASE Call(c)
      BY <1>0, <3>1, CallIsSound DEF IInv, Send, Begin
    <3>2. CASE ReturnFrom(c) \/ Fail(c)
      BY <1>0, <3>2 DEF ReturnFrom, Return, Fail, GiveUp, End
    <3> QED
      BY <1>3, <3>1, <3>2
  <2> QED
    BY <2>1
<1>4. CASE ProcessLate \/ UNCHANGED vars
  BY <1>4 DEF ProcessLate, vars, exchangeVars
<1> QED
  BY <1>1, <1>2, <1>3, <1>4 DEF Next

\* The caller of Update reads in the answer the availability and the flag it has
\* set, among any number of clients and late requests.
THEOREM UpdatesSubmitWhatIsSet == Spec => []SubmitsWhatIsSet
<1>1. Init => SubmitsWhatIsSet
  BY DEF Init, ExchangeInit, SubmitsWhatIsSet
<1> QED
  BY Invariance, StepKeepsSubmits, <1>1, PTL DEF Spec

=============================================================================
