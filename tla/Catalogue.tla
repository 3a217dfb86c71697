----------------------------- MODULE Catalogue -----------------------------
(***************************************************************************)
(* The services that edit the catalogue of a product: its releases         *)
(* (releases.go), its files (product_files.go) and their groups            *)
(* (file_groups.go), what is attached to what, on which releases a release *)
(* depends and from which it may be upgraded (release_dependencies.go,     *)
(* release_upgrade_paths.go), the specifiers that say so for versions      *)
(* (dependency_specifiers.go, upgrade_path_specifiers.go), and the EULAs   *)
(* that are accepted (eulas.go).  Several clients of one account edit      *)
(* concurrently, from copies that may be old, and lose responses.  What a  *)
(* read gives the caller may pass to an update, so updates take copies of  *)
(* any content.  The server is external.                                   *)
(***************************************************************************)
EXTENDS Exchange

CONSTANTS
  Files, Releases, FileGroups,
  DependencySpecifiers, UpgradePathSpecifiers,  \* identities; the server issues none twice
  Existing, \* which objects may be there at the start: a set of sets of objects
  Keys,     \* object keys of files
  Empty     \* the empty string

ASSUME KeysAssumption == Empty \in Keys /\ Nothing \notin Keys /\ Nothing \notin BOOLEAN
ASSUME ExistingAssumption == Existing \subseteq SUBSET (Files \cup Releases \cup FileGroups)
ASSUME SetsAssumption == \A S \in SUBSET Files : S # Nothing

Specifiers == DependencySpecifiers \cup UpgradePathSpecifiers
Objects == Files \cup Releases \cup FileGroups \cup Specifiers

\* Objects of different kinds have different identities.
ASSUME KindsAssumption ==
         /\ Files \cap (Releases \cup FileGroups \cup Specifiers) = {}
         /\ Releases \cap (FileGroups \cup Specifiers) = {}
         /\ FileGroups \cap Specifiers = {}

\* "" is the availability of a Release whose caller does not give one.
Availabilities == {"", "Admins Only", "All Users"}
Compliances == {"", "confirm", "unconfirmed"}

\* A field that is not there is told from one that is the empty text.
ASSUME FieldsAssumption == Nothing \notin Availabilities \cup Compliances

VARIABLES
  life,        \* whether each file, release and group is unborn, alive or deleted
  keys,        \* the object key of each file
  releases,    \* each release as the server has it
  inGroup,     \* the files in each group
  inRelease,   \* the files, groups and specifiers attached to each release
  related,     \* the dependencies and the upgrade paths of each release
  accepted     \* the releases whose EULA has been accepted

serverVars == <<life, keys, releases, inGroup, inRelease, related, accepted>>
vars == <<serverVars, exchangeVars>>

Relations == {"dependency", "upgradePath"}
Submission == [availability : Availabilities, controlled : BOOLEAN]
Release == [availability : Availabilities, controlled : BOOLEAN, compliance : Compliances]

CreateOps ==
  {"createFile", "createRelease", "createGroup", "createDependencySpecifier",
   "createUpgradePathSpecifier"}
UpdateOps == {"updateFile", "updateRelease", "updateGroup"}
DeleteOps == {"deleteFile", "deleteRelease", "deleteGroup", "deleteSpecifier"}
AttachOps == {"addToGroup", "removeFromGroup", "addToRelease", "removeFromRelease"}
RelateOps == {"addDependency", "removeDependency", "addUpgradePath", "removeUpgradePath"}
Operations ==
  CreateOps \cup UpdateOps \cup DeleteOps \cup AttachOps \cup RelateOps \cup {"acceptEULA", "read"}

\* What the caller asks for: the object and what it is attached to, which the
\* URL or the body names, and what the Release it passes says of two fields, one
\* that is a text to the API and one that is a flag.
Arguments ==
  [op : Operations, object : Objects \cup {Nothing}, to : Objects \cup {Nothing},
   release : Submission \cup {Nothing}]

\* The fields of a request's body that a property is about; Nothing where the
\* body does not have one.
Bodies ==
  [key : Keys \cup {Nothing}, availability : Availabilities \cup {Nothing},
   controlled : {TRUE, Nothing}, compliance : {"confirm", Nothing},
   files : (SUBSET Files) \cup {Nothing}, other : Releases \cup {Nothing}]

Requests == [id : Clients \X Nat, args : Arguments, body : Bodies]

Answers ==
  [status : {200, 201, 204, 404}, readable : BOOLEAN, release : Release \cup {Nothing}]

TypeOK ==
  /\ made \in [Clients -> 0 .. MaxCalls]
  /\ phase \in [Clients -> {"idle", "sent", "answered"}]
  /\ request \in [Clients -> Requests \cup {Nothing}]
  /\ answer \in [Clients -> Answers \cup {Nothing}]
  /\ late \subseteq Requests
  /\ outcome \in [Clients -> {"none", "nil", "error"}]
  /\ life \in [Objects -> {"unborn", "alive", "deleted"}]
  /\ keys \in [Files -> Keys \ {Empty}]
  /\ releases \in [Releases -> Release]
  /\ inGroup \in [FileGroups -> SUBSET Files]
  /\ inRelease \in [Releases -> SUBSET (Files \cup FileGroups \cup Specifiers)]
  /\ related \in [Relations -> [Releases -> SUBSET Releases]]
  /\ accepted \subseteq Releases

InitialRelease == [availability |-> "Admins Only", controlled |-> FALSE, compliance |-> "unconfirmed"]

\* The catalogue as it is found: nothing is attached to anything, or everything.
Init ==
  /\ ExchangeInit
  /\ \E S \in Existing : life = [x \in Objects |-> IF x \in S THEN "alive" ELSE "unborn"]
  /\ keys \in [Files -> Keys \ {Empty}]
  /\ releases \in [Releases -> {InitialRelease, [InitialRelease EXCEPT !.controlled = TRUE]}]
  /\ \E attach \in BOOLEAN :
       LET here(S) == IF attach THEN {x \in S : life[x] = "alive"} ELSE {} IN
       /\ inGroup = [g \in FileGroups |-> IF g \in here(FileGroups) THEN here(Files) ELSE {}]
       /\ inRelease = [r \in Releases |->
            IF r \in here(Releases) THEN here(Files \cup FileGroups) ELSE {}]
       /\ related = [k \in Relations |-> [r \in Releases |->
            IF r \in here(Releases) THEN here(Releases) \ {r} ELSE {}]]
  /\ accepted = {}

-----------------------------------------------------------------------------
(* What the methods send *)

Asked(op, x) == [op |-> op, object |-> x, to |-> Nothing, release |-> Nothing]

NoFields ==
  [key |-> Nothing, availability |-> Nothing, controlled |-> Nothing,
   compliance |-> Nothing, files |-> Nothing, other |-> Nothing]

OmitEmpty(value, empty) == IF value = empty THEN Nothing ELSE value

(* Product files *)

\* Mutant: any key will do.
KeyGiven_Any(key) == key \in Keys

KeyGiven(key) == key # Empty

CreateFileBody(key) == [NoFields EXCEPT !.key = OmitEmpty(key, Empty)]

\* Mutant: the whole ProductFile is sent back.
UpdateFileBody_Whole(key) == [NoFields EXCEPT !.key = OmitEmpty(key, Empty)]

\* Only the description, the version, the checksums and the name.
UpdateFileBody(key) == NoFields

CreateFile(c) ==
  \E key \in Keys :
    IF KeyGiven(key)
    THEN Send(c, Asked("createFile", Nothing), CreateFileBody(key))
    ELSE Begin(c, "idle", "error") /\ UNCHANGED request

UpdateFile(c) ==
  \E f \in Files, key \in Keys : Send(c, Asked("updateFile", f), UpdateFileBody(key))

DeleteFile(c) ==
  \E f \in Files : Send(c, Asked("deleteFile", f), NoFields)

AddFileToRelease(c) ==
  \E f \in Files, r \in Releases :
    Send(c, [Asked("addToRelease", f) EXCEPT !.to = r], NoFields)

RemoveFileFromRelease(c) ==
  \E f \in Files, r \in Releases :
    Send(c, [Asked("removeFromRelease", f) EXCEPT !.to = r], NoFields)

AddToFileGroup(c) ==
  \E f \in Files, g \in FileGroups :
    Send(c, [Asked("addToGroup", f) EXCEPT !.to = g], NoFields)

RemoveFromFileGroup(c) ==
  \E f \in Files, g \in FileGroups :
    Send(c, [Asked("removeFromGroup", f) EXCEPT !.to = g], NoFields)

(* Releases *)

\* Mutant: a new release is there for everybody.
CreateReleaseBody_Public(controlled) ==
  [NoFields EXCEPT !.availability = "All Users", !.controlled = OmitEmpty(controlled, FALSE),
     !.compliance = "confirm"]

CreateReleaseBody(controlled) ==
  [NoFields EXCEPT !.availability = "Admins Only", !.controlled = OmitEmpty(controlled, FALSE),
     !.compliance = "confirm"]

\* Mutant: the compliance is that of the caller's copy.
UpdateReleaseBody_Copied(release) ==
  [NoFields EXCEPT !.availability = OmitEmpty(release.availability, ""),
     !.controlled = OmitEmpty(release.controlled, FALSE),
     !.compliance = OmitEmpty(release.compliance, "")]

\* Mutant: the availability is taken for the server's own affair.
UpdateReleaseBody_FlagOnly(release) ==
  [NoFields EXCEPT !.controlled = OmitEmpty(release.controlled, FALSE), !.compliance = "confirm"]

UpdateReleaseBody(release) ==
  [NoFields EXCEPT !.availability = OmitEmpty(release.availability, ""),
     !.controlled = OmitEmpty(release.controlled, FALSE), !.compliance = "confirm"]

CreateRelease(c) ==
  \E controlled \in BOOLEAN :
    Send(c, Asked("createRelease", Nothing), CreateReleaseBody(controlled))

UpdateRelease(c) ==
  \E r \in Releases, release \in Release :
    Send(c, [Asked("updateRelease", r) EXCEPT !.release =
              [availability |-> release.availability, controlled |-> release.controlled]],
         UpdateReleaseBody(release))

DeleteRelease(c) ==
  \E r \in Releases : Send(c, Asked("deleteRelease", r), NoFields)

(* File groups *)

\* Mutant: the files of the caller's copy are sent back with it.
UpdateGroupBody_Whole(files) == [NoFields EXCEPT !.files = OmitEmpty(files, {})]

\* Only the name.
UpdateGroupBody(files) == NoFields

CreateFileGroup(c) == Send(c, Asked("createGroup", Nothing), NoFields)

UpdateFileGroup(c) ==
  \E g \in FileGroups, files \in SUBSET Files :
    Send(c, Asked("updateGroup", g), UpdateGroupBody(files))

DeleteFileGroup(c) ==
  \E g \in FileGroups : Send(c, Asked("deleteGroup", g), NoFields)

AddGroupToRelease(c) ==
  \E g \in FileGroups, r \in Releases :
    Send(c, [Asked("addToRelease", g) EXCEPT !.to = r], NoFields)

RemoveGroupFromRelease(c) ==
  \E g \in FileGroups, r \in Releases :
    Send(c, [Asked("removeFromRelease", g) EXCEPT !.to = r], NoFields)

(* Relations between releases, and EULAs *)

\* Mutant: the ids of the two releases have changed places.
RelationBody_Swapped(r, other) == [NoFields EXCEPT !.other = r]

\* The release itself is named by the URL.
RelationBody(r, other) == [NoFields EXCEPT !.other = other]

Relate(c, op) ==
  \E r, other \in Releases :
    Send(c, [Asked(op, other) EXCEPT !.to = r], RelationBody(r, other))

AddDependency(c) == Relate(c, "addDependency")
RemoveDependency(c) == Relate(c, "removeDependency")
AddUpgradePath(c) == Relate(c, "addUpgradePath")
RemoveUpgradePath(c) == Relate(c, "removeUpgradePath")

\* What a specifier says is not told apart.
CreateDependencySpecifier(c) ==
  \E r \in Releases :
    Send(c, [Asked("createDependencySpecifier", Nothing) EXCEPT !.to = r], NoFields)

DeleteDependencySpecifier(c) ==
  \E s \in DependencySpecifiers, r \in Releases :
    Send(c, [Asked("deleteSpecifier", s) EXCEPT !.to = r], NoFields)

CreateUpgradePathSpecifier(c) ==
  \E r \in Releases :
    Send(c, [Asked("createUpgradePathSpecifier", Nothing) EXCEPT !.to = r], NoFields)

DeleteUpgradePathSpecifier(c) ==
  \E s \in UpgradePathSpecifiers, r \in Releases :
    Send(c, [Asked("deleteSpecifier", s) EXCEPT !.to = r], NoFields)

AcceptEULA(c) ==
  \E r \in Releases : Send(c, Asked("acceptEULA", r), NoFields)

(* Reads, each of one object, of what belongs to a release, or of a list *)

Read(c, x, r) == Send(c, [Asked("read", x) EXCEPT !.to = r], NoFields)

ReadFiles(c) == \E f \in Files \cup {Nothing}, r \in Releases \cup {Nothing} : Read(c, f, r)

ReadReleases(c) == \E r \in Releases \cup {Nothing} : Read(c, r, Nothing)

ReadFileGroups(c) == \E g \in FileGroups \cup {Nothing} : Read(c, g, Nothing)

ReadFileGroupsOfRelease(c) == \E r \in Releases : Read(c, Nothing, r)
ReadDependencies(c) == \E r \in Releases : Read(c, Nothing, r)
ReadUpgradePaths(c) == \E r \in Releases : Read(c, Nothing, r)

ReadDependencySpecifiers(c) ==
  \E s \in DependencySpecifiers \cup {Nothing}, r \in Releases : Read(c, s, r)

ReadUpgradePathSpecifiers(c) ==
  \E s \in UpgradePathSpecifiers \cup {Nothing}, r \in Releases : Read(c, s, r)

\* Nothing that a method changes is in these.
ReadEULAs(c) == Read(c, Nothing, Nothing)
ReadProducts(c) == Read(c, Nothing, Nothing)
ReadReleaseTypes(c) == Read(c, Nothing, Nothing)

Reads(c) ==
  \/ ReadFiles(c) \/ ReadReleases(c) \/ ReadFileGroups(c)
  \/ ReadEULAs(c) \/ ReadProducts(c) \/ ReadReleaseTypes(c)
  \/ ReadFileGroupsOfRelease(c) \/ ReadDependencies(c) \/ ReadUpgradePaths(c)
  \/ ReadDependencySpecifiers(c) \/ ReadUpgradePathSpecifiers(c)

Relates(c) ==
  \/ AddDependency(c) \/ RemoveDependency(c)
  \/ AddUpgradePath(c) \/ RemoveUpgradePath(c)
  \/ CreateDependencySpecifier(c) \/ DeleteDependencySpecifier(c)
  \/ CreateUpgradePathSpecifier(c) \/ DeleteUpgradePathSpecifier(c)
  \/ AcceptEULA(c)

Call(c) ==
  /\ \/ Reads(c) \/ Relates(c)
     \/ CreateFile(c) \/ UpdateFile(c) \/ DeleteFile(c)
     \/ AddFileToRelease(c) \/ RemoveFileFromRelease(c)
     \/ AddToFileGroup(c) \/ RemoveFromFileGroup(c)
     \/ CreateRelease(c) \/ UpdateRelease(c) \/ DeleteRelease(c)
     \/ CreateFileGroup(c) \/ UpdateFileGroup(c) \/ DeleteFileGroup(c)
     \/ AddGroupToRelease(c) \/ RemoveGroupFromRelease(c)
  /\ UNCHANGED serverVars

-----------------------------------------------------------------------------
(* The server *)

Field(value, old) == IF value = Nothing THEN old ELSE value

Patched(release, body) ==
  [availability |-> Field(body.availability, release.availability),
   controlled |-> Field(body.controlled, release.controlled),
   compliance |-> Field(body.compliance, release.compliance)]

\* A specifier belongs to the release under whose URL it was created.
Created(q, x) ==
  /\ life[x] = "unborn"
  /\ x \in Specifiers => life[q.args.to] = "alive"
  /\ life' = [life EXCEPT ![x] = "alive"]
  /\ keys' = IF x \in Files THEN [keys EXCEPT ![x] = Field(q.body.key, Empty)] ELSE keys
  /\ releases' = IF x \in Releases
                 THEN [releases EXCEPT ![x] = Patched(InitialRelease, q.body)]
                 ELSE releases
  /\ inRelease' = [r \in Releases |->
       IF x \in Specifiers /\ r = q.args.to THEN inRelease[r] \cup {x} ELSE inRelease[r]]
  /\ UNCHANGED <<inGroup, related, accepted>>

Updated(q, x) ==
  /\ life[x] = "alive"
  /\ keys' = IF x \in Files THEN [keys EXCEPT ![x] = Field(q.body.key, @)] ELSE keys
  /\ releases' = IF x \in Releases THEN [releases EXCEPT ![x] = Patched(@, q.body)] ELSE releases
  /\ inGroup' = IF x \in FileGroups THEN [inGroup EXCEPT ![x] = Field(q.body.files, @)] ELSE inGroup
  /\ UNCHANGED <<life, inRelease, related, accepted>>

Deleted(q, x) ==
  /\ life[x] = "alive"
  /\ x \in Specifiers => x \in inRelease[q.args.to]
  /\ life' = [life EXCEPT ![x] = "deleted"]
  /\ inGroup' = [g \in FileGroups |-> IF g = x THEN {} ELSE inGroup[g] \ {x}]
  /\ inRelease' = [r \in Releases |-> IF r = x THEN {} ELSE inRelease[r] \ {x}]
  /\ related' = [k \in Relations |->
       [r \in Releases |-> IF r = x THEN {} ELSE related[k][r] \ {x}]]
  /\ UNCHANGED <<keys, releases, accepted>>

\* The set S with x or without it.
With(S, x, add) == IF add THEN S \cup {x} ELSE S \ {x}

Attached(op, x, to) ==
  /\ life[x] = "alive" /\ life[to] = "alive"
  /\ inGroup' = IF op \in {"addToGroup", "removeFromGroup"}
                THEN [inGroup EXCEPT ![to] = With(@, x, op = "addToGroup")]
                ELSE inGroup
  /\ inRelease' = IF op \in {"addToRelease", "removeFromRelease"}
                  THEN [inRelease EXCEPT ![to] = With(@, x, op = "addToRelease")]
                  ELSE inRelease
  /\ UNCHANGED <<life, keys, releases, related, accepted>>

Related(op, other, r) ==
  /\ life[other] = "alive" /\ life[r] = "alive"
  /\ LET k == IF op \in {"addDependency", "removeDependency"} THEN "dependency" ELSE "upgradePath"
         new == With(related[k][r], other, op \in {"addDependency", "addUpgradePath"})
     IN related' = [related EXCEPT ![k] = [related[k] EXCEPT ![r] = new]]
  /\ UNCHANGED <<life, keys, releases, inGroup, inRelease, accepted>>

Accept(r) ==
  /\ life[r] = "alive"
  /\ accepted' = accepted \cup {r}
  /\ UNCHANGED <<life, keys, releases, inGroup, inRelease, related>>

CreatedBy(op) ==
  CASE op = "createFile" -> Files
    [] op = "createRelease" -> Releases
    [] op = "createGroup" -> FileGroups
    [] op = "createDependencySpecifier" -> DependencySpecifiers
    [] op = "createUpgradePathSpecifier" -> UpgradePathSpecifiers

Readable(a) ==
  /\ \A y \in {a.object, a.to} \ {Nothing} : life[y] = "alive"
  /\ (a.object # Nothing /\ a.to # Nothing) => a.object \in inRelease[a.to]

\* Doing what the request q asks; x is the object it is about.
Do(q, x) ==
  LET op == q.args.op IN
  \/ op \in CreateOps /\ x \in CreatedBy(op) /\ Created(q, x)
  \/ op \in UpdateOps /\ x = q.args.object /\ Updated(q, x)
  \/ op \in DeleteOps /\ x = q.args.object /\ Deleted(q, x)
  \/ op \in AttachOps /\ x = q.args.object /\ Attached(op, x, q.args.to)
  \/ op \in RelateOps /\ x = q.body.other /\ Related(op, x, q.args.to)
  \/ op = "acceptEULA" /\ x = q.args.object /\ Accept(x)
  \/ op = "read" /\ Readable(q.args) /\ UNCHANGED serverVars

-----------------------------------------------------------------------------
(* What the methods make of the answer *)

\* What each method tells MakeRequest to expect: product_files.go:218-451,
\* file_groups.go:125-301, releases.go:148-214, release_dependencies.go:82-120,
\* release_upgrade_paths.go:81-119, dependency_specifiers.go:112-144,
\* upgrade_path_specifiers.go:105-137, eulas.go:88; 200 where something is read.
Expected(op) ==
  CASE op \in CreateOps -> 201
    [] op \in UpdateOps \cup {"deleteFile", "deleteGroup", "acceptEULA", "read"} -> 200
    [] op \in {"deleteRelease", "deleteSpecifier"} \cup AttachOps \cup RelateOps -> 204

\* The methods that read the body of the answer: all that create, update or list,
\* and the deletions that are answered with what was deleted (file_groups.go:202,
\* product_files.go:302); those without content do not, nor does the acceptance
\* of a EULA (eulas.go:85-96).
Decodes(op) == Expected(op) # 204 /\ op # "acceptEULA"

\* The server does it and answers so, perhaps with a body that cannot be decoded.
\* A failure of its own after it has done it is to the client like no answer.
Process(c) ==
  /\ phase[c] = "sent"
  /\ LET q == request[c] IN
     \E x \in Objects, readable \in {TRUE, ~Decodes(q.args.op)} :
       /\ Do(q, x)
       /\ Answer(c, [status |-> Expected(q.args.op), readable |-> readable,
            release |-> IF q.args.op \in {"createRelease", "updateRelease"}
                        THEN releases'[x] ELSE Nothing])

Refuse(c) ==
  /\ Answer(c, [status |-> 404, readable |-> TRUE, release |-> Nothing])
  /\ UNCHANGED serverVars

ProcessLate ==
  /\ \E q \in late, x \in Objects :
       /\ Do(q, x)
       /\ late' = late \ {q}
  /\ UNCHANGED <<made, phase, request, answer, outcome>>

ReturnFrom(c) ==
  /\ phase[c] = "answered"
  /\ Return(c, Expected(request[c].args.op), Decodes(request[c].args.op))
  /\ UNCHANGED serverVars

Fail(c) == GiveUp(c) /\ UNCHANGED serverVars

Next ==
  \/ \E c \in Clients : Call(c) \/ Process(c) \/ Refuse(c) \/ ReturnFrom(c) \/ Fail(c)
  \/ ProcessLate

Spec == Init /\ [][Next]_vars

-----------------------------------------------------------------------------

\* The requests that may yet take effect, and what their calls ask for.
OpenRequests == {request[c] : c \in {d \in Clients : phase[d] = "sent"}} \cup late
Open == {q.args : q \in OpenRequests}

AskedFor(ops, x, to) ==
  \E a \in Open :
    /\ a.op \in ops
    /\ <<a.object, a.to>> \in {<<x, to>>, <<x, Nothing>>, <<to, Nothing>>}

\* A file joins or leaves a group only because a call asked for that very thing
\* or for the deletion of one of them: updates of the group from old copies,
\* which know of other files, do not disturb it (file_groups.go:148-152).
GroupFilesChangeOnlyWhenAsked ==
  [][\A g \in FileGroups, f \in Files :
       /\ f \in inGroup'[g] \ inGroup[g] => AskedFor({"addToGroup"}, f, g)
       /\ f \in inGroup[g] \ inGroup'[g] =>
            AskedFor({"removeFromGroup", "deleteFile", "deleteGroup"}, f, g)]_vars

\* A file keeps the object key it was created with, whatever an Update's caller
\* passes (product_files.go:242-250).
KeysAreFixed ==
  [][\A f \in Files : life[f] # "unborn" => keys'[f] = keys[f]]_vars

\* A release depends on another, may be upgraded from it, or has a file, a group
\* or a specifier, because a call asked for that very thing and in that
\* direction (release_dependencies.go:55-91, release_upgrade_paths.go:54-90), and
\* no longer does because of a call too; EULAs are accepted by calls of Accept.
RelationsChangeOnlyWhenAsked ==
  [][\A r \in Releases :
       /\ \A s \in Releases :
            /\ s \in related'["dependency"][r] \ related["dependency"][r] =>
                 AskedFor({"addDependency"}, s, r)
            /\ s \in related["dependency"][r] \ related'["dependency"][r] =>
                 AskedFor({"removeDependency", "deleteRelease"}, s, r)
            /\ s \in related'["upgradePath"][r] \ related["upgradePath"][r] =>
                 AskedFor({"addUpgradePath"}, s, r)
            /\ s \in related["upgradePath"][r] \ related'["upgradePath"][r] =>
                 AskedFor({"removeUpgradePath", "deleteRelease"}, s, r)
       /\ \A x \in inRelease'[r] \ inRelease[r] :
            \/ AskedFor({"addToRelease"}, x, r)
            \/ \E a \in Open : a.op \in CreateOps /\ x \in CreatedBy(a.op) /\ a.to = r
       /\ \A x \in inRelease[r] \ inRelease'[r] :
            AskedFor({"removeFromRelease"} \cup DeleteOps, x, r)
       /\ r \in accepted' \ accepted => \E a \in Open : a.op = "acceptEULA" /\ a.object = r]_vars

\* A call changes the catalogue at most once: what changes it is one request,
\* which is then done with, and no request is sent but the one of a new call, as
\* MakeRequest sends none again (pivnet.go:173).  So a Create that returned an
\* error because its response was lost or undecodable (product_files.go:229-232)
\* has made one file at most, and a second one takes a second call.
OneEffectPerCall ==
  [][/\ serverVars' # serverVars => OpenRequests \ OpenRequests' # {}
     /\ \A q \in OpenRequests' \ OpenRequests :
          \E c \in Clients : q.id = <<c, made[c]>> /\ made'[c] = made[c] + 1]_vars

\* The availability of a release changes only to one that a caller passes to
\* Update at that time (releases.go:164-177): a Release without one, a late
\* update of another field or Create never publish or hide anything.  Of two
\* callers who differ, the last to arrive wins.
AvailabilityOnlyAsAsked ==
  [][\A r \in Releases :
       releases'[r].availability # releases[r].availability =>
         \E a \in Open :
           /\ a.op = "updateRelease" /\ a.object = r
           /\ a.release.availability = releases'[r].availability]_vars

\* A release that has been confirmed compliant is never unconfirmed by an update
\* from a copy that was read before that (releases.go:171).
StaysConfirmed ==
  [][\A r \in Releases :
       (life[r] = "alive" /\ releases[r].compliance = "confirm") =>
         releases'[r].compliance = "confirm"]_vars

\* The release an answer shows has what the caller has set.
Shows(release, submission) ==
  /\ submission.availability \in {"", release.availability}
  /\ submission.controlled \in {FALSE, release.controlled}

\* What a caller sets in the Release it passes to Update is in the release it
\* gets back, whoever else changes it (releases.go:164-177, :189-195): only an
\* availability of "" and a flag that is FALSE, which the body leaves out, may
\* come back as something else.
SubmitsWhatIsSet ==
  \A c \in Clients :
    (phase[c] = "answered" /\ request[c].args.op = "updateRelease" /\ answer[c].status = 200) =>
      Shows(answer[c].release, request[c].args.release)

=============================================================================
