# A verification of go-pivnet

go-pivnet is the Go client library of the Pivotal Network API: it lists and
edits products, releases, files and user groups over REST, and downloads
product files with several concurrent range requests. This directory holds
TLA+ models of the library, the TLC configurations that check them and the
proofs that TLAPS checks. Source references are to the files of the repository.

## The system

| Component | State | Operations | What is hard |
|---|---|---|---|
| `download.Ranger` (`download/ranger.go`) | none | `BuildRange` | lengths around and below the number of hunks, remainder |
| `download.Client` (`download/downloader.go`) | the output file, one handle, offset, link and count per goroutine, the progress bar | `Get`, `retryableRequest` | interleaved workers, retries in the middle of a range, links that expire, partial failure |
| `ProductFileLinkFetcher` (`product_file_link_fetcher.go`) | `CheckRedirect` of the shared `http.Client` | `NewDownloadLink` | set and reset by concurrent goroutines |
| `Client` (`pivnet.go`, `errors.go`) | the token, the shared `http.Client` | `CreateRequest`, `MakeRequest`, `handleUnexpectedResponse` | a token fetched before every request, `log.Fatalf`, error mapping |
| `AuthService`, `TokenFetcher` (`auth.go`, `uaa.go`) | none | `Check`, `FetchUAAToken`, `GetToken` | telling a refusal from a failure |
| `ReleasesService`, `ProductFilesService`, `FileGroupsService`, `UserGroupsService` | on the server | list, get, create, update, delete, add and remove | updates from stale copies, lost responses |
| dependencies, specifiers, upgrade paths, EULAs | on the server | list, get, create or add, delete or remove, accept | lost responses, which release is which |
| products, release types | none | list, get | nothing of their own |
| `logger`, `logshim` | none | formatting | nothing; not modelled |

The parts interact by calls and through two pieces of shared memory. All
services hold copies of one `Client` whose `HTTP` field points to one
`http.Client`; the link fetcher changes a field of it. `ProductFilesService`
hands a link fetcher to `download.Client.Get`, which calls it once itself and
again from every goroutine whose link is refused with 403. The goroutines of
one download share the output file and the progress bar.

What makes the components correct, in short:

* a download that reports success has written every byte, its retries put no
  byte in a wrong place, it comes back, and its workers come back with it;
* links that expire, at any moment and under several workers at once, cost a
  retry or an error and never the file;
* whoever fetches a link leaves the shared client as the others expect it;
* a call returns nil only if the server did what was asked, errors keep apart what
  callers tell apart, and one call is carried out once at most;
* an update from an old copy does not undo what it does not mean to set.

## The modules

| Module | Models | Kind |
|---|---|---|
| `Ranger` | the arithmetic of `BuildRange` | operators |
| `RangerCall` | one call of `BuildRange` | specification |
| `Download` | what `Get` promises its caller | abstract specification |
| `Downloader` | `Get` and `retryableRequest` | specification, uses `Ranger`, implements `Download` |
| `LinkFetcher` | `NewDownloadLink` and other calls over the shared `http.Client` | specification |
| `RelinkedDownload` | `ProductFilesService.DownloadForRelease`: the file is looked up, and every goroutine of the download fetches its links over the shared client | composition of `LinkFetcher` and `Downloader`, implements both |
| `PivnetClient` | `CreateRequest`, `MakeRequest`, `GetToken`, `Check`, `FetchUAAToken` and the error mapping, for concurrent calls | specification |
| `Exchange` | one request of a service and its answer, loss, or late arrival | part of `UserGroups` and `Catalogue` |
| `Access` | what the user groups service promises about memberships and releases | abstract specification |
| `UserGroups` | `user_groups.go` and the groups on the server | specification, extends `Exchange`, implements `Access` |
| `Catalogue` | every method of `releases.go`, `product_files.go`, `file_groups.go`, `release_dependencies.go`, `release_upgrade_paths.go`, `dependency_specifiers.go`, `upgrade_path_specifiers.go`, `eulas.go`, and the lists of `products.go` and `release_types.go` | specification, extends `Exchange` |
| `RangerProofs`, `RangerCallProofs`, `DownloaderProofs`, `LinkFetcherProofs`, `RelinkedDownloadProofs`, `PivnetClientProofs`, `UserGroupsProofs`, `CatalogueProofs` | theorems | proofs |
| `MC...` | constants for TLC | instances |

### Ranger and RangerCall

Each operator of `Ranger` is the value of a variable of `BuildRange`;
`Quot` and `Rem` are Go's truncating division, which differs from TLA+'s for the
length -1 that net/http reports when there is none. Range `w` of the model is
iteration `i = w - 1` of the loop. The text of the `Range` header is left out.

### Downloader

`pc` follows `Get`: "link" and "head" are the requests before the ranges are
known, "prepare" is BuildRange, the disk check and `Stat`, "open" the loop that
opens the file and starts a goroutine per range and, once all are started,
`g.Wait`. "ok", "err", "openErr" are the returns (success, an error with no
goroutine left, and the error of a later `OpenFile`, which leaves goroutines
behind); "crashed" is a panic. `wpc[w]` follows the goroutine of range `w`
through `retryableRequest`: "seek" is the label `Retry`, "get" the request,
"relink" the call of `NewDownloadLink` after a 403, "copy" is `io.Copy`, one
chunk of any size per step. `fpos[w]` is the offset of the worker's own file
handle and `written[w]` the return value of `io.Copy` so far, which the code
subtracts from the bar when the body breaks off.

Data is abstracted in two ways. Byte `b` of the product is the number `b`, so
`file[p] = p` says that a position is right. A link is the number of expiries
before its issue, so "still accepted" is a comparison with `expiries`.

The environment is external: the server accepts exactly the links issued since
the last expiry, serves the part of a range that lies in the file, refuses a
range that starts past its end, and may inflict any of the faults in `Faults`.
A body that ends without an error is complete: the code compares nothing
(`downloader.go:171-185`), but net/http reports one that is shorter than its
`Content-Length` as `io.ErrUnexpectedEOF`, the fault "eof". A server that answers a
range with a shorter body and says so is not modelled.
The refusal of a HEAD request has a length of its own, out of `ErrorLengths`.

The properties: `OkMeansWholeFile`, `NoMisplacedBytes`, `BarCountsTheBytes`,
`NoWorkerOutlivesTheCall`, `RetryUsesFreshLink`, `EveryStepIsProgress`, the
liveness properties `EventuallyReturns` and `WorkersFinish`, and
`KeepsItsPromise`, which is the specification of `Download` under the mapping of
the set of bytes in place and of `pc`. `StepsLeft` adds up how many steps the call
and each worker can still take if nothing disturbs them any more;
`EveryStepIsProgress` says that every step but a disturbance lowers it, so that no
loop among `goto Retry`, the 403 and the new link feeds itself.

### LinkFetcher

A goroutine sets the policy ("useLast" is the function that returns
`http.ErrUseLastResponse`), makes its request, and on the expected 302 sets the
policy back to nil; on any error it returns without doing so. net/http reads
the field when a redirect arrives: `Redirected` gives the fetcher either the
redirect or, if somebody has reset the policy, the answer of the place it
points to. `Others` are calls of the other services, which may be redirected too.

### RelinkedDownload

`Downloader` gets a link in one atomic step, "link" or "relink", which succeeds
with a link of that moment or fails. The code does not: it sends a request over
a client whose policy other goroutines change, and comes back with a link that
was issued earlier. This module replaces the step by the steps of `LinkFetcher`.
It extends `LinkFetcher`, whose fetchers are now goroutine 0, which runs `Get`, and
one worker per range, beside any others; and it instantiates `Downloader` for all
its other steps (`G!HeadRequest`, `G!CopyChunk`, ...), with `dpc` for its `pc`. `stage` is
the part of `DownloadForRelease` before `Get`: the look-up of the file, which
goes over the same client and so can be given a redirect for an answer, and the
address of the link in what it returns (`product_files.go:469-481`).

`issued[f]` is the link in the redirect on its way to `f`, again the number of
expiries before it was issued; it may expire before `f` sees it, and it never
arrives if the policy sends the client after it. `referers` and `bodies` count
what the code lets pile up: `Header.Add("Referer", ...)` on the header of the
range in each attempt (`downloader.go:137`), and the bodies whose `Close` is
deferred to the end of the goroutine, not of the attempt (`downloader.go:151`).

`ServesTheDownloader` says that all this is a `Downloader` to its caller. The
mapping makes a link present from the moment the API issues it with a redirect
that will be seen (`SeenPc`, `SeenWpc`, `SeenUrl`, `SeenContentURL`): at the return of
the fetcher, where the code has it, would be too late, as an expiry in between
would then have to happen before the issue. An overtaken fetch is a failure of
the abstract step, so that "link" is among the faults there and not here.
`DownloadReturns` is liveness across the composition: whoever overtakes whom,
each fetch ends, and a worker whose fetch fails gives up and does not try again.
`AttemptsAreBounded` bounds requests and open bodies by what disturbed them.

### PivnetClient

Each call is one operation: `Check`, `FetchUAAToken`, `ProductFiles.Create` with
its own treatment of rate limits, and one operation each for the services that
decode their response and for those that ignore it; which one, and the length of
the token, are chosen at the start. A token longer than 20
characters makes `CreateRequest` fetch an access token first; a failure of that
is `log.Fatalf`, the end of the process under all calls. `exchange` keeps apart
what the code does not, a token that was refused because it was revoked and any
other failure, so that `CheckComesBack` can speak of the first alone.
`RateLimitIsRecognised` goes both ways: the error of a rate limit is returned for a
readable rate limit and for nothing else. A response is a status
and whether its body can be read and decoded; messages are left out.

### Exchange

The services of `UserGroups` and `Catalogue` do not retry and keep no state, so
what can go wrong in one of their calls is the same for all of them: the request
is refused, the response is lost or cannot be decoded, or the 60 seconds of
`http.Client.Timeout` (`pivnet.go:65`) pass while the request is still on its
way. `phase[c]` is "sent" from `http.Client.Do` until the server has answered,
"answered" until the method returns. `GiveUp` is every error of `Do`; a request
whose caller has given up before the server has processed it goes to `late` and
may take effect at any later time, or never. `Accepted` is the comparison of
the status (`pivnet.go:181`) together with the decoding of the body. Tokens and
the mapping of errors are in `PivnetClient` and left out here.

### UserGroups and Access

An action per method chooses arguments and states the body the method composes:
`CreateBody` with its nil slice made empty, `UpdateBody` without the members and
with `omitempty` on the texts. A body is a record with `Nothing` for the fields
it does not have. Name and description are treated alike by every method and are
one text here. An `Update` may pass the `UserGroup` its client was given last,
however old, or one of the caller's own making. `Do` is the external server: it
applies what the request says, or `Refuse`s. It never issues an identity twice.

`Access` knows nothing of bodies, statuses and texts. A call means one change,
named by its method and arguments; it happens at most once, in one step, before
the call returns nil. A call that returns an error may have happened, may still
happen, or may never. `GrantsAccess` is this specification under the mapping of
`phase` and the answer's `applied` to `stage` (`Stage`).

### Catalogue

Ten files of the library edit or read one catalogue. Only fields that a property
is about are in the bodies: the object key of a file, three fields of a release,
the files of a group, the other release of a relation. The three `Update`s each
send something else: a file's leaves the key out, a group's has the name only, a
release's is the whole copy but the compliance, which is always "confirm". The
copies passed to `Update` are arbitrary, which covers every stale one. `Create`
of a file without a key ends before any request (`product_files.go:184`).

A relation (`Relate`) names one release in the URL and the other in the body, and
the server applies what the body says, so that their order matters. Specifiers
belong to the release under whose URL they were created; what they say about
versions is left out. `AcceptEULA` changes the account; that a download is
refused with 451 before is in `PivnetClient`. The methods that only read are one
action each: they send a GET, fail as every call does, and change nothing. The
default date of a release and `copy_metadata`, whose effect is the server's, are
left out.

`Open` is the set of the requests the server may yet carry out, late ones
included. The properties relate each change of the catalogue to it: a change
happens because a call asked for it, and each request is used up by its one
effect (`OneEffectPerCall`). `SubmitsWhatIsSet` is the other direction for the
update of a release: what its caller has set is in the release it gets back,
whoever else changes it meanwhile.

## What TLC checks

| Run | Properties | Bounds |
|---|---|---|
| `ranger` | the ranges partition the file; fewer than twice the hunks | lengths -1 to 60, 1 to 12 hunks: below, at and several times the number of hunks |
| `downloader` | type, `OkMeansWholeFile`, `NoMisplacedBytes`, `BarCountsTheBytes`, `NoWorkerOutlivesTheCall`, `RetryUsesFreshLink`, `EveryStepIsProgress`, `EventuallyReturns`, `WorkersFinish`, `KeepsItsPromise` | 5 bytes in ranges of 2 and 3, a file with 2 older bytes, all faults, 2 retries, 2 expiries |
| `link_fetcher` (module `RelinkedDownload`) | type, `PolicyIsRestored`, `OnlyFetchersOvertake`, `AttemptsAreBounded`, `DownloadReturns`, `ServesTheDownloader` | 2 ranges of one byte, 2 expiries, 1 temporary error, the look-up, and one other goroutine of the process that fetches twice; any refusals |
| `pivnet_client` | type, `CheckContract`, `RateLimitIsRecognised`, `NilMeansExpectedResponse`, `LegacyCallsReturn` | two calls of any operations, token of 20 or 21 characters, all statuses and bodies |
| `user_groups` | type, `TextsAreNeverBlanked`, `GrantsAccess` | 2 clients, 2 calls each, 1 group, 1 member, 1 release, 2 texts |
| `catalogue` | type, `GroupFilesChangeOnlyWhenAsked`, `KeysAreFixed`, `RelationsChangeOnlyWhenAsked`, `OneEffectPerCall`, `AvailabilityOnlyAsAsked`, `StaysConfirmed`, `SubmitsWhatIsSet` | 2 calls at once of any method, 2 releases, 1 file, 1 group, 1 specifier of each kind, 2 keys; at the start one bare release, or everything with all relations or none |

A range of two bytes or more is needed to break off in the middle, and two
workers to leave one running when the other has failed; two retries let a retry
itself be disturbed, and an expiry during a retry and another during the
relink need two expiries. In `user_groups` the second call of a client meets its
own late first one beside those of another client; groups do not influence each
other, so one is enough, and its second identity would only allow a second
create. In `link_fetcher` two workers can be refused by one expiry and overtake
each other, a second expiry reaches their new links on the way, and a temporary
error makes attempts that no expiry explains; how a range is copied in parts is
the matter of `downloader`. In
`catalogue` two releases are needed to tell the ends of a relation apart, and
two calls for an update or a delete to meet the change it must not disturb or
repeat; clients are told apart by nothing but their calls. The proofs below
remove these bounds for all safety properties.

`downloader`, `ranger` and the other runs disable the deadlock check because
the modelled calls end, or reach the bound on their number.

**Fairness.** `FairSpec` of `Downloader` assumes that the Go scheduler runs `Get`
and every goroutine, and that a request that was sent is answered or fails. The
latter is an assumption on the network that the code does not enforce: the
downloader's `http.Client` has no timeout (`pivnet.go:75`), so a server that
stalls for ever hangs `Get` for ever. `RelinkFairSpec` assumes the same of the whole
composition, and that a request for a link ends, which the 60 seconds of the
shared client enforce (`pivnet.go:65`) for legacy tokens; what the exchange of a
refresh token before it can do is in `PivnetClient`. The environment is not fair: it need
neither disturb nor expire anything. The bounds on retries and expiries say that
it does so finitely often; the code itself retries without bound or pause.
`FairSpec` of `PivnetClient` rests on the timeout of 60 seconds of the API's
client (`pivnet.go:65`). `GetToken` uses a client without a timeout
(`uaa.go:24`): its steps are not fair, a call may wait in "token" for ever, and so
`LegacyCallsReturn` is about calls with legacy tokens.

## What the code does against its own texts

| Run | What TLC finds |
|---|---|
| `ranger_one_byte` | A one-byte file is cut into no ranges (`ranger.go:40-45`): `Get` returns nil with nothing written. |
| `downloader_refused_head` | `Get` never looks at the status of the HEAD response (`downloader.go:64-71`). A link that expires before it leads to ranges for the length of the refusal, the workers fetch a fresh link, and a truncated file is reported as success. |
| `downloader_panic` | `downloader.go:177-178` dereferences the result of a failed type assertion: a failed write in `io.Copy` panics. |
| `link_fetcher_race` | Two concurrent `NewDownloadLink` calls: the first to finish resets the policy, the second's redirect is followed to the file itself, and its call fails. Two workers of one download do this whenever links expire under both. |
| `pivnet_client_check` | The refresh token is revoked, the exchange that `Check` begins with is refused for that, and `Check` does not return `false, nil` but ends the process (`pivnet.go:141-143`). |

For each of these a theorem says where the sentence does hold, and so that the run
shows the only way to break it: `OnlyOneByteHasNoRange` for every other length,
`WritesTheProductWhenLengthIsHonest` if a refused HEAD request announces no length
or zero, `FailuresAreReturnedWithoutOtherErrors` if `io.Copy` meets network errors
only, `FetcherAloneGetsItsLink` for one fetcher beside any other calls, and
`OnlyFailedExchangesExit` for legacy tokens and for refresh tokens that are
exchanged.

Not checked against any text, but true of the models: after a refused
`NewDownloadLink` the shared client keeps returning redirects until the next
fetch succeeds; the output file is opened without `O_TRUNC` (`downloader.go:99`), so
that one longer than the product keeps its old end; a
failed `OpenFile` leaves workers that write to the caller's file. A create whose
response is lost is an error although the object exists, and a second attempt
makes another. A `RemoveMemberFromGroup` that timed out may arrive after a later,
successful `AddMemberToGroup` and undo it. `Update` of a group cannot clear its
description. `Update` of a release sets the availability of the caller's copy,
which may be older than a change of another client; and it cannot clear
`Controlled`, which is not sent when false (`releases.go:42`). The test of `Update`
expects its body so (`releases_test.go:451`), and `SubmitsWhatIsSet` says that what
is not empty or false is sent.

## What is proved

All proofs hold for every value of the constants that meets the named
assumptions: any file size, number of hunks, set of faults, set of goroutines.

* `RangerProofs`: the lemmas on division, that every range lies in the file
  (`RangeWithinFile`), that ranges are in order (`RangesInOrder`) and cover it
  (`EveryByteInSomeRange`), and `FewerRangesThanWorkers`. Then the sums of
  `Functions`, which the bar and `StepsLeft` are made of, over any finite set:
  `SumChanges` (what one changed term does), `SumOfNaturals`, `SumTelescopes`. They
  need an induction on the set, and the induction theorems of the library cannot be
  used here; `SumsExist` and `SumSplits` therefore suppose a set without the
  property and take a smallest one (`SmallestSubset`), as finite sets are
  well-founded under strict inclusion. `RangesAddUp`: the ranges are as long
  together as the file.
* `RangerCallProofs`: `RangesPartitionTheFile` and `FewerThanTwiceTheHunks` are
  invariants of `RangerCall`; `OnlyOneByteHasNoRange`.
* `DownloaderProofs`: `Invariance`, the inductive invariant `IInv`.
  `OkMeansWholeFile` is about states in which all work is over, so it says
  nothing that the next step could use. `IInv` adds how it comes about: while a
  worker copies, its offset is the start of its range plus the bytes of this
  attempt, and all bytes up to it are in place (`WorkerInv`); exactly the ranges
  below `next` have workers, and the call is "ok" only when `next` is past the
  last range and no worker has failed (`CallInv`); links are never younger than
  the last expiry and refused ones are older (`LinkInv`). Only one lemma looks
  into a chunk, `ChunkInPlace`; all other worker steps leave the file alone.
  From `IInv` and the lemmas on ranges follow `OkMeansWholeFileAlways`,
  `NoMisplacedBytesAlways`, `NoWorkerOutlivesTheCallAlways`,
  `RetriesUseFreshLinks`, `TypeCorrect`, and `ImplementsDownload`: step simulation to `Download`
  for files of two bytes or more and HEAD responses that announce the file's
  length, none, or zero. Both conditions are necessary: the runs
  `ranger_one_byte` and `downloader_refused_head` show what happens without.
  `BarCountsTheBytesAlways` has an invariant of its own, `BarInv`, that the bar is the
  sum of `written`: a step changes the bar and one term of the sum by the same
  amount (`BarStep`), and when all workers are done the terms are the lengths of
  the ranges, which `RangesAddUp` to the file (`BarWhenDone`).
  `EveryStepAlwaysProgresses`: each step of a worker lowers its own term of `StepsLeft`
  and no other (`WorkerMoves`), each step of the call its `CallLeft` (`CallMoves`).
  `IInv` is needed for the two ways back: a refused link is older than the last
  expiry, so that the new one is worth fewer steps, and a body in full length ends
  the worker. This is the heart of termination without bounds: `StepsLeft` is a
  number, so that only a network that disturbs for ever keeps a call busy for
  ever. That the steps are taken is fairness, which TLC checks.
* `LinkFetcherProofs`: `PolicyIsAlwaysRestored` and `OnlyFetchersOvertakeAlways`.
  The invariant is that whoever set the policy last is still on its way to reset
  it or was refused. `FetcherAloneGetsItsLink`: without a second fetcher nobody
  resets the policy of the first.
* `RelinkedDownloadProofs`: `FetchesAsLinkFetcher`, that the composition implements
  `LinkFetcher`, from which `DownloadsRestoreThePolicy` and
  `OnlyFetchersOvertakeWorkers` follow at once; `AttemptsStayBounded`; and
  `DownloadServesTheDownloader`, that it implements `Downloader`. The invariant is
  `RelinkInv`. `AttemptsAreBounded` says nothing of why an attempt is made;
  `AttemptsOf` does: each but the last is paid for by a disturbance or by a link
  younger than the one before, which is `LinksInv` and needs the link on its way to
  a refused worker to be younger than the refused one. `PlaceInv` says who may have a
  fetch underway. The simulation goes step by step: the answer of the API maps to
  the step of `Downloader` that gets a link, the return of the fetcher to a
  stutter, the steps of strangers and of overtaken fetchers to stutters until they
  return, and every other step to the step of the same name. The assumptions are
  those of `Downloader` and `LinkFetcher`, that every goroutine of the download is
  a fetcher, that "link" is no fault of its own, and that the bound on calls
  exceeds that on expiries (`DownloadAssumption`). As the composition implements
  `Downloader`, what is proved of `Downloader` holds of it
  (`DownloadRefinesDownloader`): `DP` instantiates `DownloaderProofs` under the mapping,
  and its theorems are carried back from the mapped state to the real one. So
  `RelinkedBytesAreInPlace`, `RelinkedBarCounts` and, for files of two bytes or more
  and an honest HEAD request, `RelinkedProductIsWritten` and
  `RelinkedDownloadKeepsItsPromise`.
  The mapping shows a worker ahead of itself while its link is on the way; what it
  hides of `RelinkTypesAreKept`, `RelinkingWorkersOutliveOnlyFailedOpens` and
  `RelinkedWorkersUseFreshLinks` is in `RelinkInv`.
* `PivnetClientProofs`: `CheckContract`, `RateLimitIsRecognised`,
  `NilMeansExpectedResponse` and `TypeCorrect`, from an invariant that ties each
  result to the response of the same call; and `OnlyFailedExchangesExit`, by which
  no call with a legacy token ends the process.
* `UserGroupsProofs`: `TypeCorrect`, `TextsStay` and `AccessIsGranted`, the step
  simulation from `UserGroups` to `Access`. `TypeOK` says nothing of how a
  request came about; `IInv` adds that every request underway, late ones
  included, says what its caller asked for (`Faithful`; an update says nothing of
  members), that an answer with the expected status was applied (`Honest`), and
  that unborn groups have no text. `CallIsFaithful` looks into the bodies,
  `DoKeepsTypes`, `DoKeepsTexts` and `DoIsMeant` into the server; the other
  lemmas follow one action each. The assumption is that `Nothing`, the nil
  slice, texts and sets of members are different values.
* `CatalogueProofs`: `TypeCorrect` and all action properties of `Catalogue`
  (`KeysStayFixed`, `GroupsChangeAsAsked`, `RelationsChangeAsAsked`,
  `AvailabilityChangesAsAsked`, `ConfirmedForGood`, `CallsActOnce`). They speak of
  single steps of the server, which depend on what methods have put into requests
  long before. `IInv` remembers it: every request underway is `Sound`, of the
  right kinds of objects and with no field set that its method leaves alone, and its
  number is that of its call, so that no two are the same (`Underway`); and what is
  unborn has the availability it will be created with, and no specifier belongs
  to two releases (`Kept`). `CallIsSound` goes through the methods, `DoKeepsKept`,
  `ReleaseChanges`, `GroupChanges`, `RelatedChanges` and `AttachedChanges` through the
  server; `StepIsDone` says that a step that changes the catalogue carries out one
  open request, which `SentIsNoOther` then takes away. `UpdatesSubmitWhatIsSet` needs
  of `Sound` that the body of an update is the caller's release without its empty
  fields, and of the server that it answers with what it has just stored
  (`PatchedShows`, `StepKeepsSubmits`). The assumptions are that the
  identities of files, releases, groups and specifiers differ, and `Nothing` from
  the values it stands beside.

Only model-checked are the liveness properties `EventuallyReturns`,
`WorkersFinish`, `LegacyCallsReturn` and `DownloadReturns`, which need fairness and
so ENABLED, out of the prover's reach; of the first two `EveryStepAlwaysProgresses`
proves the part that needs none.

## What is not modelled

* The drawing of the progress bar, log output and the `logger` packages: nothing in
  the program reads what they write. The count of the bar is modelled.
* The wiring in `NewClient`, URLs and their host prefix, JSON field names, TLS and
  proxies: constants of a run, with no step that could come in another order.
* `List` and `ListForRelease` of the user groups: they change nothing, and give
  copies that `Get` gives too.
* The contents of EULAs, products, release types and specifiers, and dates, notes
  and checksums: no method decides anything by them, and each is passed on whole.
* The sizes of bodies. When a fetch is overtaken, the shared client follows the
  redirect to the product itself, and `handleUnexpectedResponse` reads the whole of
  it into memory before it fails (`pivnet.go:199`): `link_fetcher_race` shows that it
  comes to this, not what it costs.
* An end to a stalled server where the code has none, see Fairness.
* Restarts: the library persists nothing, and a new call of `Get` starts afresh.
* Test fakes, vendored libraries and the example; of errgroup, net/http and the
  file system only the steps the code takes with them.
