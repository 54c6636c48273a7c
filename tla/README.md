# Landing builder: a verification project

TLA+ modules for the backend in `src/wb-landing-builder` (paths below are
relative to it), the TLC runs that check them on small instances, and theorems
about them that TLAPS proves. `PROJECT.json` lists the runs, which definition
stands for which lines, the hazards and the findings.

The program is one Go process behind nginx. An editor sends *mutations* of a
project's page; **storage** keeps them as a log in MongoDB and collapses the log
into the page. A user *publishes* the page: **publishing** records the
publication, queues a task in RabbitMQ, and a worker goroutine renders the page
with an external program and uploads the files to S3, from where nginx serves
and caches them. **auth** issues the tokens that name the user of a request.

## 1. Inventory

| component | state | operations | called by | what makes it correct |
|---|---|---|---|---|
| publication service (`publishing/service.go`) | none of its own | `Create`, `ProcessPublication`, `Delete`; `Get`, `ListIDsByProject` | HTTP handler, worker | a publication settles once, shows one rendering, and is removed with its files |
| publication repository | collection `publications` | insert, replace, get, delete, TTL | service | a removed record never comes back |
| queue (`utils/rabbitmq.go`) | durable queue, one connection | `Publish`, `Consume` with ack and nack | `Create`, worker | no task of unfinished work is lost |
| worker (`worker/`, `main.go`) | a goroutine and its context | the consume loop | main | works on one task at a time, to its end |
| blob storage (`utils/s3_blobstorage.go`) | objects under `publications/<id>/` | `PutBundle`, `DeleteBundle` | service | a FINISHED record has all files |
| renderer, draft reader (`utils/`) | temporary directory | `Render`, `GetLatestDraft` | service | what is rendered is one draft |
| purger (`utils/cdn_cache.go`), nginx (`docker/cdn/nginx.conf`) | page cache | purge; fetch, store, expire | `Delete`; visitors | visitors see what is stored, and nothing after a deletion |
| draft service (`storage/service.go`) | semaphore | `ApplyMutation`, `GetDraft`, projects | HTTP handler, draft reader | the page is what the history of mutations means |
| draft repository | collections `mutations`, `drafts`, `projects` | inserts, range and latest queries, TTL | service | versions order the history |
| rate limiter (`storage/handler.go`) | timestamps per project under a mutex | `Allow`, `cleanup` | HTTP handler | at most `limit` requests in a window |
| auth (`auth/`) | collections `users`, `refresh_tokens` | register, login, refresh, check | handlers, middleware | one account per address, a refresh token is of no use once exchanged or expired, a project has one owner who alone changes it |
| static files, HTTP helpers, configuration, Swagger | none | | | |

What is hard here:

* Every operation is a sequence of calls to MongoDB, S3, RabbitMQ or the CLI,
  without transactions. Requests and the worker interleave between any two of
  them and act on copies they read earlier.
* A call can fail, or take effect and report an error (the client is gone, the
  connection is reset, the worker's context is cancelled). The process can die
  or be told to stop between any two calls.
* Tasks are delivered at least once; publishing is not confirmed.
* The page cache is filled by visitors at moments the program does not see.
* Accounts, refresh tokens and projects are checked in one call and changed in
  the next; expired tokens stay until a background thread of MongoDB removes them.
* The rate limiter forgets timestamps in two places, one of them a goroutine.
* The mutation log is numbered by reading the latest version and inserting the
  next, and shortened by stored drafts that later reverts may reach into.

## 2. Modules

```
PublicationLifecycle            what a publication's life is
        ^ refined by
Publishing                      requests, queue, worker, records, objects
   ^          ^ EXTENDS
   |          Delivery          ... with nginx, its cache and the purger
PublishingProofs                invariants and the refinement, proved
   ^          ^ EXTENDS
   |          DeliveryProofs    (with Delivery) nothing stale comes up, proved
DeletionProofs                  who deletes, what is left, what was accepted

PageHistory                     what mutations and reads of a page promise
        ^ refined by
DraftLog                        the goroutines that write and read the log
   ^ EXTENDS
DraftLogProofs                  (with HistoryLemmas) numbering, pages and the
                                refinement, proved

History                         collapsing a sequence of mutations, which
   ^ EXTENDS                    PageHistory and DraftLog EXTEND
HistoryLemmas                   what the collapse and its reference compute
   ^ EXTENDS
HistoryProofs                   (with MCHistory) the collapse, proved

SlidingWindow                   what a rate limit promises
   ^ EXTENDS, refined by
RateLimiter                     the slices of timestamps and their cleanup
   ^ EXTENDS
RateLimiterProofs               its invariants and the refinement, proved

Accounts                        users, tokens, owners of projects
   ^ EXTENDS
AccountsProofs                  their invariants, proved

MCPublishing, MCDelivery, MCHistory, MCDraftLog,
MCRateLimiter, MCAccounts       instances for TLC
```

**Publishing.** One action per call of `publishing/service.go`, with the code
between two calls folded into the action of the first. A request is the record
`req[r]`: the next call (`pc`) and the local variables the code keeps, above
all `doc`, the copy of the record that `Create` or `Delete` works on. The worker
is the same (`worker.doc`, `worker.snap`, `worker.todo`). `PutBundle` uploads one
object per step. A message is in `queue` from `Publish` to its ack; delivered
or not makes no difference because a nack, a crash and a broken connection all
lead back to the queue. Since one process has one worker, the delivered
message is `worker.task`. `ctx` is the worker's context: after SIGTERM it is
"cancelling" as long as the call that was in flight may still end in any way,
then "cancelled", and every later call made under it fails.

The outcome of a call is `ok`, `fail` (no effect) or `lost` (took effect,
reported an error). `Budget` bounds how many faults of each kind a behaviour
contains; the theorems do not depend on its size. `accepted` is a history
variable: the publications whose creation was answered with success.

**PublicationLifecycle** is the promise: accepted once, worked on, settled as
FINISHED with a page that never changes or as FAILED without one, removed for
good. `Publishing!Lifecycle` maps records and `index.html` objects to it.

**Delivery** adds the page cache: a miss reads the object store, the response
is on its way (`fetch`), is stored, expires. The cache key is `$request_uri`, so
a page has an entry per query string, while the purger removes the entry of the
plain URI, and none where no path of the cache is configured (`CachePathSet`).
`DeliveryNext` is `NextButPurge` of Publishing with the purge replaced by one that
touches the cache.

**History** is the pure algorithm of `resolveMutations` and
`dedupElementMutations`, and next to it a reference that does not look like it:
`InEffect` goes forward and undoes by going back, `Page` is the last content of
each element. The loop of `resolveMutations` is the recursive function `Activity`,
which says for every position what is active once the loop has come there. It
can be reasoned about, as an operator that is RECURSIVE cannot.

**DraftLog** has one action per MongoDB call of `ApplyMutation` and `GetDraft`
on one project: read the latest version, read the stored draft, read the range,
merge, number, insert, store a draft; a read of the latest page asks for the
version once more at its end (`Label`). `line` are the goroutines in the service
in the order in which they came: the first `Capacity` of them hold a slot of the
semaphore (`Holds`), the others wait for one, as senders to a full channel do.
`Lookups` are goroutines that serve `CreateProject` and `GetProject`, which take a
slot as well. `Abort` is a call that fails or a request that is cancelled while
it has its slot, `InsertUnanswered` an insert whose reply was lost, `Crash` the end of the
process. `log` and `drafts` are in the order of insertion: the index on
`(project_id, version)` returns equal versions in that order. Nothing is taken
from them; `swept` says how many of the oldest mutations and of the oldest drafts
the TTL monitor has removed, so that properties can speak of the whole history.
`ExpireMutation` and `ExpireDraft` are free: at any moment, between any two calls of a
request, and in any order of the two collections. A draft may therefore outlive
all mutations; the next one then gets version 1, below the draft.

**PageHistory** is what an editor may rely on: a mutation is applied at once, to
the page of that moment, and a read answers with the page of one moment between
its begin and its end, under a version that is not older than the page. It knows
neither versions' numbering nor stored drafts nor the semaphore.
`DraftLog!Service` maps the log to its history and what readers got to its reads.

**SlidingWindow** remembers every admitted request (`stamps`) and admits one when
fewer than `Limit` came within the last `Window`; else it says how long to wait, twice:
exactly, as the text of the 429 does, and in the whole `Second`s that fit into that,
as the header `Retry-After` does (`handler.go:167`). A client that obeys the header
comes up to a second early and is refused again.
**RateLimiter** keeps what the code keeps, `requests[p]`, filtered by `Allow` when
it admits and by `cleanup`, and decides from that alone. Both methods run under
the mutex and read the clock there, so each is one step. The clock is a variable
that advances by one; timestamps taken within one unit are equal, which the code
allows too. They share the clock, `stamps` and `answer`. `X-RateLimit-Reset`, a time of
day from a second look at the clock, is left out.

**Accounts** has one action per MongoDB call of `Register`, `Login`, `Refresh`,
`CreateProject` and `UpdateProjectName`; `req[g]` holds the next call and what the
code carries to it. The collection `refresh_tokens` is the set `tokens` of numbers
of `sessions`, the history of what `generateTokens` made; `known` are the sessions
whose reply reached a client, the only tokens a client can send. A write fails,
or takes effect and is answered, or takes effect and is not, any number of
times. `TTLMonitor` removes an expired token at any time or never, as MongoDB
says of its TTL index. The other modules take from here that the user of a
request is authentic and that the owner of a project does not change.

### Abstractions

* The user of a request is authenticated and given (`u` in the actions), but in
  Accounts. There, bcrypt and HMAC are perfect: the hash is the password, a
  client has no access token but those it was given.
* `List` and `Get`, `me` and the list of projects change nothing and take no slot of
  the semaphore; they are not actions.
* A rendering is its snapshot; `Bundle[s]` says which files it has. A snapshot
  without `index.html` is rejected as the renderer does.
* The pages of an S3 listing are one step; a deletion that stops half way and
  reports an error is covered by `fail` and `lost` at its two ends, one that
  reports success by `DeleteBundlePartly`.
* A field is the path of a leaf, so `mergeBSON`'s recursion is one step. Elements
  have the two fields that the properties tell apart.
* The two `DraftService` values of `main.go` (API and worker) have a semaphore
  each; `DraftLog` has one, of the API. The worker only reads.
* The TTL monitor takes the oldest first, of the mutations and of the drafts each:
  all have the same lifetime from their insertion. When it takes them is free.

## 3. Runs

Symmetry is used for publications and requests (writers, readers) in safety
runs only. Deadlock is checked everywhere but in `History`, whose histories are
bounded by `MaxLen` and then stop.

| run | instance | checks |
|---|---|---|
| PublishingCrash | 2 publications, 2 requests, 2 files, 2 snapshots; one failing call, crash, broken connection | `AcceptedIsQueued`, `FinishedHasBundle`, `SnapshotImmutable`, `AnsweredDeletionIsComplete`, `RefinesLifecycle` |
| PublishingFaults | fairness; 1 publication, 1 request, 2 users with a project each, a snapshot that does not render; 2 failing calls and one fault of every other kind but a broken connection | `ProcessingHasTask`, `RemovedStaysRemoved`, `OnlyOwnerDeletes`, `TaskSettles` |
| Delivery | fairness; 1 publication, 1 request, 2 URIs, 2 snapshots of one file each; a crash, an expiry | `NoNewStaleAnswers`, `DeletedPageFadesOut`, `FinishedPageComesThrough` |
| History | all histories up to 6 mutations, 2 elements, reverts up to 3 | `ResolveIsUndo`, `CollapseIsPage`, `CheckpointIsTransparent` |
| DraftLogEditor | a writer and a reader at once, drafts every 2 versions, 4 mutations of an element, reads of versions 2, 3 and the latest; failures anywhere | `VersionsConsecutive`, `VersionPageIsHistory`, `AckedTakesEffect`, `RevertRestores`, `ImplementsPageHistory` |
| DraftLogAging | fairness; one slot for a writer and a lookup, 4 mutations, reverts of 2, expiry at any moment; failures anywhere | `VersionsConsecutive`, `OnlyDraftsLinger`, `EveryRequestReturns` |
| RateLimiter | 2 projects, limit 2, window 4, a second of 2, clock up to 8 | `AtMostLimit`, `MemoryBounded`, `ImplementsWindow` |
| Accounts | 2 goroutines, 2 rivals for an address and a third user, 3 sessions, 1 project, 2 names; failures anywhere | `OneAccountPerEmail`, `WelcomeHolds`, `ExchangedIsGone`, `ExpiredIsUseless`, `OnlyOwnerRenames` |
| PublishingConnLost | fairness; a broken connection | `EventuallySettles` is violated |
| PublishingOrphan | fairness; no fault | `NoOrphanBundle` is violated |
| DraftLogDeepRevert | one request at a time, reverts of any depth | `RevertRestores` is violated |
| DraftLogRace | two writers at once | `AckedTakesEffect` is violated |

**Bounds.** Two publications suffice for one publication's task to wait behind
another's, two requests for a creation and a deletion, or two deletions, to
overlap; two files make a bundle that can be half there; two snapshots make an
edit between two renderings. Publications share nothing but the queue, the
worker and the draft. The code's threshold of 20 mutations per draft is 2, so
that a history of 4 contains two drafts and a mutation after the first; version
2 has a draft, 3 has not; with expiry a history of 4 can lose its beginning, draft
first or mutations first, and start again below a draft. One slot and two
goroutines make one wait while the other works. The pages of `Delivery` have one
file each, so that a crash after its upload leads to a second rendering, of another
draft, over a page that visitors may have cached. The request of `PublishingFaults` is any user's and comes again and
again, next to the worker; what two requests do to each other is seen in
`PublishingCrash`, and by the proofs for any number of them. Six
mutations are enough for a revert of a revert of a revert over two elements.
`MaxLog` bounds the number of stored mutations, `MaxLen` the length of a history.
A clock of two windows lets every timestamp leave the window, by `Allow` or by
`cleanup`, and the next one fill (`MaxTime`); a `Second` of two units makes waits that
are whole seconds and waits that are not. In `Accounts`
two requests race for an address or a token, three sessions are a login and two
exchanges of its token, and the tokens live for the unit of the clock they were
made in, so that the second unit (`MaxTime`) is after their expiry; `MaxDocuments`
leaves room for two users, a session of each and a project, with `MaxSessions` and
`MaxProjects` for each collection.

**Preconditions, and why.** Several properties hold only where the code gives
reason to expect them. The module's definitions are the same everywhere; the
constants say what a run contains, and changing one in a `.cfg` shows what
happens otherwise:

* `FinishedHasBundle`, `SnapshotImmutable` and `RefinesLifecycle` need that every
  call that takes effect also says so: no lost reply, no shutdown in the middle
  of a call. With `stop` in the budget the last update takes effect, reports an
  error, and `renderAndUpload` removes the bundle of a FINISHED record.
* `AcceptedIsQueued` needs that the broker keeps what was written to it: publishing is
  not confirmed. It speaks of creations that were answered with success. A process
  that dies in `Create`, or two calls of it that fail, leave a PENDING record without a
  task, and a client that knows of no success.
* `EventuallySettles` needs the connection (see `PublishingConnLost`), and that no
  record is left without a task as just described. `TaskSettles` says what the code does
  ensure: from a task in the queue on, crashes, restarts and failing calls only
  delay the end.
* `AnsweredDeletionIsComplete` needs that `DeleteObjects` reports what it leaves
  behind. With `partial` in the budget it fails: the call is made with `Quiet`, its
  list of errors is not looked at, the record is gone and nobody tries again.
* `NoNewStaleAnswers` needs what `SnapshotImmutable` needs. It allows a stale page that
  is cached already when the record becomes FINISHED: after a crash in the middle of
  an upload the draft is rendered again under the same URI, and what visitors had
  fetched before answers until it runs out, which `FinishedPageComesThrough` says it does.
  `DeletedPageFadesOut` begins when record and files are gone.
* `OnlyDraftsLinger` says what expiry leaves of the page, not that the page is what it
  would be without. A draft that outlives its mutations still shows all of them. Those
  that come then are numbered from 1 and are out of the draft's range until
  they have passed its version or it is gone: TLC shows a deletion answered with version 1
  whose element stays on the page, so that `AckedTakesEffect` does not hold with `Expiry`.
* `EveryRequestReturns` needs a `Capacity` of at least 1. An unparsable
  `MONGO_MAX_CONNECTIONS` makes it 0 (`config/config.go:74`), and then every request of
  the draft service waits for ever.
* The properties of `DraftLogEditor` need one mutation at a time (see
  `DraftLogRace`; `VersionsConsecutive` and `ImplementsPageHistory` fail with two writers as
  well) and reverts of no more than came after the stored draft (`DraftLogDeepRevert`).
  A semaphore with one slot orders the mutations too, and `VersionsConsecutive` and
  `OnlyDraftsLinger` are proved for it as well. The code lets as many requests work
  at once as `MONGO_MAX_CONNECTIONS` says, 100 by default, and nothing orders those of
  one project.
* `AtMostLimit` is per project and for mutations alone, as the code has it, although
  `CONTRIBUTING.md:37` speaks of the requests to the service. `RateLimiter` assumes a
  positive limit. With 0, which an unparsable `RATE_LIMIT` gives, `Allow` takes the
  first element of an empty slice.
* `ExchangedIsGone` is what the three calls of `Refresh` ensure. They do not ensure
  that a token is exchanged once: two requests that both read it before either
  deletes it get a session each. Nor that a session goes on: when the deletion
  is done and saving the new token fails, the user has to log in again.

**Violations.** Four runs show a statement of a README, a comment or an API
description that the code does not keep; `PROJECT.json` quotes each and says what
happens. `PublishingConnLost`: nothing restarts the worker. `PublishingOrphan`: a deletion
decides from a record it read before the worker finished (`service.go:186`), the record
goes and the bundle stays. Failed uploads, crashes and expiry leave bundles as well.
`DraftLogDeepRevert`: a stored draft no longer has the mutations a revert counts.
`DraftLogRace`: two mutations get one version, and the range query has room for one.

Reading the code for `Accounts` showed one more, which needs no run: the error of
an expired access token comes from the JWT library and is none of the three that
`AuthMiddleware` answers with 401, so that an expired token is answered with 500.

**Fairness.** The Go scheduler runs every goroutine that can run and every call
returns: weak fairness of each request's steps and of the worker. A process
that was told to stop exits, since `srv.Shutdown` waits 30 s at most: weak
fairness of `Exit`. A response on its way arrives or ends and a cache entry's
time runs out: weak fairness of `CacheStore` and `CacheExpire`. In the draft service every call to
MongoDB returns, with a result or an error: weak fairness of `Abort \/ Step` of each
goroutine, which is enabled only while it has its slot; that those who wait get
one is what the queue of the channel gives. Users, editors,
visitors and faults are never obliged to act, and a bounded number of failing
calls is what makes a retry succeed in the end. A renderer that hangs is
outside this assumption; the code sets it no deadline.

## 4. Proofs

`tlapm` proves every safety property that holds in a run, and the three
refinements. Each section below names a module, what its theorems assume and
along which invariant they go.

### Publications: PublishingProofs, DeletionProofs, DeliveryProofs

For all sets of publications, projects, users, requests, files and snapshots:

| theorem | assumes | states |
|---|---|---|
| `TypeCorrect` | nothing | `TypeOK` |
| `RemovedStaysRemovedHolds` | nothing | a removed record never comes back |
| `ProcessingHasTaskHolds` | nothing | PROCESSING implies a task |
| `FinishedHasBundleHolds` | `RepliesArrive` | FINISHED implies a whole rendering |
| `SnapshotImmutableHolds` | `RepliesArrive` | objects of a FINISHED record stay |
| `RefinesLifecycleHolds` | `RepliesArrive` | Publishing implements PublicationLifecycle |
| `OnlyOwnerDeletesHolds` | nothing | a record is removed for its owner or by its expiry |
| `AnsweredDeletionIsCompleteHolds` | `DeletionsReported` | an answered deletion left no object |
| `AcceptedIsQueuedHolds` | `NothingDropped` | an accepted PENDING record has a task |
| `DeliveryTypeCorrect` | nothing | `DeliveryTypeOK` |
| `NoNewStaleAnswersHolds` | `RepliesArrive` | no stale answer comes up under a FINISHED record |

"Nothing" means nothing but `ConstantsAssumption`: any number of faults of any
kind. `RepliesArrive` is `Budget["lost"] = 0 /\ Budget["stop"] = 0`, `DeletionsReported` is
`Budget["partial"] = 0`, `NothingDropped` is `Budget["drop"] = 0`; section 3 says why they
cannot be left out.

The argument. `TypeInv` adds to `TypeOK` that a request or worker with work to
do has an id. `RemovedStaysRemoved` follows from it step by step, because
`Update` never inserts and `CreateInsert` uses a fresh id.

`ProcessingHasTask` is not inductive. `QueueInv` strengthens it: records and tasks
have ids that were given out (`MintedFirst`), the worker's task is in the queue
until it is acked (`TaskIsQueued`), and it is about to ack only what is settled
or gone (`AckIsDeserved`).

`FinishedHasBundle` needs the invariant `PageInv`, which says how far the worker is:
no context is cancelled (`NothingCancelled`), the record the worker works on is
not settled (`WorkIsUnfinished`), `Delete` removes a record before its objects
(`RecordGoesFirst`), and the files of the rendering that are not in `todo` are
uploaded (`UploadedSoFar`). That the upload of one task cannot touch a FINISHED
record's objects is then the point where `SnapshotImmutable` follows.

The refinement needs `StageInv` as well: while `Create` is between its calls no
task exists, so the late FAILED of `CreateReject` hits a PENDING record
(`CreateIsAlone`), and while the worker works the record is PROCESSING or gone
(`WorkIsMarked`). Each action is then mapped to `Accept`, `Start`, `Finish`, `Fail`,
`Remove` or a stutter.

`OnlyOwnerDeletes` holds because a request that has read its record carries the
owner's permission with it: the project of a record never changes.
`AnsweredDeletionIsComplete` follows from `DeletionInv`: the copy of a FINISHED record
that a request has read names its bundle, and the worker never takes a settled
publication up again (`DeletedIsSettled`), so that nothing is uploaded behind
`DeleteBundle`.

`AcceptedIsQueued` is inductive together with `QueueInv`, step by step: a record becomes
PENDING only by the insert of a new id, not accepted yet (`PendingIsOld`), a creation is
answered with success only once its message is in the queue, and a message leaves the
queue only by an ack, which only what is settled or gone gets (`AcceptedOrAcked`).

In `DeliveryProofs` every step of the composition but a purge that fails is a step of
Publishing (`ComposedStep`), so that the invariants above hold there. A visitor can get
a new answer only by a look at the object store (`NewAnswerIsOrigin`); of a FINISHED
publication that is its page (`OriginIsPage`, from `FinishedHasBundle`), which no step
replaces (`SnapshotImmutable`). So what is stale can only become less.

### Requests per window: RateLimiterProofs

For all projects, limits, windows and clocks, from
`LimiterAssumption` alone: `LimiterTypeCorrect`, `AtMostLimitHolds`,
`MemoryBoundedHolds` and `ImplementsWindowHolds`. None is inductive. `LimiterInv` says that stamps are in the
order of the clock (`Chronological`), that what the map has forgotten has left the
window for good (`KeepsRecent`), that a stored slice fitted into one window when it
was stored (`StoredTogether`), and `AtMostLimit` of every window, one that has not
ended yet included (`Bounded`). The filter then sees exactly the requests that
count (lemma `FilteredIsRecent`), so that `Admit` and `Refuse` decide as
SlidingWindow does and `Cleanup` is a stutter; an admitted request is the newest of
any window it is in, and that window has at most those the filter saw.

### Accounts: AccountsProofs

For all credentials, goroutines and lifetimes and from
no assumption: `ExchangedStaysGone`, `AccountsAreUnique`, `WelcomeIsKept`,
`RenamingIsOwned`, and the type invariant. `SessionInv` adds to `ExchangedIsGone` what
a request carries from one call to the next and that the others cannot take
away (`Underway`): the token to delete is that of a session, the parent of the
session to save has left the collection, the project to rename has the owner
that was compared. One lemma, `UnderwayKept`, shows that for every step; the rest
is one lemma per action. Tokens never come back because `SaveRefreshToken` adds
that of a new session only.

`ExpiredStaysUseless` is about time instead: a request past the check of `Refresh`
began before the token's expiry, however much later it saves the new session.

### The collapse: HistoryLemmas, HistoryProofs

For histories of any length, elements, contents and reverts, provided that the
id that stands for "no element" is none: `ResolveUndoes`, `CollapseYieldsPage` and
`CheckpointsTransparent`. `MaxLen` is a constant like any other here. The invariant
is only that histories consist of mutations of the three kinds (`IsHistory`); the
work is in the lemmas.

They are inductions over histories. The library's induction theorems take an
operator as a parameter, which no installed prover instantiates, so HistoryLemmas
has its own: a statement about numbers is the set of those for which it is
true (`StrongInduction`, `Induction`, `DownwardInduction`, from the well-foundedness of
the order on Nat). A recursive function is first shown to exist, by an induction
over its domain, and then has the equation it is defined by (`ActivityUnfolds`,
`EffectUnfolds`).

* `ActiveInEffect`: once the loop has come down to i, what is active below is the
  first b positions for some b, and what is in effect in the whole history is
  what was in effect after the first b mutations, followed by the active ones
  above i. The loop may only lower b (`ResolveStep`). `ResolvedAreInEffect` follows with
  i = 0.
* `PageIsKept`, `CollapsesToPage`: of each element the newest mutation is kept
  unless it is a deletion, once.
* `Checkpoint`: under the later mutations a stored draft shows the same as the
  history it stands for, because a revert that stays above it removes the same
  mutations from both; what lies below only ever shows or does not.
* `SuffixForgets`, `DraftOnTop`: what the last mutations of a history make of the page
  alone, without those before them or on top of any draft.
* `LastDecides`, `RevertGoesBack`: what the last mutation of a history does to its
  page.

### The mutation log: DraftLogProofs

For any goroutines, mutations, threshold, capacity and length of the log, and
with calls that fail and crashes anywhere:

| theorem | assumes | states |
|---|---|---|
| `DraftLogTypeCorrect` | nothing | `TypeOK` |
| `VersionsConsecutiveHolds` | `OneAtATime` | versions follow each other, and restart only when all mutations are gone |
| `VersionPageHolds` | `Serial`, `Shallow` | the page of a version is that of the history up to it |
| `AckedEffectHolds` | `Serial`, `Shallow` | an answered mutation is in the page of its version |
| `RevertHolds` | `Serial`, `Shallow` | a revert shows the page it goes back to |
| `ImplementsPageHistoryHolds` | `Serial`, `Shallow`, `Separate` | DraftLog implements PageHistory |
| `OnlyDraftsLingerHolds` | `OneAtATime` | what expiry leaves of the latest page |

`OneWriter` is one goroutine that serves mutations of the project, `Serial` the same
without expiry, `OneAtATime` one writer or a semaphore with one slot. `Shallow` is the
constant: no revert counts more mutations than came after the last stored draft.
`Separate` says that who reads the latest page does nothing else, since its
request is then its read in PageHistory. Any number of goroutines read and look up. Section 3
says which run shows that one writer and shallow reverts are needed.

`LogInv` says that versions never exceed the length of the log and that every
mutation begun has room in it. `Numbered`: there is a b, the number of mutations
before the last restart, all of them gone, such that what is left is numbered
from there, and a version that has been computed but not yet inserted is the next
one. Nobody else inserts meanwhile: with one writer by assumption, with one slot
because who is about to insert is first in the semaphore's queue (`AtHead`). Expiry
between the two calls leaves b as it is; who finds no mutation at all chooses
another.

`PageInv` is about contents. What a stored draft shows, and what a page on its way
to a client or to the collection shows, is the page of the history up to its
version; no revert in the log, and none that is about to be inserted, counts
mutations that a draft before it stands for. Since every request collapses the newest draft it may use
and the mutations after it, `Checkpoint` gives the same for the next page.

The refinement maps a successful insert to `Apply`, whether or not its reply
arrives; the beginning of a read to `Ask`; `Label`, the query for the version at
the end of a read, to `Answer`; a read's return, failure or death to `Leave`. All
else is a stutter: the page that a read will answer with is that of a moment
after its `Ask`, from `PageInv` alone.

With expiry `PageInv` is false, and `OnlyDraftsLinger` needs less: `AllSound` says only that
logs, ranges and drafts are made of mutations, whatever they leave out. By `Numbered`
the mutations after the newest draft are neighbours in the log up to its end, or
none (`RangeLies`, `InOrderSlice`). `DraftOnTop` says what they make of a draft that may
lack anything, `SuffixForgets` that the whole history agrees with them on what they
show.

### Only model-checked

Liveness: `TaskSettles`, `DeletedPageFadesOut`, `FinishedPageComesThrough` and
`EveryRequestReturns`. Their proofs need ENABLED, which is out of the prover's reach.

## 5. Plan

Done: publishing with its delivery, the mutation log with its semaphore and
expiry, the rate limiter, accounts and projects, and the theorems above. Next:

1. Publishing composed with the mutation log: the snapshot the worker renders is
   the page of some version between its request and its rendering.
2. A property for the objects that a failed upload leaves under a FAILED record.
3. An abstract specification of sessions that `Accounts` implements: a token is
   good from its issue to its expiry or its exchange.
4. Theorems about several writers: what of `AckedTakesEffect` is left when
   versions coincide.

Not modelled, for good: static files, HTTP helpers, the reading of
configuration, generated Swagger documents, container files and scripts; they
keep no state. JSON schema validation, status codes and the conversion of
drafts are left out because no property is about them.
