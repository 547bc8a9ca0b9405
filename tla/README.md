# Verification of solid-community-rs

TLA+ specifications of the Solid server in this repository: its request
pipeline and in-memory LDP store, the integration suites that are run against
it, and the storage, identity and HTTP libraries beside it. TLC checks small
instances; TLAPS proves every safety property that a passing run checks, three
refinements among them, for any number of requests, runners, tasks, keys and
rights. Of the five properties that runs find violated it proves three under the
conditions under which they do hold.

## 1. Inventory

The workspace holds seven crates. The server that runs (`solid serve`) is
`server-core` with `authz`; `http-types`, `solid-storage`, `identity` and
`static-assets` are libraries which the server does not call yet.

| Component | State | Operations | What makes it correct |
|---|---|---|---|
| LDP store, `server-core/src/store.rs` | `inner`: one map from keys to entries behind a `std::sync::RwLock`, shared by all requests | `new`, `get`, `put`, `delete` | answers tell the truth about existence; containers are there above what is stored; content is lost only by request |
| LDP handlers and router, `ldp_handlers.rs`, `routing.rs` | none of their own; each request is a task with its key, body and response | GET, HEAD, PUT, POST, DELETE, OPTIONS, PATCH; 405 | what a GET serves was written there by an accepted request; a failed upload leaves nothing; no request waits for another client |
| Pipeline and authorization, `pipeline.rs`, `middleware.rs`, `authz` | the credentials beside the request | read permissions, decide, admit or answer 401 / 500; CORS headers | nothing happens without a grant |
| Application lifecycle, `app.rs`, `cli/src/serve.rs` | the listening socket; the store of this run | `start`, `stop`, `serve` | every run starts with an empty store |
| Expiring storage, `solid-storage/src/backends/expiring.rs` | a source with wrapped values; a background task with its interval | `get`, `has`, `set`, `set_expiring`, `delete`, `entries`, sweep | nothing is served past its deadline or lost before it; what expired is removed; the task ends with its storage |
| Memory storage, `backends/memory.rs` | one map behind a `Mutex` | `get`, `has`, `set`, `delete`, `entries` | each operation is atomic |
| JSON file storage, `backends/file.rs` | one file; a tokio `RwLock` | the same, each a read of the whole file, writes a rewrite of it | an acknowledged write survives; the file always parses |
| Key-value traits and pass-through, `key_value.rs` | none | the same with keys translated | a view is a storage of its own, whoever shares the map below |
| Resource store traits and wrappers, `resource_store.rs` | none | `PassthroughStore`, `ReadOnlyStore`, `BaseResourceStore`, stacked | nothing changes through a stack with a read-only layer in it |
| Account and cookie stores, `identity/src/account.rs` | accounts with login counts and settings; cookies with expiry | create, count logins, settings, delete, prune; generate, get, refresh, delete | an account with a login survives every pruning; expired cookies are refused, refreshed ones live |
| Client credentials, `client_credentials.rs` | two maps, by id and by label, with a lock each | create, get, find, delete | a label leads to credentials that exist |
| Pods, `pod.rs` | two maps, pods and owner rows, with a lock each | create, get, find, owners, update, remove | one row per owner; a removed owner is no owner; a pod keeps its first owner |
| WebID links, `webid.rs` | one map | create, get, find, is_linked, delete | a link is found until deleted |
| HTTP types, `http-types` | none | identifiers, operations, preferences, handlers, errors | `parent` and `join` are inverse; preferences are ranked stably |
| Static assets, `static-assets` | none | longest prefix, then a file read | the longest prefix wins |
| Integration tests, `integration-tests` | what a runner has selected, sent and counted | six suites of cases, a sequential client with a timeout, a runner | the verdict of each case is the same in every interleaving; cases clean up; a run ends |

Interactions. A connection's request passes `cors_middleware`, then
`authz_middleware`, then the router calls a handler with the shared `LdpStore`.
The tasks share nothing else. The integration runner is such a client, one
request at a time; a request it has given up on may still be carried out. `WrappedExpiringStorage` calls its source, which
its background task calls too, through a weak reference. The identity stores are
called by several tasks and hold their locks for single map operations.

Hard behaviours. `LdpStore::put` takes the write lock twice, and any request may
run in between; a body is awaited without a timeout and its connection may
close, which drops the task where it awaits. The expiring storage decides on
what it has read and deletes later. The file storage rewrites its only copy in
place. The credentials and pod stores keep two maps consistent under two locks.
The account and cookie stores read the clock before they wait for the lock, and
let go of the lock between pruning and what comes next. The full list is `hazards` in `PROJECT.json`, each with its line.

## 2. Modules

| Module | Models | How |
|---|---|---|
| `ResourceKeys` | the keys of the LDP store and the arithmetic on them in `ensure_ancestors` and `handle_post` | operators; a key is a sequence of segments and a flag for the trailing slash |
| `ContentNegotiation` | `accept_satisfied` | operators; a header is a set of tokens |
| `LdpServer` | `LdpStore`, the handlers, the router, the authorization middleware | one action per handler or per stretch of it between two awaits or lock acquisitions |
| `ResourceMap` | what the server promises | abstract: an atomic map of resources |
| `LdpServerProofs` | | theorems about `LdpServer` |
| `IntegrationSuites` | the suites, the client, the runner, composed with `LdpServer` | cases as sequences of steps; one action per call of the client |
| `IntegrationSuitesProofs` | | theorems about `IntegrationSuites`, with those of `LdpServerProofs` at hand |
| `ExpiringStorage` | `WrappedExpiringStorage` over `MemoryMapStorage`, its background task, the clock | one action per operation on the source |
| `KeyValueStorage` | the promise of the trait of that name | abstract: a linearizable map on a medium that may fail |
| `JsonFileStorage` | the file, its lock, the blocking writes, crash and cancellation | one action per await |
| `ExpiringStorageProofs`, `JsonFileStorageProofs` | | theorems about the two storages |
| `PassthroughStorage` | `PassthroughKeyValueStorage` with the key rewriting of its `PrefixStorage` example, over `MemoryMapStorage` | one action per operation; each view refines `KeyValueStorage` |
| `ResourceStores` | `PassthroughStore`, `ReadOnlyStore`, `BaseResourceStore` | a handle is a stack of layers over one store |
| `HttpTypes` | the algebra of `ResourceIdentifier`, the parsing and ranking of `Accept` | operators, driven by a caller that derives identifiers and reads a header |
| `Library` | | the three modules above side by side |
| `LibraryProofs` | | theorems about them |
| `ClientCredentials` | `BaseClientCredentialsStore` | one action per critical section |
| `AccountStore`, `CookieStore` | `BaseAccountStore`, `BaseCookieStore` | a clock; one action per reading of it and per critical section |
| `PodStore` | `BasePodStore` | one action per critical section |
| `WebIdStore` | `BaseWebIdStore` | one action per operation |
| `IdentityStores` | | the five stores side by side |
| `AccountStoreProofs`, `CookieStoreProofs` | | theorems about these two stores, each with a clock |
| `IdentityStoresProofs` | | theorems about credentials, pods and links, and about the stores together |
| `MC*` | | instances for TLC |

`IntegrationSuites` composes with the server: its runners produce the requests
and read the answers. `IdentityStores` and `Library` put components together
that share no state and no lock; a variable `focus` chooses the one that moves,
since interleaving the others would add states but no behaviour of any of them.

### LdpServer

`store` is `LdpStore::inner`. A request is identified with its body and, for a
POST, with the UUID the server appends to its target, so that every body tells
who wrote it. Its `pc` goes `new` (not sent), `authz` (before
`authz_middleware`), `handler` (in a handler, waiting for the body if there is
one), `ensure` and `insert` (before the two critical sections of
`LdpStore::put`), then `done`, or `lost` when the connection closed while the
task awaited. A request line names a key in one of several spellings: the
middleware decides on the path as it was written, percent-encoding and a doubled
leading slash included, the handler acts on the key that this decodes and
normalises to, so `Grants` are by agent, key, spelling and mode, and the path
that does not decode (`malformed`) is answered 400 before any handler.
`policy` is what the authorizer goes by at the moment; it may change at any time
(`ChangePolicy`), and `seen` is the history of what it has been while a request
was before it. A request enters in two steps: `Arrive` fixes what the client
sends (by `Receive` anything of `Methods`, `Targets` and the rest; by
`IntegrationSuites` the line of the next step), and the middleware takes it from
there. `ensure_ancestors` and `put` are the two critical sections; every
other handler looks at the store once and is one action, guards and answer
included. `target` is the key a write uses, `resp` the answer, and `auto`
records which containers `ensure_ancestors` has created for whom. `handle_post`
builds its response after the child is stored. If the new key holds a character
no header can (`Unprintable`), the Location cannot be built and the answer is 500
with the resource in the store: `put` answers so, and `Unlocated` names these
requests in the properties that relate answers and store.

Left out: keys with empty segments, and locations whose own text holds a
percent-encoding, which would decode to another key when followed; the wording of
headers beyond status and Link; CORS headers; `exists`, a read nothing calls,
and the `rs_*` bridge, which delegates to `get`, `put` and `delete`, is called by
nothing, and does not fit the trait it is written for. `RequestPipeline::default` is the pipeline
modelled. A permission reader that fails and an authorizer with any set of
grants for each of any policies, between which it changes, stand for every
implementation of the two traits.

### IntegrationSuites

A case is a sequence of steps; a step is a request, what its assertions accept
of the answer (statuses, content type, Link, header, body of an earlier step),
and whether it is a cleanup, whose answer is ignored. A failed assertion ends
the case, as `?` does, so its cleanup is not reached. `Send` and `Proceed` are
the client's call and return; `TimeOut` is reqwest's, with the request anywhere
in the server and whatever the other runners do. `MaxTimeouts` bounds how often a
runner's patience ends, given what all have selected. Bodies and paths are texts with UUIDs in the code, and the number
of the request and the case's UUID here. A connection the client waits on
delivers its body; one it has dropped may break.

### ExpiringStorage

The clock has ticks finer than the whole seconds the code stores. An operation
that reads, looks at the clock and then writes is two actions. The background
task goes `sleep`, `filter` (it has a snapshot), `purge` (it deletes what had
expired, one key at a time), `stopped`. `pending` is its snapshot, `due` when
its interval fires. Errors of the source are modelled where the code ignores
them; elsewhere they are passed to the caller and change nothing. Bounds:
`MaxTime` stops the clock, where the interval goes on firing, and `MaxWrites`
the number of values. The interval is not zero.

### JsonFileStorage

`file` is absent, blank (truncated), garbled, or a map. An operation is
`waiting` for the lock, `holding` it, `writing` (the blocking write is queued) or
`truncated`. A dropped future gives back its lock at once: `Cancel` before the
write was handed over, `Abandon` afterwards, when the write goes on without the
lock. A task rests until the write it has abandoned is over, so there are never
more writes than tasks. A crash or a full disk in the middle of a write leaves any
beginning of it. `abandoned` and `struck`, which remembers what has cut a write
short, are history. Two writes that
overlap start at the beginning of the file, so the longer one can stick out:
the file is then garbled.

### ClientCredentials

`by_id` and `by_label` are the two maps. create, delete and find_by_label let go
of the first lock before they take the second; a task in between is in `create`,
`delete` or `find`. `given`, `created`, `deleted`, `before` and `gone` are history.

### AccountStore and CookieStore

`Begin` is `Instant::now()` or `Utc::now()` before the lock; `prune_expired` and
`prune` are the critical section that uses that time, possibly later. `create`
and `generate` take the clock again (`Stamp`) and then the lock once more.
`get_setting` prunes under one lock and looks under the next. An operation that
bails changes nothing and has no action. One setting stands for all the
settings of an account. `linked`, `drawn`, `deleted`, `revived` and what a task
`saw` or found `idle` when it began are history.

### PodStore and WebIdStore

`create` is `create` (the pod) and `RecordOwner` (the row of its owner); between
them the pod can be found and its owners updated. Who is asked about is `Known`:
what the queries answer, and ids that are no pod's, because `update_owner` does
not look whether the pod exists. `given`, `raced` and `removed` are history. A
WebID link is one row, and every operation one critical section.

### PassthroughStorage and ResourceStores

Views rewrite keys and share the map. `to_original_key` takes the prefix off as
often as it is there, as `trim_start_matches` does, and leaves the keys of other
views as they are. `Separate` says what this needs to be right: no key begins
with a prefix. `Own` is what a client has to make of `entries`, which lists the
keys of all views. `None`, which stands for no map and no answer, is none of
these. In `ResourceStores` a call runs through its layers in one
poll and reaches the shared store, or does not; the store itself is external,
and may refuse or never answer.

### HttpTypes

An identifier is its text cut at every slash; the empty text between two
slashes is `BlankPart`, so doubled slashes occur. `UrlPath` is the path as
`Url::parse` gives it: it looks for the authority behind any number of slashes,
ends the path at a query or fragment (`Cut`), percent-encodes (`Encoded`) and
resolves dot segments (`Resolved`). `Occurs` models the search of `path_only` for
that text in the one given, which can match too early, inside a longer part
(`Beginnings`), or not at all. A header is a sequence of media types with the text
of their q, absent, unreadable and NaN alike. The standard library sorts short
lists by insertion, and being stable gives longer ones the same result if the
comparison is an order: `Ranked` inserts a range behind those that are no worse. NaN compares
as equal to everything, which is no order, so that the result for a longer list that
holds it is any permutation. (The sort may also panic on it; a panic makes no list.)

## 3. Runs

| Run | Instance | Shows |
|---|---|---|
| `ldp_writes` | three requests, GET, PUT, POST, DELETE and a method without handler, four targets and a path that does not decode, a name that fits no header | `AncestorsAccounted`: a missing parent was removed by an answered DELETE. `ExistenceAccounted`: creations less deletions, as answered, are what the store holds. `StoredWasWritten`: nothing in the store that an accepted request did not put there, or a POST answered 500 for want of a Location. `ReplacedOnlyByRequest`: no entry vanishes or changes but by a PUT or DELETE of its key. `ImplementsResourceMap`: the server implements the atomic map |
| `ldp_methods` | two requests, every method with a handler, a container and what POSTs create in it, in two spellings, two policies that alternate, two media types, failing permission reader | `ServedWasWritten`. `EffectsAuthorized`: what a request did was granted for its path as written, under a policy in force while it was before the middleware. `StalledUploadBlocksNobody` under fairness |
| `ldp_ancestors` | two requests | finding: a PUT answered while its parent is missing |
| `suites` | two runners, each with one suite or none; a runner alone times out once, twice in a small suite; of two with small suites the first does | `Verdicts`: which cases pass, in every interleaving. `LeftBehind`: exactly what the suites leave in the store. `DocumentsOfPassedCasesGone` with timeouts. `RunsEnd` under fairness |
| `expiring` | two clients, one key, two ticks to the second, four ticks, a source whose snapshot or delete may fail | `ExpiryIsTight`, `UnexpiredLostOnlyInRace`, `ExpiredIsSwept`, `DropEndsSweeper` |
| `expiring_race` | the same | finding: the sweep deletes a value written after its snapshot |
| `json_file` | two tasks, two keys, two values, all faults | `ImplementsKeyValueStorage` until a write is abandoned; `DamageHasCause`: a file that does not parse was struck in the middle of a write, is being written, or met an abandoned one; `OperationsEnd` |
| `json_crash` | one key, crashes only | finding: the overwrite is not atomic |
| `json_cancel` | one key, cancellations only | finding: the lock does not cover an abandoned write |
| `identity` | two tasks on each store; three tokens, two accounts, two cookies, two pods and a stranger, three owner rows, three links; four ticks, expiry and TTL of two | credentials: `FoundIsHonest`, `LabelResolves`. Accounts: `LinkedAccountsLive`, `IdleNotServed`, `NeverPrunedEarly`. Cookies: `ExpiredRefused`, `RefreshHolds`. Pods: `OneRowPerOwner`, `RemovedIsNoOwner`, `FirstOwnerKept`. Links: `LinksAccounted` |
| `credentials_shared` | two tokens, two accounts | finding: a label shared by two accounts is unindexed by the delete of the other |
| `library` | two views and two clients; every stack of two layers; identifiers of six parts, with names that `Url::parse` rewrites, cuts or drops and one the host begins with; headers of four ranges, with a q below 0, above 1, unreadable, absent or NaN | `ViewIsStorage`: a view refines `KeyValueStorage`. `ReadOnlyHandlesOnlyRead`. `IdentifiersRelate`, `PreferencesRanked` |

Every module has one type invariant, which for the stores includes what a lock
holder or a waiting task must have.

Bounds. Three requests are what the races here need: a writer, somebody who
removes its parent or competes for its key, and somebody who looks or writes
below; with three, two of a kind and one of the other occur in every order. The
targets are the root, a container, a document in it, and a document with the
container's name. Two requests are enough where each property is about one
request and one rival; one container is enough there, since what it and its
children serve covers both kinds of entry, and the container can be created by a
PUT or on the way of a POST. Of its two policies one lets everything through and one
only reads in one spelling: they differ in mode and in spelling, and each can be
in force before or after the other. One key is enough for the expiring storage since its keys
do not interact, and four ticks of half a second let an entry be written,
expire, be snapshot, and be replaced. Two tasks are all that a lock or a pair of
maps brings together in one race; three tokens allow a dead one, its successor
and a rival, and three owner rows the two of a raced pair and one of another.
Two pods suffice since a row is about one pod, and the second shows that another
pod's rows stay. An expiry of two ticks leaves one on which an account or a
cookie is neither new nor expired, and four ticks let what was refreshed or
created at the latest moment expire too. Two runners with one suite each bring every
pair of suites together; a filter with several suites runs them one after the
other, so it adds nothing but length. Timeouts are explored
for a runner alone, where what it has left in the server is the concurrency
(two are enough for a request and the cleanup of the same case), and for one of
two runners whose suites are small; the theorems about the suites hold for any
number of runners and timeouts. Six parts hold a URL with two
segments and a slash that `parent` or `as_container` adds; four ranges hold
two equal ones with others before and between. In `identity` the identifiers of different
stores share model values, since the stores never meet. `ldp_writes` and the
identity and credentials runs use symmetry; they check safety only. The limit of `splitn` is the code's 100 and
never binds in a run; the theorems hold for any limit from 2 up, and
`ShallowAncestorsLeft` says down to what depth it is without effect.

Stopping. Requests are finite in number and ids of tokens too: `Quiescent`,
`Over`, `Gone` and `Exhausted` let the model idle then, so deadlock is checked
everywhere but in `library`, where an identifier or a header of full length is
where the caller stops.

Fairness. tokio polls every task that is ready, and no lock of the LDP store is
held across an await: weak fairness on what a task does without its client
(`Serve`). Clients owe nothing: no fairness on `Receive`, `ReadBody`, `BodyFails`
or `Disconnect`. In `ExpiringStorage` time passes, the background task and every
operation begun are polled, and a source that can fail does not fail for ever
(strong fairness of `Snapshot` and of each `PurgeKey`). In `IntegrationSuites` the
runtimes on both sides poll what is ready and the client sends the body of what
it waits for: weak fairness on `Send` and `Proceed` of each runner and on `Serve`
and `ReadBody` of each request, none on timeouts and broken connections. In `JsonFileStorage` the lock is
tokio's, which is first come, first served (strong fairness of `Acquire`), and
what holds it is polled. The identity stores and `Library` state no liveness and
no fairness.

## 4. Proofs

| Theorem | States | Argument |
|---|---|---|
| `TypeCorrect` | `LdpServer!TypeOK` | with `Phases`, which says what each `pc` has settled |
| `HierarchyKept` | `AncestorsAccounted` | `HierarchyInv` |
| `ShallowAncestorsLeft`, `EveryAncestorLeft` | `PutLeavesEveryAncestor`, where nobody deletes and `splitn` takes the key apart | `HierarchyInv`; `DepthInv` for the second |
| `ContentAccounted` | `StoredWasWritten` | inductive with the type invariant; answers and writers stand (`AnswersStand`, `WriterStays`) |
| `OnlyTheGrantedAct` | `EffectsAuthorized` | `AuthorizedInv`: past the middleware, a request has been granted what its method needs, by a policy in `seen` |
| `ServedAccounted` | `ServedWasWritten` | from `ContentAccounted` at the moment of the answer; writers stand |
| `ContentNeverLost` | `ReplacedOnlyByRequest` | action property, from `SlugInv` |
| `ServerIsResourceMap` | `ImplementsResourceMap` | step simulation, from `SlugInv` |
| `AnswersAddUp` | `ExistenceAccounted` | `ExistenceInv`, with `StartedInv` for the cardinalities |
| `StorageTyped` | `ExpiringStorage!TypeOK` | with what each client and the sweeper carry |
| `ExpiryTight` | `ExpiryIsTight` | action property: rounding to seconds |
| `LostOnlyInRace` | `UnexpiredLostOnlyInRace` | action property, from `PendingExpired` |
| `FileTyped` | `JsonFileStorage!TypeOK` | with what an operation under way carries |
| `FileIsKeyValueStorage` | `ImplementsKeyValueStorage` | step simulation, from `Sound` |
| `LockProtectsFile` | `FileStableUnderLock`, where no future is dropped | `Sound` |
| `DamageExplained` | `DamageHasCause` | from `Sound`, which until a write is abandoned lets a writer meet only its own blank file |
| `SearchesAreHonest` | `FoundIsHonest` | `IInv` |
| `LabelsResolve` | `LabelResolves` | `LInv` |
| `OneAccountsLabelsResolve` | `UniquePerAccountResolves`, where there is one account | `LabelResolves` with `StoredIsCreated` |
| `AccountsTyped` | `AccountStore!TypeOK` | inductive |
| `LinkedAccountsSurvive` | `LinkedAccountsLive` | inductive with the type invariant: ids are drawn once and the last login stays |
| `IdleRefused` | `IdleNotServed` | `IdleDealtWith`, `LoginsAreLinks` |
| `PrunedInTime` | `NeverPrunedEarly` | action property, from `TimesPast` |
| `CookiesTyped` | `CookieStore!TypeOK` | with `Accounted`, which says what each operation carries |
| `ExpiredIsRefused` | `ExpiredRefused` | `SawDecides` |
| `RefreshStands` | `RefreshHolds` | action property, from `TimesPast` and `SawDecides` |
| `OneRowForAnOwner` | `OneRowPerOwner` | `PodInv`: `PendingUntouched`, `PendingOnce` |
| `RemovedOwnersGone` | `RemovedIsNoOwner` | the same |
| `CreatorsStayOwners` | `FirstOwnerKept` | `FirstRowKept` |
| `StoresTyped`, `FoundHonestly`, `LabelsLead`, `AccountsWithLoginLive`, `IdleAccountsRefused`, `NothingPrunedEarly`, `ExpiredCookiesRefused`, `RefreshesStand` | the same of `IdentitySpec` | composition, see below |
| `LinksStand` | `LinksAccounted` | `LinkInv` |
| `ReadOnlyHandles` | `ReadOnlyHandlesOnlyRead` | action property, from `CallsFiltered` |
| `ViewsAreStorages` | `ViewIsStorage` | step simulation under the map `Seen`, from `ViewInv` |
| `IdentifiersRelated` | `IdentifiersRelate` | `IdInv`, which gives every identifier a normal form; `PathFound` and `PathMissed` for `path_only` |
| `HeadersRanked` | `PreferencesRanked` | `HeaderInv`: `Listing` and `Ranking` of the header read so far, by `RankedOneMore` |
| `SuitesTypeCorrect` | `SuitesTypeOK` | with `Phases` and `Underway`: who waits has sent what it waits for |
| `VerdictsRight` | `Verdicts` | `RunInv` |
| `PassedCasesCleanUp` | `DocumentsOfPassedCasesGone` | `RunInv` |
| `LeftoversKnown` | `LeftBehind` | `RunInv` |

Assumptions are the named ones of the modules: slugs are fresh and no target
names one (`SlugAssumption`), Turtle is a content type, sentinels are none of the
values they stand beside, `SplitLimit` is at least 2; expiry and bounds are
natural numbers, the TTL of a cookie is positive (`AccountAssumption`,
`CookieAssumption`), and no stranger is a pod (`PodAssumption`). The last three
are named in the theorems of their stores; `IdentityAssumption` assumes them for
the theorems about all stores. `LibraryAssumption` says that no prefix begins
with another and no key with one, that a handle is a finite stack of decorators,
that scheme, names and the blank text differ, that hosts, dot segments and what is
cut are names, that encoding makes names of names, that every name begins with itself,
and that a q is an integer (in tenths) or one of the three that are none. `SuitesAssumption` says that a
request is the n-th of a runner, that the requests of the suites are among those
the server is given, that its authorizer grants them all under every policy, as the
pass-through one of the tests does, that a header can hold their names, and that
`splitn` cuts at least three parts. TLC
evaluates every assumption.

`AncestorsAccounted` is not inductive. Between the critical sections of a put
the key is not stored and its ancestors already are; when it is stored, they
must have been there or have been deleted since. `HierarchyInv` adds this for
every task at `insert`. That the ancestors of an automatically created container
are accounted for needs that the visited ancestors of an ancestor are among
those of the key (`EnsuredIsTransitive`). `HeldStays` shows that a container only
leaves the store by a DELETE that answers for it.

The theorems with a condition say where a claim of the code that a run refutes
does hold, so they show that the finding has no other cause. Nothing can remove what
`ensure_ancestors` has seen to if `DELETE` is not among the methods;
`ShallowAncestorsLeft` concludes that put leaves every ancestor of a key with
fewer segments than the limit of `splitn`. A POST to the location of a POST goes one
deeper each time, so `EveryAncestorLeft`, which is about all puts, leaves room for one slug
per request: `DepthInv` bounds the depth of a key by that of the targets and the
number of slugs in it (`ChildIsShallow`). `LockProtectsFile` asks only that no
future is dropped; crashes and full disks may come. For credentials one account is enough, since its
labels are unique and `LabelResolves` leaves no other way to lose one. What the
sweep of `ExpiringStorage` may delete is `UnexpiredLostOnlyInRace` without condition.

`ReplacedOnlyByRequest` needs that the key of a POST is nobody else's: `SlugInv`
says that before a POST is over nobody knows its slug: no key of the store, no
request line and no other request's target mentions it. With it, the second critical section of a POST creates
and never replaces. In the simulation of `ResourceMap` a request takes effect
where the store answers for it: in the second critical section of a put. The first
adds containers that are not there, which is the map's `Appear`.

`ExistenceAccounted` counts over all requests. `StartedInv` keeps those that have
begun finite, so that the sets of creations and deletions have cardinalities;
`ExistenceInv` says for each key that they balance against the store and what
`ensure_ancestors` has created, and each step moves one element of one set.

`UnexpiredLostOnlyInRace` needs `PendingExpired`: what an eviction or the sweep is
about to delete had expired in the version it has read, and time only moves on.
So an unexpired entry that goes was written after that look.

For the file, `Sound` holds until a write is abandoned. `LockInv`: whoever works on
the file holds the lock, a writer alone. `WriteInv`: what is about to be written
is what the file holds, edited, and after the truncation the file is blank.
A writer takes effect when it truncates (`TruncateIsTake`), because from then on
nobody can look until it has filled the file; a failure in between, or a
crash, leaves an unreadable map (`FailureIsFail`, `CrashIsStop`). Without the
condition the theorem is false, as `json_cancel` shows. Its assumption on the
sentinels says that no state of the file and no operation can be taken for another.

`LabelResolves` is inductive with three facts. `NotYetReturned` and `OneTaskEach` say
that the token of an operation under way is not yet created or deleted, and no
two tasks are in the same half of one token's life. `BeforeIsOver` says that the
earlier tokens of a label have been created and deleted, so that no delete to
come can be of them.

`FoundIsHonest` is not inductive either: `IInv` adds that the index leads to tokens
created with that label, that what is being searched for has the label asked
for, and that stored tokens and deleted ones are disjoint, because ids are
drawn once and delete removes the token first.

`IdleNotServed` and `NeverPrunedEarly` depend on times that differ from the
clock. `TimesPast` says that a time a task or a row holds has passed, so whoever
was old enough by it is old enough now. `IdleDealtWith` follows each account that
was idle when a call began: as long as the call has not pruned, the account is
old enough by the call's time; afterwards it is gone or linked, because only a
login saves it (`LoginsAreLinks`) and no id is drawn again.

`ExpiredRefused` and `RefreshHolds` need `SawDecides`: a cookie that is there at
the end of a call was there at its beginning, its expiry then was at most a TTL
after the call's time, and if it had passed it still has unless a refresh revived
the cookie. From the second part, a refresh that moves an expiry back cannot have
seen that expiry.

For the pods, `OnlyKnown` says that rows and removals are about pods that exist or
strangers. Hence the pair of a fresh pod has no row, no removal and no other
`create`; it loses this only by being touched, which puts it in `raced`
(`PendingUntouched`, `PendingOnce`).

`IdentityStoresProofs` instantiates the proof modules and shows that every
behaviour of `IdentitySpec` is a behaviour of each store's `Spec`: a step of another
store leaves its variables alone, or is a `Tick` of the clock that accounts and
cookies share (`StepOfOne`). `LinkInv` says that the rows are exactly the links created
and not deleted, each under its own id.

A handle reaches the store below with its decorators passed, so what is on its way there says
what they let through: `CallsFiltered`, that nothing but a read is, if one of them is
a `ReadOnlyStore`. The store changes for what is on its way (`ReadOnlyHandles`).

A view has no map of its own; `Seen` reads it off the shared one, as what that holds under
the view's keys. `OthersUnseen` and `OwnSeen` say what a write does to it,
under another view's key and under its own, and `OwnEntries` that the client of
a view recognizes its own entries among all. The last rests on what
`trim_start_matches` does with a key of the view (once, because no key begins with
the prefix) and with any other (nothing, because no prefix begins with another).
`ViewInv` adds that nothing is in the map but under some view's key.

`IdentifiersRelate` speaks of identifiers that were derived in any number of
steps. `IdInv` says that each is a base (`/`, the authority of a URL, or what the
parent of an authority leaves of it), then names, then blank parts. Each operation
is computed on this form: `as_document` takes off the blank parts, `parent` the
last name too. For `path_only`, `AuthorityOf` and `PathOf` compute what
`Url::parse` answers of a URL with tidy names, namely its own text behind the
authority. `PathFound` shows that no earlier place holds that text: its
first slash would have to be one of the two before the authority, where the
next part is blank or the host. `PathMissed` shows where the text of a short path is
found instead.

`PreferencesRanked` is about a sort. That every named part is listed once, as a
bijection, holds whatever the weights are (`HeaderCollected`); the places hold if none is NaN.
`Place` is where a range belongs among the
first k parts of a header: behind those that are better, or equal and earlier.
`Before` is a strict total order (`Ordered`), so the places are those of a sequence
(`Places`). `PlacesOneMore` and `Inserted` say how the places and the list change with one
part more, and `RankedOneMore` that every
range then is at its place, by counting: those ahead of the new one are exactly those it is
inserted behind, and the others move up by one. The rest is an induction over
the parts, by the least number of parts that would not be ranked (`Least`).
That the recursive function in `Collected` satisfies its equation is derived in the same way
(`CollectedIs`), since the library's theorem about it takes an operator.

The verdicts of a run depend on what every other runner, and every request it has
given up, may still do to the store. `RunInv` has four parts.

- `Owned`: beside the root, every key in the store is below the UUID of a case that has
  begun. UUIDs belong to one case (`UuidsDistinct`).
- `Asking`: every request that was sent is that of a step of such a case; it is
  over, or its runner waits for it, or its case has timed out.
- `Position`: a case behind its runner has been reported as `Verdicts` says, and
  the store holds what its steps leave (`Housed`) unless it timed out. For the case a runner is in,
  `Doing` says what the steps before have left at the one key it is about, and
  what the server has done of the request awaited (`Awaiting`) or answered
  (`Settled`).
- The root is there, which no case deletes.

A server step changes no key outside the case its request is of (`Confined`), so
it disturbs the `Position` of no other case (`PositionElsewhere`). A request that
is not awaited belongs to a case that has timed out, of which `Position` asks
nothing. There remains the request awaited: it runs alone below its UUID, and
`AwaitedServed` follows it from `Awaiting` to `Settled`, with `ensure_ancestors`
between. `Judged` then compares answer and assertions: they agree, but for
the second steps of the two cases in `Refused`. That the answers of the
suites' steps are these is a property of the texts of the cases (`Sound`), shown of all
cases of all suites by `CasesAreSound`. `LeftBehind` is `RunInv` when all runners are
done and nothing has timed out.

Only model-checked: liveness under fairness (`StalledUploadBlocksNobody`,
`RunsEnd`, `ExpiredIsSwept`, `DropEndsSweeper`, `OperationsEnd`), which is beyond
the prover. The prover can use neither recursive operators nor the library's
induction theorems. Where a definition could be written without recursion, it
is: `to_original_key` finds how often the prefix can be taken off, `Below` the
outermost decorator that refuses. `Collected` and `Resolved` use recursive functions.

## 5. Findings

Shown by a run:

1. `store.rs:110`: a DELETE between the two critical sections of `put` leaves the
   new resource without its parent, although `store.rs:99` promises every
   ancestor (`ldp_ancestors`).
2. `expiring.rs:148`: the sweep deletes values written after its snapshot
   (`expiring_race`); `get` has the same race (`UnexpiredLostOnlyInRace` says that
   these two are all).
3. `file.rs:87`: the "atomic" overwrite truncates first (`json_crash`).
4. `file.rs:117`: a cancelled `set` writes on without the lock (`json_cancel`).
5. `client_credentials.rs:172`: the index forgets a label that two accounts share
   (`credentials_shared`). Its comments disagree about labels: line 30 has them
   unique per account, line 52 globally unique, and line 61 with a UUID as suffix;
   `create` enforces none of this.

Met while modelling; the models follow the code, and no run is about them:

- The root can be deleted (`store.rs:136`), although `store.rs:45` says it must
  always exist.
- `wac.rs` expects a 401 for an `.acl` and a WAC-Allow header; the server answers
  200 without one, so two of its cases always fail and leave their documents
  (`Verdicts` and `LeftBehind` say so).
- The suites say that every test cleans up after itself; the containers that the
  server creates on the way are never removed, and a container is deleted with
  its child still in the store (`LeftBehind`).
- `ResourceIdentifier::parent` ends in two slashes (`identifier.rs:82`), where its
  documentation (line 76) and the tests from line 253 on expect one. The root of a
  host has a parent, `http:` and slashes, although line 72 says `None` and the test at
  line 271 asserts it.
- `path_only` promises the path (`identifier.rs:53`), but searches for its text from the
  start of the URL: a URL without a segment answers `//host/`, where the test at line
  319 expects `/`; `http://test.com/test` answers `/test.com/test`; and what
  `Url::parse` rewrites is not found at all, so the whole URL comes back.
  `IdentifiersRelate` says so of the first two.
- `operation.rs:132` says that malformed entries of a header are skipped; a malformed
  q counts as 1 (line 145), and `PreferencesRanked` has such a range listed. Line 122
  says that the list is in descending order; NaN, which `f32` parses and `clamp` lets
  through, compares as equal to everything (line 157) and can keep two others from
  being compared.
- `splitn(100, '/')` (`store.rs:149`) folds what lies deeper, so of a key of a hundred
  segments or more not every ancestor is created, as line 99 promises.
- The middleware decides on the path as written (`pipeline.rs:92`), the handlers act on
  what it decodes and normalises to, so an authorizer that goes by paths must know
  all spellings of a key (`EffectsAuthorized` speaks of the spelling).
- A POST whose Location cannot be built is answered 500 after its child was stored
  (`ldp_handlers.rs:413`).
- `entries_passthrough` promises a snapshot of the source at the call
  (`key_value.rs:222` to 230); the source is listed when the future is polled.
  `ViewIsStorage` asks only that the answer is one of a moment during the call.
- The waterfall handler forwards to its first handler only, whether or not a
  later one would accept.
- `delete` of an account promises to remove all associated data and knows only
  the account; pruning, promised for the next mutating call, happens in `create`
  and `get_setting` alone.
- `PodStore::create` ignores `overwrite`, and `remove_owner` removes one row where a
  race has left two (`RemovedIsNoOwner` names the race).
- `trim_start_matches` in the documented `PrefixStorage` takes off more than the
  prefix when a key begins with it, and `entries` lists foreign keys.

## 6. Not modelled, and the plan

Not modelled, and why:

- Static assets: a stateless longest-prefix lookup followed by a file read, which
  nothing in the server constructs.
- The application lifecycle: binding and serving are I/O, `stop` does nothing, and
  `--root-dir` is only warned about. Each run starts from `LdpStore::new`, which
  is the Init of `LdpServer`.
- The errors and their statuses, `metadata.rs` and `representation.rs`: records and
  tables without behaviour. The waterfall handler: one forwarding call, which
  nothing constructs.
- Argument parsing, logging, TLS, sockets, wording of errors and headers.
- Poisoned locks: nothing panics while it holds one.
- In `ExpiringStorage`: `get_raw`, an interval of zero, source errors that are only
  passed on.

Every component with a specification has theorems. Left to do: a theorem of the
JSON file that says what an abandoned write may at worst do to the map, where
`FileIsKeyValueStorage` ends and only `DamageHasCause` goes on.
