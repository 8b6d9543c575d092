# event-spec: TLA+ specifications and proofs

TLA+ models of event-spec: its client and delivery path, its relay and registry
servers, its git and local registries and its rules for versions; TLC
configurations that check them on small instances, and TLAPS proofs of what
matters most for instances of any size. Paths are relative to `src/`.

## 1. The system

event-spec is a registry of analytics event definitions with client SDKs, a
relay server and a command line. An application calls a client; hooks validate,
sample or drop the event; providers deliver it, some through a buffer that a
background goroutine empties; one of the providers posts to the relay server,
which runs the same client again with the registry's definitions.

| Component | State | Operations | Interacts with | What is hard |
|---|---|---|---|---|
| Provider event queue (`provider/queue.go`) | buffer, `closed`, `flushCh` (one slot), `stopCh`, condition variable | Enqueue, Flush, Shutdown, run loop with ticker | called by providers; calls their `FlushFunc` | a mutex, a condition variable and two channels shared by any number of goroutines; overflow policies; cancellation; shutdown |
| Analytics client, hook chain (`analytics/`, `hooks/`) | provider list, hooks, contexts; the global client and hooks | Track, Identify, Group, Page, Alias, Flush, Shutdown, AddProvider, WithTransaction, SetGlobalProvider, AddGlobalHooks | calls hooks, then providers, one goroutine each | lists read twice in one dispatch; slices shared by clones; unwinding per provider |
| Transport, rate limiter, Amplitude and server providers (`provider/`) | attempt, backoff, token bucket, `closed` | Do, Wait, the providers' methods, Shutdown | queue, backend | retries of requests that were acted on; waiters competing for a token; posts in flight at Shutdown |
| Relay server (`registry/server/handlers_analytics.go`, `server.go`) | clients per source, cache of definitions, `hooksEnabled` | relay endpoints, publish, config, restart | client, store, hooks | double-checked locking, a cache that is filled and emptied concurrently, two-statement writes, crashes |
| Store, administration API, admin UI (`registry/server/store_sql.go`, `handlers_*.go`, `ui/`) | tables, API keys with roles, audit log, settings | authentication; create, update, delete, get of sources and destinations; issue and revoke keys; publish; settings | relay, UI | statements that are not one transaction; check-then-act; keys that expire or are revoked while a request runs; crashes |
| Registry client (`registry/server/client`) | a directory of cached answers | getWithCache, get, post, put, delete | server, other processes | lost answers, torn and overtaken cache files |
| Git registry (`registry/git`) | clone on disk, index | New, Pull, queries | git, local registry | moving branches and tags, names that mean several things, interrupted clones, shallow clones |
| Local registry, watcher (`registry/local`) | indexes, watched directories | New, reload on file events, queries | file system | a walk over a changing tree, missed events, failed reloads |
| Spec diff, versions, validation (`spec/`) | none | Diff, SuggestVersion, ValidateVersionBump, ValidateEventDef, ValidateEventPayload | UI, registry, CLI, hooks | completeness of the case analysis; greedy pairing of renames |
| Codegen, instrumentation audit, CLI | none of their own | | all of the above | little: text in, text out |
| TypeScript and Kotlin SDKs (`sdk/`) | a buffer with a timer each | enqueue, flush, shutdown | providers | events after shutdown, cancelled timers |

What makes each modelled component correct:

- queue: nothing accepted is lost or duplicated silently, order is kept, the
  buffer is bounded, a nil Flush means drained, nothing happens after Shutdown,
  nobody is left blocked;
- client: hooks run governance-first and gate every provider, each provider's
  After/Error/Finally pair with the Before hooks that ran, no provider that stays on
  the list is missed, Flush and Shutdown reach every provider, dispatch returns;
- delivery: the granted requests conform to the configured rate, the backend acts
  at most once per attempt, nil means that it acted, one Shutdown flushes, every
  call returns;
- relay: one client per source, a cache that lacks exactly the publications that
  returned between the list it was filled from and its installation, audited
  publications, batches relayed in order up to the first refused item;
- administration: rows and audit log differ by the entries that are missing and by
  nothing else, answers and the role a request was let in with were true while it
  ran, flag and row of a setting differ only for four named reasons;
- registry client: what it returns was sent by the server, and the fallback refuses
  only where no answer had been written, where a writer of the same key spoilt the
  file, or where the file cannot be read;
- git registry: a pull never indexes another commit than the one that was judged,
  though without Force it may index the mixture of files that an interrupted one
  left; pins hold, branches follow the remote, the advice in an error helps;
- local registry: the index ends up as what the tree holds, queries agree on the
  latest version;
- spec: suggestions are the least valid versions, every property that comes or
  goes is reported once, payloads stay valid within a major version, except across
  versions that were not compared or that narrow a property where Diff does not look.

`PROJECT.json` lists every component with its status and the hazards with their
lines.

## 2. Modules

| Module | Models |
|---|---|
| `ProviderQueue` | `provider/queue.go`, complete |
| `EventOutbox` | abstract specification of an event buffer |
| `ProviderQueueProofs` | theorems about the queue, and that it implements the outbox |
| `AnalyticsClient` | `analytics/client.go`, `api.go`, `options.go`, `hooks/hook.go` |
| `AnalyticsClientProofs` | theorems about dispatches and sweeps |
| `Delivery` | `provider/transport.go`, `ratelimit.go`, the Amplitude and server providers on top of them |
| `DeliveryProofs` | theorems about the limiter, the attempts and Shutdown |
| `RelayServer` | relay, definition cache, publishing, toggle, restart |
| `RelayServerProofs` | theorems about the relay server |
| `ApiKeys` | the table of API keys and what a key permits: `auth.go`, `shared/types.go`, `ui/handler_auth.go`, `store_sql.go` |
| `RegistryAdmin` | authenticated requests for sources, destinations, keys and settings: `auth.go`, `handlers_sources.go`, `handlers_destinations.go`, `handlers_admin.go`, their UI forms and `store_sql.go`; extends `ApiKeys` |
| `RegistryAdminProofs` | theorems about the audit log, the answers and the setting |
| `RegistryClient` | `registry/server/client/client.go` |
| `RegistryClientProofs` | theorems about the client and its cache |
| `GitRegistry` | `registry/git/resolver.go`, with git as it is used |
| `GitRegistryProofs` | theorems about pulls |
| `RegistryQueries` | filters, schema versions, latest version, de-duplication: `spec/loader.go`, `registry/registry.go`, `registry/local/resolver.go` |
| `LocalRegistry` | `registry/local`, extends `RegistryQueries` |
| `SpecDiff` | `spec/diff.go`, `spec/validator.go`, `spec/schema.go`, extends `RegistryQueries` |
| `EventPublish` | publishing versions of an event through `ui/handler_publish.go` and `POST /v1/events`, extends `SpecDiff` |
| `RegistryProofs` | theorems about the queries, the watcher, the diff and publishing; extends `LocalRegistry` and `EventPublish` |
| `MC...` | model values, symmetry and constants for TLC, one module per specification that is run |

Every module marks a plausible bug with an operator introduced by "Mutant:",
defined just before the operator it would replace; nothing refers to these
operators. `PROJECT.json` pairs each with the property it breaks.

### ProviderQueue

A step is what one goroutine does while it holds `mu`, or one channel
operation. A message stands for the one Enqueue call that offers it.

| Variable | Code |
|---|---|
| `conf` | `batchSize`, `maxSize`, `overflow`, after NewQueue's defaults |
| `buf`, `closed`, `stopped`, `flushCh`, `once` | `q.buf`, `q.closed`, `stopCh` closed, `flushCh`, `shutdownOnce` |
| `runPc`, `runReq`, `batch` | the run goroutine: at its select, in `doFlush`, in `fn`; the request it serves; the slice it took |
| `enq`, `watch`, `cancelled` | each Enqueue call, its context watcher, contexts that are done |
| `call`, `done`, `res`, `owed` | each Flush and Shutdown call, its reply channel, its result, what it owes |
| `fate`, `log` | history: what became of a message, order of acceptance |

A blocked Enqueue goes through `parking` (the loop's checks are done, it is not
yet on the notify list), `waiting` and `woken` (it competes for `mu` again). The
split matters: `Broadcast` reaches only those that wait, and the watcher's
Broadcast does not hold `mu`.

`EventOutbox` has one state per event: offered, refused, pending, sending, and
then delivered, failed or evicted for good. `outboxState` maps the queue's
variables to it.

### AnalyticsClient

Three clients: the global one, one from NewClient, and its WithTransaction
clone. Go slices are modelled as headers over shared arrays, because
WithTransaction copies the header. `call[k]` is a dispatch (with the hooks it
collected and the Before hooks that ran), `routine[k]` its goroutines (with the
trail of After, Error and Finally calls), `sweep[s]` a Flush or Shutdown.
The global hooks, the client's own hooks, the slice of its providers and the
providers to dispatch to are read in four steps, as they are four critical sections.
Only the header of the slice is copied under the lock: `reading[k]` is the loop that
follows it afterwards, one provider per step, while others may append to the array.
`kept[k]` is history: the providers that have been on the list since dispatch k
began. Envelopes, contexts and the notifications of providers about a dispatch that
delivers nothing (notifyNoopProviders) are left out.

### RelayServer

A step is one database statement, one critical section or one atomic access.
One event name is followed. `defs[v]` is what ListEvents returns for it after
the v-th publication, so `cache.v` and `snap[r]` say which state of the table a
list shows. `job[r]` holds a request's items (a single Track is a batch of one),
the current one, and which were relayed or dropped. `pub[p]` is a publication:
RegistryPublishers go through `Server.PublishEvent`, StorePublishers (the HTTP
route and the UI) straight to the store. `put[c]` is a change of
`hooks_enabled`: the API writes the row and then the flag, the UI only the row.
`Restart` loses memory and calls, keeps the database and reads the flag from it; if
that read fails the configured value stays, as in `New`. `late[r]` and `missed` are
history: the publications that returned after lookup r had listed the events, and
those that the cache lacked when it was filled. Versions are assumed to parse (an
unparseable one is skipped by ListEvents); provider failures do not show, since
Track returns only the errors of hooks.

### Delivery

A call of a provider's method waits for the limiter, sends, and retries. Time is
discrete: a tick earns the bucket one credit and a token costs `TokenCost`.
`wire` holds requests that are under way and may arrive late, after the attempt
was given up and the next one was made; `acted` counts how often the backend
acted. `level` is a meter that is independent of the limiter: a leaky bucket that
each grant fills and only time drains. Amplitude's Track goes through
`ProviderQueue`; what arrives here is the batch its `fn` sends.

### RegistryAdmin

A step is one SQL statement or one atomic store, and any statement may fail: no
operation is a transaction. A request arrives at a gate with a token: `caller[r]`.
The routes of handleCreateAPIKey and of the bootstrap form count the keys first
(`count`), the others look the token up (`auth`), and only then is it known what
is asked for (`body`). `ApiKeys` has the role of each key and which have expired;
role names that the code does not know count as viewer, and the hashing of tokens
is left out. `stood[r]` is history: what the table said of the token at any time
until the request was let in. A row exists or not; the two tables are handled by
the same code. `seen[r]` records whether the row of request r was there at any
time since it began, `missed` the updates that changed no row, `rowBy` and
`flagBy` who wrote the setting's row and the flag last ("config" where the server
started with the configured value), and `behind` the requests whose row was
overwritten before they set the flag. A request that changed a
row and then lost its audit entry, by an error or a crash, ends `unlogged`.

### RegistryClient

`files` is the cache directory, shared by all processes: a file is absent, empty
(opened, not yet written), torn or whole. `urlCacheKey` flattens a URL into its
words, as replacing every separator by the "_" that also joins words does, so two
URLs may share a file. The server is what its handlers answer: the number of the
edit a URL shows. Answers to `Lists` are JSON arrays and the others objects, so a
whole file that is shared by a list and an event does not decode for one of them
(`Decodes`); calls in `Foreign` may be answered by something else, such as a proxy,
with a page that does not decode and is cached all the same. A call without a server
ends in "unreachable" (no file), "unread" (ReadFile fails), "corrupt" (what is there
does not decode) or with the cached answer. A process that dies within a call is one
whose call takes no further step.

### GitRegistry

`remote` has heads and tags that are pushed, moved and deleted; `cache` is the
directory with its remote-tracking branches, tags, objects, what is checked out
(`Torn` if the files are not those of one commit), the branch that clone created and
whether the clone is shallow. A pull is a sequence of steps, each of which may fail:
RemoveAll for Force, then the git commands. `CutShort` says what a step that fails or
is killed with its git command leaves: a part of what was to be removed (`Remains`),
a clone before or after its objects, refspec, refs and files (`BrokenClones`), a
directory in which checkout had begun. A later `git checkout --detach`, without `-f`,
may succeed over such files and keep the mixture. `pinned`, `steady` and `crossed`
are history: what a tag was when it was first pulled by name, whether the remote has
moved since the clone, and the pulls during which another process wrote the cache,
of which nothing is promised.

### LocalRegistry and RegistryQueries

A reload is a walk: a directory is listed when it is entered and a file is read
when its turn comes, while editors change the tree. `walk.pending` is what has been
listed and not visited; `Rank` is the place of each directory and file in a depth-first
walk of everything that may exist, and the next entry is the one of least rank
(`Turn`), which is the order WalkDir visits them in. The roots are taken to be apart
from each other. File events are raised for watched directories only and are lost
when the queue is full; `silent` is history for a change without an event that Start
handles. In `RegistryQueries` the loops of the code are recursive functions of a
position in a list, and a query has a set of answers, one for each order in which Go
may range over its map.

### SpecDiff and EventPublish

Operators for Diff with its rename pairing, the bump a change asks for, the
suggestion, and the validation of versions, definitions and payloads.
`EventPublish` lets the authors that use the edit form check a definition against
the latest version and store it later, and lets requests store without a comparison;
`Definitions` is what anyone may write, versions that cannot be read included. A
property has a type, an enum, and the values that its pattern and its bounds refuse
(`refused`): validation obeys all three, Diff looks at the first two. `unchecked` and
`overlooked` are history: the versions that were stored without a comparison with the
latest, and those that were compared and narrowed a property where Diff does not look.

## 3. Runs

| Run | Checks | Shows |
|---|---|---|
| `queue_flush` | BoundedBuffer, Conservation, OrderKept, ThresholdArmed, FlushDrains, ImplementsOutbox | Enqueue against Flush, ticker, batch signal and cancellation, three policies and unset sizes |
| `queue_shutdown` | Quiesced, EventuallySettled, FlushAnswered, EnqueueReturns, ShutdownReturns | block policy, a Flush and two Shutdown calls; under FairSpec nobody is left waiting, unless run is stopped first |
| `queue_shutdown_gap` | ShutdownFlushesAccepted, violated | a message accepted between Shutdown's flush and its close stays in the buffer |
| `client_dispatch` | BeforeGates, Unwound, Served, SweepComplete, DispatchReturns | a dispatch and a Flush or Shutdown against every change of the lists, also between two elements of the slice it follows |
| `client_lists` | ListsIndependent, violated | a clone's AddProvider overwrites the other list's element |
| `delivery_retry` | RateConforms, AtMostPerAttempt, NilMeansActed, ShutdownOnce, CallReturns | two calls, lost, late and refused requests, cancellation, both providers |
| `relay_cache` | OneClientPerSource, CacheLacks, Audited, BatchPrefix | two requests, both publishing routes, the toggle, one crash; the cache misses a publication only through the race of list and install |
| `admin` | AuditGaps, AnswerJustified, HooksDiffer | three requests over a table, the keys and the setting; failing statements, expiry, one crash; how far log and rows, row and flag can be apart |
| `registry_client` | AnswerGiven, OfflineServed | three cached reads and a change, lost and foreign answers, torn and overlapping writes, failing reads, an event and a list with one key |
| `git_pull` | IndexedIsJudged, PinHolds, FollowsRemote, RefRemedyWorks | two pulls of two processes against a remote that moves twice, failing steps, one kill |
| `local_watch` | Fresh, LatestAgrees, EventuallyFresh | three changes of a tree of three files under the watcher |
| `spec_versions` | SuggestionLeast, PropsAccounted, MajorCompatible | two editors and uncompared requests publish up to three versions |

The violated properties state what a comment says; `PROJECT.json` quotes it. The
type invariants are left to the proofs.

### Bounds

- Queue: three messages with MaxQueueSize 1 or the default and BatchSize 2 reach a
  full buffer, a full batch, an eviction, and a batch in flight with a refilled
  buffer behind it; three callers are needed for a woken one to lose its place. In
  `queue_shutdown` two messages fill a buffer of one; two Shutdown calls cover
  `shutdownOnce`. Messages are symmetric except in the liveness run.
- Client: one dispatch and one sweep are enough, because they share only the lists,
  which they never write; `client_lists` needs four further providers for appends
  both in place and into a new array.
- Delivery: two calls contend for a bucket of one token that takes two ticks to
  refill; two retries let a copy of the first attempt arrive after the second, and
  the backoff (2, then capped at 3, with jitter) reach its cap.
- Relay: two requests are what double-checked locking is about; batches have up to
  two items, so that one can be refused after another was relayed; one publisher
  of each route; one administrator; one restart (`MaxRestarts`). Kinds is
  {"sampled"}: such a definition can accept, refuse, keep and drop, and no
  property distinguishes the kinds. The proofs have none of these bounds.
- Administration: three requests on one name of one table (both tables are handled
  by the same code), on the operator's key and on keys that the requests issue: a row
  can be created, updated and deleted, and a key issued, used and revoked, with each
  request in the middle of the others. The configuration says TRUE: both values can be
  put, and FALSE would give the same states with the two exchanged.
- Registry client: three cached calls and one more: a slow read, a change, a fast
  read that overtakes it, and an offline one. Two edits give a URL two bodies. The two
  URLs are an event and a list with one key; two events with one key are covered by
  the theorems only.
- Git: two commits of one line, a branch, a tag and a name that cannot be one, each
  of which can be pushed under the name of the other or of a commit; two processes
  that are alike. Two moves and two pulls are what a pin that moves, a branch that is
  followed and a pull over the leavings of a killed one need.
- Local registry: one nested directory and a second root, two event files with three
  definitions, two of which compare as equal; a queue of two events.
- Spec: drafts change one dimension of one rich property, or several plain ones that
  pair up as renames, and the three things Diff overlooks: a first enum, an enum value
  removed from a property that becomes optional, a tighter pattern or bound. Names are
  ordered before and after each other; one request stores a version that cannot be read.

All runs but `queue_flush` and `delivery_retry` end when their calls are over, or
wait for a change that need not come, so they do not check for deadlock; those two
do: the ticker and the clock never stop.

### Fairness

`SchedulerFairness`: weak fairness for goroutines that can run or wait for the
mutex (Go's mutex is starvation-free and its scheduler preemptive), strong
fairness for the three cases of the run loop's select, since select chooses at
random among ready cases and the ticker fires again and again. `FairSpec` adds
that `fn` returns. No call has to be made and no context has to be cancelled. In
AnalyticsClient, weak fairness says that hooks and providers return and that
goroutines run. In Delivery, the clock ticks, a waiter that finds a token takes it
and a request that was sent gets an answer or an error in the end, which the
timeout of `http.Client` guarantees. In LocalRegistry the watcher's goroutine
runs; editors need not stop. The other specifications assume none.

## 4. Proofs

The theorems hold for all sets of messages, callers, hooks, providers, requests,
keys, names, commits and configurations that satisfy the named assumptions of the
modules:

- `CallsAssumption`, `ConfigAssumption` (queue): the kinds of calls are distinct,
  sizes are integers and policies known;
- `HooksAssumption` (client): hooks belong to one level, and the lists that a client
  is built with are sequences;
- `DeliveryAssumption`: retries are natural numbers, bursts, backoffs and the price
  of a token positive, the calls finitely many;
- `RelayAssumption`: the kinds of publishers and administrators are distinct, bounds
  are natural numbers;
- `KeyAssumption`, `AdminAssumption`: requests are finitely many and are not called
  "operator", "start", "config" or "none"; there are no other tables;
- `ClientAssumption` (registry client): cached and uncached calls are distinct, the
  lists are among the URLs and the calls that others answer among the calls, and the
  bound on the edits is positive;
- `GitAssumption`: ancestry contains the commit itself and has no cycles; heads, tags
  and configurations are made of known names and commits;
- `TreeAssumption`, `WalkAssumption` (local registry): directories and files form trees
  below the roots, and `Rank` numbers them depth first; `ContentsAssumption`: a version
  is unreadable or three natural numbers (the parts are split at "-", so none is
  negative), and a directory that exists at first has a parent that does;
- `NamesAssumption`, `DefinitionsAssumption` (diff, publishing): the order of the names
  has no repetitions and contains every property's, `required` is a Boolean, and all
  definitions are of the one event that is followed.

One theorem has a hypothesis. `NoBranchIsTag` says that no configured Branch is the
name of a tag: a shallow clone of a tag has a refspec that moves that tag by force, and
then a pin to it does not hold. It is true of the instance that TLC checks.

| Theorem | Statement | Argument |
|---|---|---|
| `ProviderQueueProofs!TypeCorrect` | `[]TypeOK` | inductive by itself; NewQueue's defaults make the sizes positive |
| `BufferBounded`, `ThresholdStaysArmed` | `[](BoundedBuffer /\ ThresholdArmed)` | inductive with the types (`SizeInv`) |
| `MessagesConserved`, `MessagesInOrder` | `[](Conservation /\ OrderKept)` | `StoreInv`: a batch exists only while `fn` runs, the acceptance log has no duplicates and holds exactly what was accepted; without these an append could duplicate a message |
| `FlushIsDrain` | `[]FlushDrains` | `FlushInv`: a request is in `flushCh`, in run's hands or answered only after its call began; what it owes was accepted by then; while `fn` has the batch nothing owed is buffered |
| `QuiescedAfterShutdown` | `Quiesced` | `ShutdownInv`: `shutdownOnce` is over only with `closed` set and run gone |
| `QueueImplementsOutbox` | `Spec => ImplementsOutbox` | from `StoreInv`, every step maps to an outbox step or a stutter |
| `AnalyticsClientProofs!TypeCorrect` | `[]TypeOK` | `ListInv`: a slice lies within its array and none of its elements is nil, although arrays are shared |
| `BeforeHooksGate` | `[]BeforeGates` | `CallInv`: the chain is sorted by level, what ran is its first part, and goroutines exist only when all of it ran |
| `HooksUnwound` | `[]Unwound` | `CallInv`: the trail of a goroutine is the first part of the sequence of calls that it owes, and its stage and counter tell how long that part is |
| `ProvidersServed` | `[]Served` | `KeepInv`: a provider that is still on the list is among the hooks collected or in the part of the slice that is still to be read; that part does not change, because while no clone shares the array only its own client appends to it, and beyond the slice's length (`Apart`, from `ShareInv` and `ReadInv`) |
| `SweepsComplete` | `[]SweepComplete` | `SweepInv`: what was visited is the first part of the copied list |
| `DeliveryProofs!TypeCorrect` | `[]TypeOK` | inductive by itself |
| `RateHolds` | `[]RateConforms` | `RateInv`: the meter is empty, or meter, tokens and time earned together do not exceed the burst |
| `ActsPerAttempt` | `[]AtMostPerAttempt` | `AttemptInv`: what was acted on and what is still on the wire is within the attempts made, one less during the backoff |
| `NilIsActed`, `OneShutdown` | `[]NilMeansActed`, `[]ShutdownOnce` | `ResultInv`: `closed` has exactly one winner, and ErrShutdown is answered before anything is sent |
| `RelayServerProofs!TypeCorrect` | `[]TypeOK` | inductive by itself |
| `CacheLacksOnlyTheRace` | `[]CacheLacks` | `CacheInv` adds what each list that is about to be installed lacks (`HeldLists`): exactly the publications that returned since it was read |
| `PublicationsAudited` | `[]Audited` | `AuditInv`: logged before the cache is emptied |
| `ClientsShared` | `[]OneClientPerSource` | `OwnerInv`: whoever has a client has a source; the map entry that is written was empty, so nobody uses it |
| `BatchInOrder` | `[]BatchPrefix` | `JobInv`: while a lookup runs, exactly the items before the current one are settled; before the client is there, none |
| `RegistryAdminProofs!TypeCorrect` | `[]TypeOK` | `StepInv`: which statement belongs to which operation |
| `HooksDifferOnlySo` | `[]HooksDiffer` | `HooksInv`: whoever has yet to set the flag wrote the row last or is behind; once the last writer of the row has set the flag, only somebody who is behind sets it after that |
| `LogOffByTheMissing` | `[]AuditGaps` | `AuditInv` with lemmas on how each step changes the cardinalities of creations and deletions |
| `AnswersHold` | `[]AnswerJustified` | `AccessInv`: whoever waits at a gate has seen its present standing, whoever is past it one that permits; `SeenInv`: the same for rows |
| `RegistryClientProofs!TypeCorrect` | `[]TypeOK` | `StepInv` |
| `AnswersGiven` | `[]AnswerGiven` | `AnswerInv`: each whole file has a call of its key that was given its body, and bodies are not older than what had been returned |
| `OfflineIsServed` | `[]OfflineServed` | `OfflineInv`: a file that was opened is there; an empty one has a writer, a torn one a writer that failed or overlapped, a whole one is the answer to one of its writers |
| `GitRegistryProofs!TypeCorrect` | `[]TypeOK` | `TypeInv`: a cache that does not exist is empty, and what a fetch adds contains its tip, since history has no cycles |
| `CommitIsJudged` | `[]IndexedIsJudged` | `JudgeInv`: unless another process wrote the cache, from the resolution on it goes on saying what was judged, and from the checkout on the files are that commit's or, without Force, torn; a forced pull begins without files, so it tears none |
| `PinsHold` | `[]PinHolds`, no branch is a tag | `JudgeInv` and `PinInv`: what was pinned is where the cache has it, and no refspec forces a tag |
| `BranchFollowsRemote` | `[]FollowsRemote` | `TipInv`: a cache with a narrow refspec has no other branches, so the wanted one is missing or where the remote had it |
| `ForceHelps` | `[]RefRemedyWorks` | `ForceInv`: a forced pull of a Ref clones and never fetches; until the remote moves, the clone has all of its names |
| `RegistryProofs!DedupIsLatest`, `ActiveIsLatest` | the loops of DeduplicateByLatest and GetEvent return the latest versions of every finite list, in every order | `DedupInv`, `BestInv`: what the loop holds after i rounds, by induction on i |
| `LocalTypes` | `[]TypeOK` | `TypeInv` adds that an index has finitely many entries |
| `QueriesAgree` | `[]LatestAgrees` | the two theorems above, on what the index holds |
| `WatcherIsFresh` | `[]Fresh` | `WatchInv`: when nothing handled is queued and no change went unseen (`Settled`), a walk has visited or listed all there is below what it visited, except directories made since, which hold no files (`Covers`), and what it got is what the visited files hold, the last in the walk for each key (`GotFrom`); between walks, if the tree parses, the index is what is on the disk |
| `SuggestionIsMinimum` | SuggestVersion is accepted, and minimal among all versions | case analysis on the level; CompareSchemaVer is the lexical order |
| `FormSuggestsMinimum` | `[]SuggestionLeast` | `PublishInv`: what a form was compared with could be read, since getEventLatest returns only such versions |
| `RenamesAccounted`, `FormAccountsForProps` | `[]PropsAccounted`, and the same of Diff for any two sets of properties | `PairInv`: after each turn, pairs share no name, and a removed name that had its turn is alone only if no added name of its type is free; by induction on the turns |
| `MajorsStayCompatible` | `[]MajorCompatible` | `HistoryInv`: unless the history excuses them, the versions that can be read have distinct numbers, and a higher one of the same major is compatible (`Ordered`; `Compat` is transitive and excuses only grow); a bump below MAJOR means that no change was breaking, hence compatible or overlooked |

The loops of the code (de-duplication, GetEvent, the turns of the rename detection) are
recursive functions in the models, and what they compute is proved for lists of any
length. The library's induction theorems take an operator, which the provers cannot
instantiate; `RegistryProofs` states induction for a set of numbers instead
(`SetInduction`, from the least number that is missing), and shows first that each
recursive function exists.

All invariants that the runs expect to hold are proved. Only model-checked: all
liveness (fairness and ENABLED are outside the prover) and the two violated
properties.

## 5. Disagreements met without a run of their own

Between the code and a comment or document, or between two parts of the code:

- `provider/queue.go:176` says Flush returns ErrQueueClosed once Shutdown has been
  called; one whose request is in `flushCh` when run takes `stopCh` waits in its
  second select (`:189`), which does not watch `stopCh`, for ever.
- `provider/queue.go:106` says a blocked Enqueue waits for space or for its
  context; the watcher broadcasts without `mu` (`:138`), so a cancellation between
  the check and `cond.Wait` wakes nobody and the caller stays until the next flush.
- `provider/config.go` speaks of a maximum batch size; `doFlush` takes the whole
  buffer.
- `hooks/hook.go:48` says Before gates all providers; a provider added between the
  two reads of the list (`analytics/client.go:251`) gets an event that its own
  Before hook never saw. Where a WithTransaction clone shares the array, an append
  through one client may overwrite an element that a dispatch of the other has still
  to read, so that a stranger's hook runs and one of its own does not; `Served`
  promises the Before hooks only without such a clone.
- `analytics/options.go:50` says that a noop event is dropped after the Before hooks
  ran; dispatchAll (`analytics/client.go:217`) returns before any hook.
- `provider/amplitude/provider.go:151` says that the rate limit applies before each
  HTTP request; it applies once per batch, and the retries of `Transport.Do` and Ping
  send without a token. `RateConforms` counts what the limiter grants. A negative
  MaxRetries, with which Do returns nil without a request, is excluded by
  `DeliveryAssumption`.
- `hooks/sampling/hook.go:14` says a sampled event becomes a Dropped delivery
  state; dispatchAll returns the error and the relay maps it.
- `provider/amplitude/provider.go:105`: Ping takes an answer with a retryable status
  for an error of the transport.
- `registry/server/server.go:160` says that lookups pick up the new definition
  immediately; a lookup that listed the events (`handlers_analytics.go:91`) before a
  publication was stored, and installs its list (`:102`) after PublishEvent emptied the
  cache and returned, hides the publication until the next one. `CacheLacks` says that
  the cache lacks exactly what was published in that window.
- `ARCHITECTURE.md:1162` says that the audit log tracks all spec changes; a change is
  made by one statement and logged by another (`registry/server/store_sql.go:381`,
  `:426`), so one that fails or a crash loses the entry. `AuditGaps` says that this is
  all that log and rows differ by.
- `registry/server/handlers_admin.go:251` says that the change takes effect
  immediately; of two overlapping PUTs one may write the row last and the other the
  flag (`:252`). `registry/server/server.go:77` says that the stored setting overrides
  the configured one; an error of GetSetting (`:79`) leaves the configured one.
  `HooksDiffer` lists these reasons.
- The bootstrap route counts the keys and inserts one in two statements; two that
  overlap both succeed, which `AnswerJustified` admits.
- `registry/server/handlers_analytics.go:77` says the cache is invalidated whenever an
  event is published; `POST /v1/events` and the UI publish through the store
  (`handlers_events.go:73`) and leave it.
- `docs/docs/server/relay.md:25` says that all apps pick up a changed destination
  immediately; a source's client is cached for the lifetime of the server.
- The UI's config page says changes take effect immediately
  (`registry/server/ui/templates/config.html:5`); its handler writes the row only.
- UpdateSource and UpdateDestination do not count rows: an update that lost its row
  to a deletion is answered with success and logged.
- `handleCreateAPIKey` and the form reject a role whose level is below zero, but
  unknown role names have level 0 (`registry/server/shared/types.go`), so any name is
  accepted and counts as viewer.
- `registry/server/client/client.go:439` says a cached response "for this URL";
  shop/cart_viewed and shop_cart/viewed share a file, and so do the event tag/created
  and the list with tag=created, whose shapes differ: one makes the other's fallback
  fail. Any error of ReadFile (`:450`) is reported as the server's being unreachable.
- `registry/git/resolver.go:393`: where Branch names only a tag, the advice to pull
  with `--force` leads to the same error. `:146` says that the commit that is indexed
  is exactly the one that was judged; `git checkout --detach` (`:156`), without `-f`,
  succeeds over what an interrupted checkout left, and a mixture is indexed. `:519` says
  that nothing can shadow a full SHA; in a shallow cache that does not hold the object,
  a branch or tag of that name does, and `PinHolds` speaks of objects that the cache
  holds. Two processes that share a cache directory
  may index each other's checkout; nothing locks it. A shallow clone whose Branch is
  a tag fetches that tag by force, so that a later Ref of the same name is no pin.
- `registry/local/watcher.go` says new subdirectories are picked up; no code adds
  them.
- `docs/docs/concepts/event-contract.md:64` asks for MAJOR when an enum value is
  removed; `diffProp` (`spec/diff.go:261`) returns at the first difference, so a
  property that also becomes optional passes as MINOR. An enum that is introduced
  is MINOR, and changes of pattern and bounds are not reported although payloads are
  held to them (`spec/validator.go:304`). `MajorCompatible` excuses these three and no
  other.
- `registry/registry.go:28` speaks of the one with the highest version; two texts may
  be one version (leading zeros), and then the order decides. `LatestAgrees` is about
  versions that can be told apart.
- `spec/diff.go:78` says that a transition to deprecated or deleted is breaking and
  `:294` that the version is returned unchanged without changes; the code does
  otherwise.
- `POST /v1/events` and the new-event form store a version without comparing it.

## 6. Plan

In this order:

1. The context merge (`analytics/context.go`) against the documented precedence, with
   SetContext and SetGlobalContext in AnalyticsClient.
2. handleFlush across the relay's clients (it stops at the first that fails,
   `registry/server/handlers_analytics.go:464`), and destinations that change under
   cached clients.
3. The SDK queues as further specifications against `EventOutbox`: enqueue after
   shutdown in `sdk/typescript/packages/api/src/queue.ts`, the cancelled timer in
   Kotlin's `Queue.kt`.
4. The audit's coverage classification (`codegen/audit/coverage.go`).

Not modelled: how tokens are hashed and sessions kept in cookies, webhooks (single
statements without an audit entry; they are sent once and nobody reads the result),
list endpoints and pages that only show the store, ids of rows in the audit log, code
generation templates, YAML parsing itself, command-line parsing, test utilities and
release tooling.
