# A TLA+ model of config-service

This directory holds a formal model of the configuration service in this repository:
TLA+ modules translated from the Go source, TLC configurations that check them on small
instances, and proofs, checked by TLAPS, that hold for every instance.

## The system

The service stores configuration entries. An entry is identified by its scope
(environment, tenant, application, service, key) and goes through a workflow:

    PutDraft -> SubmitForApproval -> Approve | Reject -> Publish         Rollback (any time)

Clients read with `Resolve`, which joins an entry with the row of `config_revisions` that its
`published_revision` names; so a draft can be edited and reviewed while an older revision is
served. Replicas run the same code on one database and one Redis. The parts, and the modules
that model them:

| part | source | module |
|---|---|---|
| workflow, optimistic locking, outbox (writing side) | `internal/dynamicconfig`, `internal/database/transaction.go` | `DynamicConfig`, `TenantAccess` |
| what the workflow promises | | `ReviewedConfig`, `DynamicConfigRefines` |
| `Resolve`, `Get` | `service.go`, `repository.go` | `Resolution` |
| `List` | `service.go`, `repository.go` | `Listing` |
| dispatch and clean-up of the outbox | `internal/app/eventbus.go` | `EventRuntime`, `EventDelivery` |
| idempotent execution, on both transports | `transport/http/middleware.go`, `internal/idempotency` | `Idempotency` |
| Redis lock and cron job | `internal/cache/redis.go`, `internal/scheduler` | `ScheduledJob` |
| outbound HTTP and gRPC clients | `internal/outbound`, `internal/grpcclient` | `OutboundCalls` |
| HTTP and gRPC chains, authentication, authorization, rate limits | `internal/transport`, `internal/auth`, `internal/authorization`, `internal/ratelimit` | `RequestChain` |
| migrations | `internal/migration`, `app.go` | `Migration` |
| configuration loading and validation, construction | `internal/config`, `internal/app` | `ServiceConfig` |
| start, stop, shutdown timeout | `internal/app` and the hooks of the packages it wires | `Lifecycle` |

`PROJECT.json` lists every part with its status, the hazards with their source lines, and the
source lines of every definition. How the parts meet:

* a request passes `RequestChain`, whose last check is idempotent execution, then a method of
  `DynamicConfig`, `Resolution` or `Listing`. In `RequestChain` that check may end in every way it
  can; how it ends for requests that share a key is `Idempotency`, which has a versioned write of
  `DynamicConfig` in it; `Resolution` starts from two facts proved of `DynamicConfig`: the live
  revision only moves forward, and a revision's body never changes;
* what a transaction of `DynamicConfig` appends to the outbox is what `EventRuntime` dispatches;
* `Lifecycle` extends `ServiceConfig`: one process from its settings to its exit, with the
  work of servers, dispatcher and scheduler in it;
* `ServiceConfig` checks what the other modules assume of their constants, such as
  `Retention >= MaxAge` in `EventRuntime`.

## The modules

### `DynamicConfig`: the workflow

State: `entries` (`config_entries` by scope: body, status, revision, published revision, reviewer,
version, `updated_by`), `revisions` (the rows of `config_revisions`), `outbox` (events in commit
order, each with the entry it announces), and `handlers`: per request slot either the last answer, or
the local variables of a request that has read and checked and not yet run its transaction. Times,
comments and ids are left out; the scope stands for the id, and environment and service play
the same part as the key.

Every write request has two steps, because that is where the code lets others run:

1. `PutDraft`, `SubmitForApproval`, `Publish`, `Approve`, `Reject`, `Rollback`: the reads outside
   the transaction, with every check and early return in the code's order. `Rollback` reads the
   revision row and then the entry, so it has a further step `RollbackRead`.
2. `InsertTx`, `DraftTx`, `SubmitTx`, `PublishTx`, `ReviewTx`, `RollbackTx`: the transaction.
   `Update` is `UpdateMatches` (`WHERE id = ? AND version = ?`), `Snapshot` fails on an existing
   `(entry_id, revision)`, `UpdateRevisionReview` changes the rows it matches or fails the
   transaction, `addChangedEvent` appends the event. What is written is computed from the entry
   that was *read*, as in the code.

A transaction is one atomic step. Its first statement either inserts under a unique constraint or
updates a row under a condition that the database evaluates again once it holds the row lock, and
the lock is kept until the commit; so two transactions on one entry do not interleave. `Commit`
answers `ok`, or an internal error although the change is in the table (a lost acknowledgement).
`DatabaseError` ends a request at any point with no effect. The application registry is a remote
service that may grant, refuse or be unavailable. `TenantAccess` has the checks that all methods
share.

`ReviewedConfig` is the promise of the workflow with nothing else in it: bodies are submitted,
approved by somebody else, and go live. `DynamicConfigRefines` maps the tables to it. The live body
of a scope is what the join of `Repository.Resolve` returns.

### `Resolution` and `Listing`: readers

`Resolution` keeps of an entry what readers receive. `Resolve` has the query (application, tenant
and platform scope, in that order of rank), the rollout test on the first two bytes of a SHA-256
(`Bucket`, any function), the fall-through to the next scope on a miss, and the ETag. `Keep`
is a client that remembers an answer, to compare ETags with later.

`Listing` has the count and the page of `Repository.List` as separate steps while `Insert` adds
entries anywhere in the key order, and a client that walks through the pages until one is not full.

### `EventRuntime`: the outbox after the commit

`rows` (state, ticks until available, ticks since published), `stream` (copies, age, duplicate
window), `runtimes` (phase of start and stop, bus, the two goroutines, claims). `Start`, `Stop`,
`StopReturns` follow `start` and `stop`; `Claim`, `Publish`, `Mark`, `Clean` and their failures are
calls of the library that the goroutines make. A replica may crash anywhere. A lease that runs
out lets another replica claim the row while the first one still works on it. `EventDelivery` is
the abstract promise: committed, delivered at least once, forgotten only after that.

### `Idempotency`

`records` in Redis, `workers` (requests in `IdempotencyExecution`), `written` (the writes committed to
one entry, whose number is its version), and two histories: `given`, what clients were told, and
`lapsed`, the executions whose record has expired. A record may expire at any moment, also under a
running handler; a handler may panic; storing the result may fail. `Matches` has both paths of
`PutDraft`: an entry that does not exist is created whatever version is expected, one that exists is
updated only at the expected version. The gRPC server runs its six write methods under the same
manager, through an interceptor of the platform library (`server.go:53`); it is taken to do what
the HTTP middleware does, so a worker is a request of either transport.

### `ScheduledJob`

The key in Redis with its owner and time to live, the job and the runner of each replica. A command
and its reply are separate steps: a lock may be granted to a caller who never hears of it.
A job is assumed to return within its context's 30 seconds, as `Tick` demands; a job that ignored its
context could outlive the lock. The body of `runSample` only logs.

### `OutboundCalls`

One breaker shared by concurrent calls, the retry loop of each, response bodies, the end of the
context in a call or in backoff. Both clients are instances (`protocol`); they differ in what is retried
and what counts as a failure. For a gRPC call without an error the source does not settle
whether the breaker counts a success or excludes the call, so both are possible.

### `RequestChain`

`Chain` gives the middleware or the interceptors of a request in the code's order; each is an
action that passes or fails the request. `Inputs` are routes with credentials, keys, origins and
bodies; `Settings` the configurations, with the routes and methods that are executed idempotently;
`quota` the counters in Redis, which may fail. `IdempotencyExecution` stands behind all other checks on
both transports: it lets the request through, refuses it, or gives it a stored result without
running the handler. An error is known by its kind; its number and status are left out.

### `Migration`

The schema, the two advisory locks, the version table with its dirty mark, what the migrations have
done (`content`), and the processes. A process may end anywhere; its locks go with its connection.

### `ServiceConfig` and `Lifecycle`

Settings in layers (defaults, base file, profile file, environment, flag), `Validate`, and the
constructors in the order of `app.New`. `Lifecycle` goes on with the start hooks in order, the
stop hooks in reverse, servers that drain, and one deadline for the whole stop. An operator edits
a layer between starts.

### Library parts

Marked `external` in the map and modelled from how the code uses and configures them: the outbox
dispatcher, cleaner and store, NATS JetStream, the idempotency manager's scripts, redsync, cron,
gobreaker, golang-migrate, fx, Redis's limiter.

## Runs

States and times are those of TLC with two workers. Every run checks deadlock.

| run | instance | what it shows |
|---|---|---|
| `workflow` | two handlers, two users, two bodies, one scope, five versions (166 724 states, 43 s) | no write is based on a stale read, one winner per version, the outbox tells the committed history, the live revision moves forward, and the workflow implements `ReviewedConfig` |
| `pipelined` | users of two tenants, a service, nobody, a sensitive key, five versions, `Lookahead = 1` (520 028 states, 147 s) | approval, independence of review and admissibility hold also for clients that predict versions; rows are immutable |
| `resubmit`, `sent_revision` | four versions | violations, see below |
| `reading` | four scopes of two keys, up to two revisions each, buckets at the edges of 50 %, four callers; pages over three keys (221 323 states, 131 s) | narrowest hit is served, an ETag seen again names the same content, no entry of another tenant, a walk misses nothing stored when it began |
| `events` | one event, two replicas, one stop or crash (5 910 states, 52 s) | implements `EventDelivery` with its liveness; a row outlives its message; published rows are deleted; `stop` returns |
| `idempotency` | two workers, one key or none, three requests that expect version 1, two of them `PutDraft`, three executions (564 576 states, 90 s) | replays are the original's and the request's own, a success was committed, a key commits once until it expires, a key does not stay in processing |
| `scheduled_job` | three replicas, lock of four ticks, job of two (35 032 states, 9 s) | mutual exclusion; an orphaned lock becomes free |
| `outbound` | two calls, three attempts, threshold two, both clients (90 334 states, 4 s) | only what may be repeated is sent twice, bodies are closed, consecutive failures open the breaker |
| `requests` | two requests, eleven configurations, burst of two (1 052 161 states, 85 s) | the result of a method, run or replayed, goes only to a caller the settings admit, limits hold, a user's quota is spent only by that user |
| `migration` | three processes, three migrations, creation of the schema (13 378 states, 8 s) | a clean version is true, a started process has a migrated database, every start ends |
| `process` | a production deployment, one edit of any setting in any layer, work of every kind (about 160 000 states, 100 s) | production settings are guarded, what is switched on is backed, nothing in use is closed before the deadline, a stop ends |

### Bounds, and why they are enough

* Two handlers let a request be overtaken at each of its steps by any sequence of others, which
  run in the second slot. Five versions allow save, submit, approve, publish and one further
  change; a rejected entry, a draft over a pending or published revision, and a rollback from each
  status fit in. The proofs have no such bounds.
* `Lookback` and `Lookahead` bound the expected versions a client sends, relative to the store.
  With `Lookahead = 0` clients send versions that exist, as the root README asks. A client that
  *predicts* a version breaks `NoStaleWrite`, because `Update` compares the table with the client's
  number and not with the version the handler read; the approval properties do not depend on it.
* `SentPublishedRevisions`: the `published_revision` of a draft. HTTP has no such field (`{0}`);
  gRPC copies it from the message.
* `events`: each event has a row and a message of its own, and replicas meet over one row; what
  they do to several at once (`BatchSize`) is in the proofs, for any events. One tick of lease and
  of retry delay suffices for a lease to run out under a dispatcher. `MaxStops` bounds stops and
  crashes: liveness is claimed for behaviours with finitely many of them.
* `idempotency`: three executions are a first one, one after its key expired, and one more that
  meets both results. All requests expect version 1, so that one `PutDraft` can create the entry and
  match it again; without that, the version condition would hide a second commit. `scheduled_job`: any durations with the job's below the lock's behave alike.
* `requests`: each group of settings gets the requests that tell it apart (`InputsBySettings`):
  credentials and patterns, competing callers, all routes with all early refusals.
* `reading`: `Resolution` and `Listing` share only the access checks, so a behaviour has the steps
  of one of them. `RolloutShareIsFair`, evaluated once, compares the rollout test with the
  percentage over all 65536 buckets.
* `process`: the start configuration is one that `Validate` accepts; one edit reaches every check
  from both sides, and the settings that matter together are in the file of the profile.

Handlers, calls and request slots are symmetric. Symmetry is not used in runs with liveness.

### Fairness

* `events`: weak fairness of the clock, the tickers' goroutines, and of the restart of a process.
  Strong fairness of start, claim, publish, mark and clean, each of which may fail: the code
  retries for ever (the ticker after any error, the row after its lease or retry delay), so what
  is possible again and again succeeds. `StopTerminates` rests on `RunOnce` returning once its
  context is cancelled; `stop` itself waits without a deadline.
* `idempotency`: expiry happens in Redis whatever the service does; handlers end with the
  request's deadline and the middleware runs on after them.
* `scheduled_job`: the clock; jobs return; calls to Redis end at the latest with their context.
* `migration`: a process runs on; waiting for golang-migrate's lock ends with its timeout; PostgreSQL
  grants the advisory lock of the schema to each who waits (strong fairness).
* `process`: only the timer of the stop, and fx's return. A server need not drain.

Nothing is assumed of clients, and crashes are never fair.

### Mutants

The definitions named `Faulty...` are not part of the specification. Each is a plausible mistake
in the definition that follows it (a dropped guard, a swapped order, a field not reset) and makes
the property it is paired with in `PROJECT.json` fail, which shows that the property depends on that
code.

### Two disagreements

* **Resubmission.** `SubmitForApproval` accepts a rejected entry, and its error message says so.
  The revision number does not change, its row exists from the first submission, and the
  second insert violates `UNIQUE(entry_id, revision)`: the request always ends in an internal
  error. `SubmittableCanBeSubmitted` is violated by save, submit, reject, submit.
* **Published revision of a new entry.** On the insert path `PutDraft` keeps the
  `PublishedRevision` of the request, which the gRPC server fills from the message. With a value
  of 1 `Resolve` serves revision 1 as soon as it is submitted, before any approval.
  `ResolvedIsApproved` is violated by save, submit. The other runs, and the proofs that need it,
  assume `SentPublishedRevisions = {0}`, which is what HTTP clients send.

Four observations that are not runs. The root README says that stale writes return application code
30009. Over HTTP they are a 409 with the code of `StaleVersion`, a number of the platform library; over
gRPC they are `Internal` without a code, since `grpcError` has no case for `StaleVersion` (nor for
`RequestInProgress`). This is read off one table and needs no model. A
`PutDraft` that expects version 1 and creates the entry commits again when it is repeated without a
key, or after its key has expired: the first time the version is not compared, the second time it
matches. The timeout
middleware's own 504 is not sent where the handler has already written an answer, which all paths
do. The outbound HTTP client treats a request as retryable when its context has an idempotency
key, and leaves it to the caller to send that key as a header.

## Proofs

All proofs hold for any sets (handlers, principals, scopes, keys, events, replicas, workers,
processes, calls, inputs, settings) and for any bounds. The assumptions on constants are the named
`ASSUME`s of the modules: bounds are natural numbers, `Retention >= MaxAge`,
`JobTimeout < LockTTL`, slots, scopes and keys are finitely many, inputs name routes that exist, reserved names are no
members. Each invariant was checked by TLC before it was proved. Every safety property of a passing
run, invariant or action property, has a theorem.

| module | about | main theorems |
|---|---|---|
| `DynamicConfigProofs` | the workflow, for any client | `StoredIsChecked`, `ServedIsApproved`, `ReviewIsIndependent`, `EntryMatchesSnapshot`, `RevisionsAreImmutable` |
| `RefinementProofs` | optimistic locking, and the abstract workflow | `WritesAreNotStale`, `SnapshotsAreFresh`, `LiveRevisionMovesForward`, `ChangesAreAnnounced`, `LiveRevisionIsAnnounced`, `VersionsHaveOneWinner`, `Refinement` |
| `ReadingProofs` | `Resolution`, `Listing` | `ResolveServesMostSpecific`, `ETagsNameContent`, `UsersReadTheirTenant`, `WalksMissNothing` |
| `EventRuntimeProofs` | the outbox after the commit | `RowsOutliveStream`, `EventsAreNotLost`, `BusIsOpen`, `DeliveryRefinement` |
| `IdempotencyProofs` | idempotent execution | `ReplayIsFaithful`, `ReplayIsOwn`, `SuccessIsReal`, `KeyIsSpentOnce`, `RecordsAreHeld` |
| `OutboundCallsProofs` | outbound clients | `UnsafeRequestsSentOnce`, `NoBodyLeaks`, `FailuresTripTheBreaker` |
| `RequestChainProofs` | the chains of both servers | `MethodsAreAdmitted`, `LimitsBoundExecution`, `UsersSpendTheirOwn` |
| `ProcessProofs` | `ServiceConfig` and `Lifecycle`, `Migration`, `ScheduledJob` | `ProductionIsChecked`, `WorkIsBacked`, `NothingInUseIsClosed`, `VersionTableIsTrue`, `SuccessIsMigrated`, `JobsExclude` |

### The inductive invariants, and why they are needed

* **Admissibility** (`AdmissibleInv`): what is said of stored entries is extended to the copies in
  handlers, which are written later.
* **Approval** (`ApprovalInv`), for `SentPublishedRevisions = {0}` and any `Lookahead`. The properties
  are not inductive: a handler may write an entry it read long ago. The strengthening says of
  every copy a handler holds (`RequestBacked`) what is said of the entries in the table
  (`EntryBacked`): the rows that justified it are there. This is stable because rows are never
  deleted, never change their body or submitter, and leave `pending_approval` once
  (`RevisionsAreImmutable`, proved for every client). So the argument does not use optimistic
  locking at all.
* **Locking** (`LockInv`), for `Lookahead = 0` and `SentPublishedRevisions = {0}`: a copy never has a
  higher version than the table, equals the table's entry when the versions are equal, and the
  client's version is not above it (`ReadInv`); an entry's revision is at or above its rows and its
  live revision, strictly above its rows while it is a draft (`RevisionOrder`).
* **Refinement**, under the same assumptions. A submission maps to `Submit`, an approval to `Approve`,
  publication and rollback to `GoLive` (the body is approved by `ApprovalInv`), every other step
  to a stutter (the live row stays by `LockInv`).
* **Resolve** (`ResolutionInv`): an answer, given or kept, describes live revisions at or behind the
  store's. An answer that is behind can no longer change its meaning, because the body of a
  revision does not change; so one ETag, a list of entry and live revision, names one content
  however far apart two answers are. `ResolveServesMostSpecific` needs no invariant of the state but
  three lemmas about the operators: the query's order puts the rows of a key in the order of
  their rank, no two rows of a key have one rank (`RankNamesOne`), and the answers stand in the
  order of the requested keys (`AmongPlaces`).
* **List** (`ListingInv`): a walk that has read pages of a size has seen every key of the start whose
  present place is before the next offset (`PassedIsSeen`). An insertion can only move keys to
  later places, so a key may be seen twice and not be missed; a page that is not full ends the
  table. The lemmas count positions in a finite set and use no induction over the pages.
* **Events** (`EventInv`): claims exist only inside `RunOnce`, what is acknowledged has been received,
  and a message is at least as old as its row has been published; the last makes
  `RowsOutliveStream` follow from `Retention >= MaxAge`. `DeliveryRefinement` is the safety part
  of `EventDelivery`.
* **Idempotency** (`ExecutionInv`) names an execution by its token; its worker, its record and what
  clients were told agree. `CommitInv` adds who may still commit: the token of a worker, and of a
  committed write, is that of its key's record, or its record has expired and a later token may
  hold the key (`Held`). So two commits under one key mean that the record of the earlier one is
  gone. The version condition is not used: it does not protect the creation of an entry.
* **Outbound calls** (`CallsInv`): the stage of a call bounds its attempts (`CallStages`), and the
  HTTP breaker's own count of failures is never below the callers' (`BreakerCounts`), which is
  where a status that the caller receives as a response has to count.
* **Requests** (`ChainInv`): the place of a request in its chain says what it has passed
  (`RequestOK`, `Beyond`): the subject is that of the credential, the grant is that of the route's
  requirement. A method's result is given only at the last two places of a chain, both behind
  authentication and authorization (`ChecksBeforeResult`). A chain is a concrete sequence per transport and route, so no induction over chains is
  needed. `LimitsInv` counts: what was handled plus what a limit has let through and still runs
  (`InFlight`) is at most what Redis counted, so overlapping requests cannot slip past a limit.
* **Process** (`LifecycleInv`): from each stage of construction on, the settings in force are the
  validated ones, their `app.env` is the active profile, and stores and clients are those they ask
  for (`BuiltAsChecked`); what is closed stands after what is still started in the order of
  construction, and work exists only in what is started (`StoppedInOrder`). `NothingInUseIsClosed`
  follows because every component is constructed after what it uses (`UsedBefore`).
* **Migration** (`MigrationInv`) ties the stage of a process to the lock it holds and to the version
  table; for any directions, so `migrate down` is covered too.
* **Scheduled job** (`LockInv` of `ScheduledJob`) also covers a lock that was granted and not heard
  of: it outlives the caller's context, so a caller who hears of it in time still holds it.

### Only model-checked

* Liveness (`EventuallyCleaned`, `StopTerminates`, `KeyIsFreed`, `OrphanExpires`, `StartEnds`,
  `StopEnds`) and the fairness part of `ImplementsDelivery`: TLAPS 1.4.5 proves neither fairness nor
  `ENABLED`. The proofs are about the specifications without fairness.
* `RolloutShareIsFair`, which is evaluated over all 65536 buckets.
* The two disagreements, which TLC refutes.

## Not modelled

* Health: only the outcome of `ready`. The probes are goroutines of one call with their own timeout
  and a buffered channel, and share nothing with other calls.
* `Locker.Lock`, the waiting form of `TryLock`: it has no caller. `Extend`, which only tests call, is
  modelled, so `ScheduledJob` has more behaviours than the service.
* Error numbers and what they become on each transport (`apperror`, `grpcError`): tables.
* viper merges maps field by field. In `ServiceConfig` a setting is one key, and an upstream, of which
  a layer may set single fields, is replaced as a whole.
* `migrate` with a number of steps, and the rewriting of database URLs.
* The gRPC stream interceptors: they repeat the unary ones, and no method streams.
* Signatures, tokens and hashes are a yes or no, or an arbitrary function; issuing tokens, parsing of
  durations and of lists in settings (`stringToStringSliceHook`) are left out.
* Upper and lower case: `PutDraft` stores keys in lower case and `Resolve` asks as sent; the model
  follows a case-sensitive database, and what a case-insensitive collation does is not modelled.
* Refilling of rate limits: counters count up to the burst within one period.
* Metrics, access logs, tracing, request ids, build information, generated API documentation: no
  state that another part reads. The stop hooks of tracing and logger are in `Lifecycle`.
