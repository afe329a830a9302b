# CodeAI in TLA+

A verification project for the CodeAI runtime: TLA+ models of its concurrent and
failure-prone parts, TLC configurations that check them on small instances, and
TLAPS proofs of the most important invariants.

## 1. The system

CodeAI compiles a declarative DSL (entities, endpoints, workflows, jobs, events,
integrations, webhooks) and runs the resulting backend. Much of the repository is
pure translation (parser, validator, code and OpenAPI generators); the part with
state, concurrency and failure is the runtime the generated backends run on.

| component | state it keeps | operations | interacts with |
|---|---|---|---|
| circuit breaker (`pkg/integration/circuitbreaker.go`) | state, failure count, half-open successes, time of last failure; all separate atomics | Allow, Execute, RecordSuccess, RecordFailure, Reset; registry Get, Register | called by the REST and GraphQL clients around the retryer |
| retryer and timeouts (`pkg/integration/retry.go`, `timeout.go`) | attempt, delay; a goroutine per timed call | Do, DoWithResult, Execute, ExecuteWithResult | wraps every outgoing call |
| REST client (`pkg/integration/rest`) | none of its own | Do: breaker, retries, timeout around one request | the three above |
| webhook client (`pkg/integration/webhook`) | semaphore, attempt loop | Send, SendBatch | used by the delivery service |
| shutdown (`internal/shutdown`) | hook registry, state, once, done channel, errors; drainer count and wait group | Register, Shutdown, Wait; Add, Done, StartDrain, Wait | stops the HTTP server, workers, database, cache and metrics |
| event bus and dispatcher (`internal/event`) | subscribers per event type, bounded asynchronous buffer, closed flag; event store | Subscribe, Unsubscribe, Publish, PublishAsync, Close; Dispatch, DispatchAsync | subscribers: logging, metrics, webhooks |
| webhook delivery (`internal/webhook`) | webhooks with failure counts, delivery records with retry times, bounded queue, workers, retry ticker | Enqueue, Start, Stop; DeliverWebhooksForEvent, RetryFailedWebhook; processRetries, TriggerNow | fed by the event bus, sends through the webhook client |
| saga and compensation (`internal/workflow/compensation`, `patterns`) | registered compensations, executed steps, records | RegisterCompensation, RecordExecution, Compensate, CompensatePartial, ExecuteSaga, SagaWorkflow, SagaWithSignals | run inside Temporal workflows |
| workflow definitions and engine (`internal/workflow/definitions`, `engine`) | running flag, Temporal client and worker; results per agent or test case | Start, Stop, Execute...; pipelines, test suites | Temporal, workflow repository |
| job scheduler (`internal/scheduler`) | job records, Redis queues, cron entries | SubmitJob, ScheduleJob, CreateRecurringJob, CancelJob, MarkJob... | asynq server, event dispatcher |
| cache (`internal/cache`) | items, LRU list, memory accounting | Get, Set, Delete, GetOrSet, MSet, Incr, Decr, Clear, cleanup | query and HTTP layers |
| JWKS keys (`internal/auth`) | key map, time of refresh | GetKey, Refresh, refresh loop | token validation |
| RBAC (`internal/rbac`) | roles, permission cache | CheckPermission, CheckRole, policy changes | middleware |
| migrations (`internal/database`) | schema_migrations table | MigrateUp, MigrateDown, MigrateReset, Status | startup |
| health, logging, metrics, notification, pagination, query, API handlers | per-request or counters | registration, checks, CRUD | everything above |
| parser, validator, codegen, openapi, cmd | none between calls | translation | - |

### What is hard, and what must hold

- **Circuit breaker.** Four independent atomics, read without the mutex and acted on
  later. A counter that reaches its limit must not be left without the transition it
  calls for; a state and the counter resets that belong to it must not be torn apart;
  when the service is well again the circuit must close, whatever late results arrive.
- **Shutdown.** Hooks that hang, panic or answer after their deadline; several callers
  and a signal at once; hooks registered late. Groups must run in priority order, errors
  must name exactly what went wrong, every caller must return after the whole shutdown.
  The drainer must wait for the requests it let in before draining started, and drain.
- **Event bus.** `PublishAsync` against `Close` on one channel, a full buffer, failing
  and panicking subscribers. No send on a closed channel, events stored first, each
  subscriber once and in order, everything accepted delivered before `Close` returns.
- **Webhook delivery.** A queue stopped while producers and workers are at it; a retry
  loop and `TriggerNow` working on copies of the same records; a failure limit checked
  on a count others change. Nothing accepted may vanish, nothing accepted by the
  endpoint may be sent again, and giving up needs a reason.
- **Saga.** Steps that report an error although they took effect, steps allowed to
  fail, compensations that fail, signals, cancellation. Later steps are undone first,
  nothing is made once the saga has turned round, and the report is honest.
- **Cache.** A memory figure adjusted in seven places; two limits; an LRU order that
  reads and expiry disturb.
- **Scheduler.** A database record, a Redis task and a cron entry for one job, written
  by separate calls each of which may fail, with crashes between any two of them.
- **Shared cache.** Processes that fill, write and invalidate the same keys with no lock
  between the origin and the cache. What was invalidated must not come back, except from a
  fill that was already under way.
- **Keys and access.** Keys fetched without the lock while the issuer rotates; roles read
  without the lock while they are saved and deleted, and two caches over them. A valid token
  must pass, the keys must converge, a grant must come from a stored definition.
- **Workflows.** Agents and steps that run in parallel and fail in the middle, records
  written beside Temporal without a transaction, rollbacks that are retried after an answer
  was lost. What is known to be done is undone or reported as not undone, and the rows are true
  of Temporal as far as its answers arrived.
- **Outgoing calls and mail.** An attempt goes on after its caller has given it up; an answer
  is lost after the provider has acted. No attempt is repeated without an answer that
  allows it; the log is right about what the provider has, where the answer came.
- **Stores, migrations, pages.** Two releases migrate one database; requests read, change
  and write one row in two kinds of store; rows come and go under a client that pages.
- **Queries and validators.** A parser, two compilers and a builder that must keep the
  meaning of a text through groups, negation and parameter numbers; validators whose scopes
  and registries outlive a statement and a call.
- **Generated endpoints.** Steps with effects, one of which fails; middlewares that cannot be
  built; requests that share a breaker and its slots.

## 2. The modules

Each component module has its state as variables, one action per operation or per step
between which other goroutines can run, and its properties at the end. A decision that a
run's mutant changes is an operator of its own, after a variant marked *Wrong on purpose*,
which the specification does not use. The `MC` modules hold only what TLC needs.

| module | models | a step is |
|---|---|---|
| `CircuitBreaker` | `pkg/integration/circuitbreaker.go` | one atomic load, store or add; taking and releasing `mu` |
| `ShutdownManager` | `internal/shutdown/{manager,hook,timeout,signals}.go` | a hook starting, returning, being given up on; a group starting; `Once` |
| `Drainer` | `internal/shutdown/drainer.go`, `hooks/http.go` | the check, the counter and the wait group of `Add`; of `Done`; `Wait` |
| `EventBus` | `internal/event/bus`, `internal/event/dispatcher` | storing, the buffer send and receive, the snapshot, one subscriber call, `Close` in three parts |
| `DeliveryQueue` | `internal/webhook/queue`, the sending loop of `pkg/integration/webhook/client.go` | the check and the send of `Enqueue`; one attempt, one back-off, one repository call; `Stop` in four parts |
| `WebhookDelivery` | `internal/webhook/{service,retry,repository}` | one repository call, one `Send` |
| `Saga`, `AbstractSaga` | `internal/workflow/{compensation,patterns}` | one step or compensation of the workflow, a signal, a cancellation |
| `MemoryCache` | `internal/cache/memory.go` | one operation (each holds the lock throughout) |
| `Scheduler` | `internal/scheduler/{service,repository,queue}`, the job handlers | one repository or queue call, what asynq does with a task, `Start`, `Stop`, a crash |
| `GracefulShutdown` | `ShutdownManager` and `Drainer`, joined as `hooks/http.go` joins them | a step of either; the hook starting the drain |
| `SharedCache` | `internal/cache/{redis,middleware}.go` | one Redis command, one question to the origin, one page of a scan |
| `TokenKeys` | `internal/auth/{jwks,jwt,middleware}.go` | a look into the key map, a fetch, a store, a rotation by the issuer |
| `AccessControl` | `internal/rbac` | a look into either cache, a read of the backend, a fill; the halves of a write; a role looked at by the policy's cycle check |
| `OutgoingCall` | `pkg/integration/{retry,timeout}.go`, the REST, GraphQL and Brevo clients | an attempt starting, acted on by the service (also after it was given up), answering, being given up |
| `EmailNotifications` | `internal/notification/email`, the email handler | the post, the log entry, a page of the log |
| `HealthChecks` | `internal/health` | a checker answering, a registration, the answer of a probe |
| `GeneratedEndpoint` | `internal/codegen`, the loaders of `auth`, `event` and `integration` | the generation, one logic step of a request, one handler of an event, a call through the breaker |
| `Pipelines` | `internal/workflow/{definitions,activities}` | an activity ending, a result taken, one compensation, a cancellation |
| `WorkflowRuns` | `internal/workflow/{engine,repository}`, the workflow handlers | one call of Temporal or of the table, a call that failed for its caller arriving late; start and stop of the engine |
| `DslWorkflow` | `internal/workflow/dsl_loader.go` | an attempt of an activity, a future awaited |
| `Compensation` | `internal/workflow/compensation/repository`, `internal/workflow/activities/compensation` | one call of the collection, a record changed in memory; one file operation of an attempt, its answer, its time-out |
| `Migrations` | `internal/database/migrate.go` | reading the versions, one transaction |
| `DeploymentStore` | the deployments API over `internal/database/{repository,mongodb}` | one repository call, made on both stores |
| `Paging` | `internal/pagination`, paging in `mongodb/repository.go` | one page, one insert or delete |
| `QueryParser`, `QueryCompiler` | `internal/query`, the translation in `mongodb/repository.go` | a piece of text, parse, compile, execute |
| `MongoBuilder` | `internal/database/mongodb/query.go` | one builder call, the building |
| `ProgramValidator` | `internal/validator/{validator,symbol_table,type_checker,event_validator}.go` | one statement |
| `DeclarationValidator` | `internal/validator/{endpoint,workflow}_validator.go` | a registration, one call with a batch |

`EventBus` composes the bus with the dispatcher that drives it, `DeliveryQueue` the queue
with the client its workers use, `Drainer` the drainer with the hook and the middleware,
`Scheduler` the service with its repository, queue and task handlers, and `GracefulShutdown`
the manager with the drainer whose result is that of one of its hooks. `GeneratedEndpoint`
puts the generated handlers over the event registry, the breaker of an integration and the
token check. `Saga` instantiates
`AbstractSaga`, which says what a saga promises without a word about names, registrations
and records; `ImplementsSaga` is that promise.

Pure algorithms are checked against a second definition of what they should compute: the
meaning of a query text against the rows its SQL selects (the SQL is read back with SQL's own
precedences) and against its MongoDB filter, the calls of a builder against its pipeline, the
blocks of a program against the validator's scopes, inheritance against the cycle check.

A behaviour of `MCServices` or `MCWork` is a behaviour of one component, chosen at the start,
while the others stay where they begin, so that a run explores the sum of their states. The
components that are also proved about are extended, with variables of their own, so that run
and theorem speak of the same definition; the query modules, the builder and the validators, in
`MCWork`, take their variables from one pool (`MCPool`). `MCProgress` does the same for
liveness, each part with the fairness of its own module.

Data is reduced to what the properties tell apart: an event is its identity and type, an
HTTP answer the kind of outcome, a cached value its size and whether it is a number, or the
version of the origin it was read from, a signature its signer, an instant whether a deadline
has passed. `PROJECT.json` maps every definition to its lines. External parts are modelled
from how the code uses them: asynq (retry up to the limit, recovery of a task whose server
died, requeueing at shutdown), Temporal (an error may hide an effect, activities are retried,
one open run per ID), Redis, SQL and MongoDB (what an operator, a constraint or an upsert
does), the mail provider, the issuer of keys, the operating system's crashes and restarts.

## 3. The runs

| run | instance | what it shows |
|---|---|---|
| `breaker` | 2 threads, both may `Reset`, threshold 2, 2 half-open successes | `NoLostTransition`: a counter at its limit always has somebody about to make the transition; `TransitionAtomic`; `Recovers` under fairness |
| `bus` | 2 events, 2 publishers, 2 workers, a buffer of 1, 2 subscriptions | `HandledRightly`: stored first, each subscriber once and in order; `ClosesCleanly`; `AcceptedIsDelivered` |
| `queue` | 2 items, 2 producers, 2 workers, 1 sending slot, 3 attempts, 2 callers of `Stop` | `NoItemLost`: nothing vanishes, nothing is given up untried; `StopTerminates` |
| `queue_enqueue_panics` | as above with 3 items | the code breaks `EnqueueNeverPanics`: a finding |
| `webhook_safety` | 2 deliveries, the loop and one trigger, 2 attempts, limit 2 | `LimitDisables`, `GiveUpJustified`, `SuccessIsFinal` |
| `saga_safety` | every saga of 3 steps over 2 names, all three kinds | `EffectsAccounted`, `ImplementsSaga` |
| `saga_cancelled` | 2 steps | the code breaks `FailureRollsBack`: a finding |
| `scheduler` | 1 job of any kind, 2 cancellers, 2 retries, 2 restarts | `EntriesUnderControl`, `RecordTellsTruth`, `AcceptedRuns` |
| `rbac_roles` | viewer, editor that inherits from it, users with one or both | the code breaks `ResolvesAll`: a finding |
| `progress` | shutdown with 2 hooks, 2 callers, 1 request; 1 webhook delivery, 2 rounds; 2 keys, 1 rotation, 1 request | `ShutdownCompletes`, `Quiesces`, `RetrySettles`, `KeysConverge`, and `NewKeyAccepted` on the way |
| `services` | see below | the safety of nine parts: `DependenciesOutliveRequests`, `ReturnMeansComplete` (shutdown); `Accounted`, `SetEvictsExactly` (memory cache); `InvalidationHolds` (shared cache); `GrantJustified` (RBAC, policy); `AnswerIsOrderFree` (health); `RepeatsFollowAnswers` (calls); `LogTellsMail`; `EndpointsKeepFaith` |
| `work` | see below | the safety of twelve parts: `PipelinesAccounted`, `RowsTruthful`, `UndoingIsSafe` (records and file rollback), `ReportMatchesSteps`, `SchemaConsistent`, `StoresAgree`, `PagesComplete`, `QueryMeansText` (text and builder), `ErrorsMatchProgram` (both kinds of validator) |

Type invariants are checked too, as the first conjunct of an invariant of the same run.

Instances in `services`: 3 hooks in 2 groups, 2 callers, 1 request; 3 cache keys, sizes 0 to
4, memory 3, 2 items; 2 readers and 1 writer of 2 shared keys, 2 versions; 3 roles, 2 checks of users with two roles,
1 change; 4 checkers, two of one name; 1 caller with 3 attempts; 2 senders, 3 mails; 2 requests
on any of ten programs. In `work`: 3 agents or test cases; 2 handlers, one workflow ID, 2
starts, the engine made twice; 2 callers, 2 compensation records of one workflow and one clock
step; 3 attempts of a rollback; declared workflows with blocks of up to three; releases with 2 and 3 migrations,
4 commands; 2 API handlers, 4 requests; 4 rows, limits 0, 1 and above the maximum, 3 pages,
2 writes; texts of up to 3 conditions, 2 groups and a NOT; 3 builder calls, filters of
the DSL with a field named twice or negated beside a condition; programs of 6
statements or 4 declarations; 3 validator calls.

**Why the bounds are enough.** The races here are between two goroutines and whoever
interrupts them, so two of each kind meet every one of them; limits are set to the
smallest value at which one can be below, at and above them (threshold 2, buffer 1,
two items for three keys, a value larger than the memory, a page limit of 0 and one above
the maximum); one job suffices in `Scheduler` because no operation touches two, and the
theorems there are for any set. Three conditions with groups meet every neighbourhood of two
connectives; three roles make a cycle that is longer than a parent of its own.
Bounds that cut behaviour off are constants of their own, marked *bound* where they are
declared: `MaxSubscriptions`, `MaxRounds`, `MaxFires`, `MaxRestarts`, `MaxVersion`,
`MaxRotations`, `MaxWrites`, `MaxStarts`, `MaxEngines`, `MaxCommands`, `MaxRequests`, `MaxRecords`,
`MaxPages`, `MaxTableWrites`, `MaxMails`, `MaxProbes`, `MaxStatements`, `MaxValidatorCalls`
and the like. Time in the breaker is an age that stops at `Timeout`, the only instant it is
compared with. Symmetry is used only where no liveness
property is checked: in `work`, of the handlers and callers, which only occur as
keys there.

**Deadlock** is checked in the runs of single components; where one really comes to rest its
specification has a `Terminating` step that says when. `progress`, `services` and `work` turn
it off: their parts are calls, walks and programs that end, or reach a bound, and rest there.

**Fairness.**
- Breaker: goroutines run on, requests keep coming, calls return, time passes. Taking
  `mu` has strong fairness, since Go's mutex hands itself to a waiter that has waited
  long enough.
- Shutdown: the manager, the deadlines and the callers go on; *no* fairness for hook
  functions, which may hang for ever, except that the drainer's hook runs its own code.
  Drainer: requests that were let in end; nobody is obliged to send one, so `Quiesces` does
  not hold for want of arrivals.
- Keys: the refresh loop ticks and stores while it runs (`KeysConverge` assumes that it stays
  on), requests go on, and a fetch that is tried again and again succeeds at some time
  (strong fairness): without it no cache could follow its issuer.
- Bus and queue: workers and the closer go on; subscribers and single HTTP requests
  return (requests have a timeout). Nobody is obliged to publish, enqueue or stop.
- Webhooks: time, the ticker and both loops go on. The owner is under no obligation;
  `RetrySettles` names what the owner can do to prevent it.
- Scheduler: asynq serves its queues and handlers return, as long as the server is up;
  `AcceptedRuns` assumes that it stays up from some time on.

## 4. The proofs

TLAPS proves the following for every value of the constants.

**`CircuitBreakerProofs`** (any number of threads, any positive settings).
`TypeCorrect`, `TransitionsAreAtomic` and `TransitionsNotLost` follow from
`IInv == TypeOK /\ LockTargets /\ TransitionAtomic /\ TripNotLost /\ CloseNotLost`.
`LockTargets` (a thread that waits for or holds `mu` knows where it is going) is what the
four need to be inductive: without it a thread could be at the lock with no target, and
the promise "somebody is about to open the circuit" would lead nowhere. The argument is
that only an `Add` makes a counter reach its limit, that the same thread goes to the lock
next, and that a store of a state is followed by the reset of its counter under `mu`.

**`SagaProofs`** (any length, any names). `TypeCorrect`, `RollbackAccounted` and
`Refinement` (`Spec => ImplementsSaga`) follow from
`IInv == TypeOK /\ AtStep /\ CompletedBehind /\ CompletedFound /\ RecordsAbove /\
ForwardClean /\ UndoneOrError /\ EffectsKnown /\ ReportHonest`: completed steps lie behind
the step at hand and the manager finds each one that can be undone; compensation records
lie above the compensation at hand; of what lies above it, everything that had to be undone
was, or an error was kept. The last is what makes the report honest.

**`SchedulerProofs`** (any jobs, any number of callers, whatever calls fail and however
often the process dies). `EntriesAreRecorded`, `CancelStopsCron` and, of both together,
`EntriesStayUnderControl` follow from `Inductive`,
whose `IInv` links the three places a job lives in: a record says whether its job is
recurring and is made once, after the registration; only recurring jobs have entries;
`CancelJob` works on recorded jobs and has removed the entry before it writes the status.
What they say of an entry is what the code gives: a record that `CancelJob` accepts, or one it
refuses because a run was reported completed and the next has not been reported begun.

`RecordsTellTruth` adds, for each job, what its task, its record and the calls at work
on it owe each other (`JobInv`): while a submission or a handler is between two writes, the
record is one of those it can still put right (`Settling`), a record that waits has a task or
an entry behind it (`Backed`), and the retries asynq counted bound those of the record
(`RetriesCounted`). None of the three claims of `RecordTellsTruth` is inductive, since each
speaks only of jobs nobody works on.

**`ShutdownProofs`** (any hooks and priorities, callers and requests; hook functions may fail,
hang or come back late). `OrderKept`, `NothingSkipped` and `NoEarlyReturn` follow from
`IInv`: a hook is pending, then in the group that runs, then settled (`HookProgress`); whatever
was started has no lower a priority than what is pending or running (`StartedAbove`); the
errors name what did not end well (`ErrorsTrue`). `ManagerImplemented` (`GracefulSpec => Spec`)
shows that the manager joined with the drainer takes only steps of the manager, so those results
carry over. `DependenciesSafe` needs `DrainInv` besides: the counter and the wait group are the
numbers of the requests that have passed each of them, and a hook that returned without an
error has seen the wait group at zero.

**`WorkProofs`** (any processes, users, rows, items and attempts). `MigrationsConsistent`: a process
between two versions has applied everything below the one at hand (`UpInOrder`), as the
transaction that records a version is the one that makes its tables. `RowsAreTruthful`:
a row's handlers know how far they got with Temporal (`HandlersInStep`), and one handler
alone starts a row (`OneStarter`), so that what is written later is still true, but for the
calls that failed for their caller and went through later (`astray`). `UndoingSafe`
joins `RollbackIsSafe`, where attempts go on beside their repetition, the old contents are in
the file or the backup while no write of an abandoned attempt is open (`FilesSound`), and only
the attempt at hand is waited for (`AttemptSound`), and `RecordsAreKept`, where
whatever a caller holds or the collection has is a record that was made in the second that is
its ID (`Whole`), and only a record alone in its second is claimed to be there. `NoDeliveryLost`: an item that
`Enqueue` accepted is in the queue once, or with one worker, or has its record (`ItemSound`), and
a worker's result counts its requests (`Progress`); it needs three attempts or more
(`DeliveryAssumption`; the default is three), because `Send` reports two for a context that is
cancelled before the first request, and each item adds to the failure count once, when its worker
lets it go (`SettledItems`). `ReportsMatchSteps`: of a declared workflow, every block behind the
one at hand is done and every future behind the one awaited has succeeded (`FlowDone`).
`PipelinesAreAccounted`: what has been collected lies behind the current unit, a sequence that
stops leaves the rest out (`Collected`), the manager's names are those of the units that completed
(`Executed`), what was tried to be undone so far are the registered units above those still to be
looked at (`Undoing`), and the error reports what the tries came to (`Reported`). `StoresStayEqual`: until SQL refuses what the documents accept, the two hold the
same rows (`Agree`), and a handler that has read a row and has yet to write it got the same one
from both (`ReadsSound`). `WalksAreComplete`: the pages of a walk
by cursor are in order, full but for the last, and whatever row was there throughout has been
seen or comes after the last row of the last page (`CursorSound`); of a walk by offset over a
table that stays as it is, the rows seen are the first ones of every ordering the store may
choose (`OffsetSound`).

**`ServiceProofs`** (any callers, keys, senders and checkers). `CacheInvalidationHolds`: a
reader at work holds an answer between what the key may have and what the origin has
(`ReadsBetween`), and a scan knows the keys it has passed (`ScanSound`). `CallsRepeatAnswered`:
a call waits for no attempt but the one at hand, although abandoned goroutines live on; what
came before it ended in an answer that allows a repetition; and the breaker's ledger counts the
open calls. `LogIsTruthful`: message numbers are
given once, so that no two senders share one. `HealthIsOrderFree`: the status at hand is that
of the results taken so far. `NewKeysAreAccepted`: the key of a request that
nothing disturbed is in every answer that a `Refresh` has yet to store.
`GrantsAreJustified`: what either cache holds, and what a check has gathered at each depth of its
recursion, comes from definitions that circulate (`RbacInv`, `FrameSound`); the policy stays
acyclic because the roles visited by its cycle check have their parents visited or still to
visit, and the role to be saved is not among them (`PutSound`). `MemoryIsAccounted` and
`SetsEvictExactly` need some induction, over the length of the list: the lemma `Counting` gets it
from a least element of a set of numbers, `Iterated` gives a function for a recursion
of that length, `MemoryShifts` says how the memory figure moves when entries come and go, and
`OnlyEnumerates` what filtering leaves. `Recency` ties the list's order to the
history of uses, so that "the least recently used" means what the calls did and not where the
code put an entry. `EndpointsAreFaithful`: a request in progress has done every step with an
effect behind the one at hand and nothing after it (`BehindDone`, `EffectsWithin`), whoever has
come past the middlewares has shown each required one a valid token (`LetsIn`), and the breaker's
slots are the calls under way. Its hypothesis `EndpointAssumption` has that the status an endpoint
declares for success is none of the codes the runtime answers errors with, and that a program
has one integration at most: each has a breaker of its own.

**`EventBusProofs`** (any publishers, workers, subscribers and buffer). `EventsHandledRightly`
follows from `CoreInv`: an event is held by at most one thread or lies in the buffer once, nobody
was called with it before its snapshot, and what was called and what is left to call together
are the snapshot. `BusClosesCleanly` has the hypothesis `CloseAssumption`: `Close` is called
by one goroutine, because a second call panics, and there is a worker: ten by default, but a
configuration with none is not replaced and would leave the buffer unread; `CloseInv` says where the publishers can be once the channel is closed.

**`WebhookProofs`** (any deliveries, any goroutines of `TriggerNow`, any settings).
`LimitsDisable`, `SuccessesAreFinal` and `GiveUpsAreJustified` follow from `WebhookInv` and
`Fair`: until the service is done with a delivery its record is what the service wrote, and
only then do the handler's goroutines touch it (`Sound`); while only the loop runs it holds the
one copy of a record (`Alone`); a delivery whose `Send` used up what the handler allows stays so
(`Exhausted`), which decides between clearing and retrying in whichever goroutine. The bounds
of the type invariant are proved with it (`Bounded`): each delivery adds at most once to the
failure count, and a cancelled handler counts one attempt too many at most once in each goroutine.

Assumptions are those of the modules: positive settings (the constructors replace others by
defaults), a set of kinds that is not empty, natural bounds, model values that are not
members of the sets they stand beside, finite sets where things are counted. The components of
`MCServices` and `MCWork` have them as definitions, which the theorems take as hypotheses and
the two `MC` modules assume, so that TLC evaluates them.

**Only model-checked:** all liveness properties (`Recovers`, `AcceptedIsDelivered`,
`StopTerminates`, `AcceptedRuns`, `ShutdownCompletes`, `Quiesces`, `RetrySettles`,
`KeysConverge`), whose fairness is out of the prover's reach; and two safety properties about
trees, `QueryMeansText` (parser, compilers, builder) and `ErrorsMatchProgram` (validators): what
they compare is computed by recursion over syntax, and to prove them for every text would take
induction over it. TLC checks them for all texts and programs within the bounds of section 3.

## 5. Where the code and its promises part

Three disagreements have runs of their own and are listed under `findings`: `Enqueue` can
panic when `Stop` closes the channel between its check and its send, a cancelled saga
refuses to compensate, and a role resolved after one of its parents loses, for everybody, what
it inherits. The others below came up while modelling. The models contain them
all, and the properties are stated so that they hold in spite of them.

- *Circuit breaker.* A reader that acts on an old state can take the circuit from open to
  closed or to half-open before `Timeout` (`circuitbreaker.go:64`, `docs/architecture.md:834`
  name neither), and a half-open circuit admits any number of requests, though line 23
  says "limited". `OnStateChange` is called with `mu` held.
- *Drainer.* A request between the check in `Add` and `wg.Add` (`drainer.go:33`) is not
  waited for, and is served while the hooks of a lower priority close what it uses;
  `DependenciesOutliveRequests` is about those counted before `StartDrain`.
- *Event bus.* `Unsubscribe` compares addresses of two local variables (`event_bus.go:88`)
  and never removes anybody. A second `Close` panics, so a run has one closer.
- *Delivery queue.* `Stop` "waits for pending deliveries" (`delivery_queue.go:120`) but
  cancels their context first (`:131`): what is queued gets a record and a retry time, not
  a delivery. `Stop` before `Start` is left out.
- *Webhooks.* A retry overwrites `Attempts` with the client's own count
  (`webhook_service.go:337`): an answer the client does not retry always leaves 1, and the
  delivery comes round for ever. `TriggerNow` beside the loop can send again what the endpoint
  has accepted, hence the condition in `SuccessIsFinal`. A success between reading
  the failure count and disabling (`:282`) does not save the webhook. With
  `MaxRetries` below the policy's `MaxAttempts` one goroutine can clear what another has just
  scheduled (`retry_handler.go:33` and `pkg/integration/webhook/models.go:45` have 5 and 3): the proof of
  `GiveUpJustified` failed there, and the property now says so.
- *Saga.* Executions are recorded by name, so of two steps with one name a failed one can
  be compensated (`manager.go:125`). A signal that arrives during the last step is never
  looked at (`saga_workflow.go:269`).
- *Caches.* `Incr` and `Decr` ignore both limits until the next `Set`. `GetOrSet` and the HTTP
  middleware store an answer they got before a `Delete`; `InvalidationHolds` excepts the fills
  that were under way.
- *Keys and access.* Of two concurrent `Refresh` calls the one that stores last wins, even if
  it asked first (`jwks.go:146`). A role read before `SaveRole` is put back into the cache after
  it (`storage.go:175`), until its time is up.
- *Workflows.* A late "running" of `StartWorkflow` overwrites "canceled"
  (`handler.go:106`). A call of Temporal that fails for its caller may have begun or canceled the
  run all the same: the row says "failed" of a run that goes on (`:99`), or nothing of a
  cancellation (`:171`). Agents of one name are compensated together, those that complete after a
  cancellation are not compensated, and on a canceled context every rollback fails; the error
  of the pipeline says "compensation failed", its output does not. `executeParallelSteps` drops
  the results after the first failure. `test_suite_workflow.go:187` sets no retry policy.
- *Compensation.* Records made in one second share an ID, though `compensation_repository.go:111` calls
  it unique: `randomString` gives the same eight letters each time. The last one saved is left, with the times of
  the others where it has none itself (`compensation_repository_mongo.go:76` sets what is not
  empty). A rollback attempt does not look at its context (`default_handlers.go:63`): one that timed
  out goes on beside its repetition, which may read the backup, restore the file and remove the
  backup before the first attempt empties the file; if that one then breaks off, the contents are lost.
- *Stores.* The later of two concurrent updates of a deployment wins in both. SQL refuses a
  second deployment of one name, a missing config and a deletion that is referred to, the
  documents accept them; `Update` of a missing row is an error in SQL only.
- *Pages.* With ties in the ordering field, with a base filter that contains OR
  (`paginator.go:213`), or in MongoDB with any order but ascending by id, cursor pages skip
  or repeat rows. `PagesComplete` is about the other plans.
- *Queries.* AND and OR at one level become OR of them all (`parser.go:489`). A later call of
  the MongoDB builder may take the place of an earlier one with the same key. `BuildFromDSL` hands
  the operators of a field on as the value of an `$eq`: named twice under `and`, a field has a
  condition that nothing meets (`query.go:404`). `$not` beside a condition on its field wins or
  loses by the order of a Go map (`:602`). The compiler writes a HAVING over plain columns also
  where nothing is grouped (`compiler.go:94`), and the database refuses it. An
  `Executor` has one `SQLCompiler`, which collects the parameters in itself without a lock
  (`compiler.go:31`): it is not for two goroutines at once. Nothing in the repository makes one
  outside the tests, so the model has one client.
- *Validators.* Errors are never reset: after a batch with a fault every batch is refused. A
  middleware's provider is looked up only if it is written as an identifier (`validator.go:739`), its
  roles only as strings in a list (`:760`): `provider: "nobody"` is accepted.
- *Generated endpoints.* A middleware that cannot be built is skipped with a log line
  (`generator.go:353`), also a required one; steps done before a failed one stay done; a body
  of JSON `null` makes an insert panic; handlers that emit each other's events recurse without
  end (`event/dsl_loader.go:150`).
- *Calls, mail, health.* The metrics middleware of the REST client shares one timer among its
  requests (`rest/middleware.go:122`). A mail whose answer is lost is logged as failed. Of two
  checkers with one name the later answer is shown. A service may act on a
  request after the client gave it up, and so beside its repetition; the client cannot tell.
- *Scheduler.* The `MarkJob...` operations have no caller yet; the model takes the handlers
  to use them as their comments say. A recurring job whose last run was reported
  completed cannot be cancelled until the next run begins (`scheduler_service.go:281`), cron entries are not registered again after a restart, and a manager that
  was stopped and started again does not serve.

## 6. What is not modelled, and the plan

`PROJECT.json` lists every part of the repository with a reason. Left out:

- the grammar, the syntax tree and the generators of OpenAPI documents and other text:
  sequential translation whose detail is the text itself, which a model could only repeat;
- cryptography, logging, metrics, templates and the command line;
- adapters that make one external call and keep nothing (Redis and Temporal clients, the
  hooks for workers, database, cache and metrics, task bodies that are placeholders);
- the cluster client of the Redis cache, whose scan goes from node to node, several integrations
  in one program, and what cursors make of values that JSON does not keep (numbers above 2^53);
- what no part of the program calls (MongoDB transactions, `CompensatePartial`, `UpdateJob`,
  `TimeoutContext` and the like).

What could come next is a proof of the query modules for every text, by a prover with induction
over data, and models of the generators named above if they come to keep state.
