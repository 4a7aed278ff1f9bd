# Hookman in TLA+

Hookman accepts events over HTTP and delivers each one by POST to every endpoint
that subscribes to its topic, with retries and a dead letter queue. The state is in
Postgres; a poller and a pool of workers in every server process act on it, while the
management API and the dashboard write to the same tables. This directory models that
system, checks it with TLC and proves its safety properties with TLAPS.

## The system

| Part | Source | State | Operations | Talks to |
|---|---|---|---|---|
| Poller | `internal/worker/poller.go` | what it read of the last two queries | a tick: poll pending events, poll due attempts | store; sends jobs to the pool's channel |
| Worker pool | `internal/worker/pool.go` | a channel of `2 * WORKER_CONCURRENCY` jobs, the job of each worker | receive, deliver, record, mark; stop | endpoints over HTTP; store |
| Delivery decisions | `internal/delivery` | none | sign and POST, next retry, exhaustion | called by workers |
| Store | `internal/store`, `migrations` | tables `events`, `endpoints`, `delivery_attempts` | SQL statements, each on its own pool connection | everybody |
| Events API | `internal/api/events.go` | none between requests | create (with idempotency key), list, get, replay | store |
| Dead letter API | `internal/api/deadletter.go` | none | list, bulk replay, purge | store |
| Endpoints API | `internal/api/endpoints.go` | none between requests | create, list, patch, delete, deliveries | store |
| Dashboard | `internal/dashboard` | none between requests | event list and page, replay, bulk replay, create, toggle, delete | store |
| Rate limiter | `internal/api/ratelimit.go` | a map of token buckets | fetch, draw, evict | wraps the API |
| Life cycle | `cmd/hookman/main.go`, `internal/api/server.go`, `health.go` | context, shutdown channel | start, signal, grace period, drain, stop | poller, pool, server |
| Metrics, statistics | `internal/metrics`, `internal/api/stats.go` | counters | count | called by handlers, poller and workers |
| Ids, signatures, auth, configuration | `internal/id`, `delivery/sign.go`, `api/middleware.go`, `internal/config` | none | pure | |

What is hard here:

* **Interleaving.** No transaction spans two statements. A poller handles events it read
  earlier; workers update an event's status without looking at it; replays, purges and
  endpoint changes come at any moment; handlers look a row up and write it in two
  statements; the Helm chart runs several replicas on one store.
* **Failure.** A statement may fail, or be applied and report an error. A process may die
  and lose the channel and the jobs of its workers, and is restarted. A client may hear
  nothing and repeat its request.
* **Stopping.** Shutdown cancels the context of poller and workers before it closes the
  channel and waits; the poller is not waited for and may be about to send.
* **Time.** A failed attempt is retried when its `next_retry_at` is reached, and nothing
  in the table says that it has been. Buckets are evicted by a goroutine that sleeps.
* **Bounds.** The channel blocks the poller; both polling queries and all lists have a
  `LIMIT`.

What makes each part correct: the poller dispatches what the log of attempts justifies and
nothing twice; the pool records before it marks; retries stay within `MAX_RETRIES`; a final
status is backed by an attempt; accepted events and scheduled retries are not lost; every
event with a subscriber is settled in the end; a shutdown ends and adds no behaviour of its
own; a handler of several statements shows a final status with its attempt and loses no
other client's write; a key names one event for all its clients; a paged list misses nothing; the
limiter gives every client one bucket's worth.

## Modules

| Module | Models | Correspondence |
|---|---|---|
| `Retry` | `retry.go`, the outcome of `Deliver`, a row of `delivery_attempts` | `RowOf` is the row `processJob` inserts; `NextRetryAt`, `Exhausted` are `NextRetryAt`, `NextRetryDelay` |
| `Store` | the tables and SQL statements | one operator per statement, with the name of its Go method |
| `Pipeline` | `poller.go`, `pool.go`, one-statement requests that write, crashes, time | below |
| `Ledger` | abstract: what the pipeline promises of events and attempts | hides pollers, channels, workers and instances |
| `PipelineProperties` | the pipeline's properties, and `Ledger` instantiated by identity | |
| `Backoff` | the table of delays and the times computed from it, around the pipeline | extends `PipelineProperties`; below |
| `Shutdown` | `main.go` around the pipeline: signal to exit, kill, panic, start | extends `PipelineProperties`; below |
| `Management` | requests of several statements on the pipeline's tables | extends `PipelineProperties`; below |
| `EventsAPI` | `POST /api/events` with idempotency keys; the paged event lists | a table of its own with the columns those read; below |
| `Intake` | abstract: what `POST /api/events` promises of keys | hides handlers, statements and failures |
| `RateLimiter` | `ratelimit.go` | below |
| `TokenBucket` | abstract: one bucket per client that is never evicted | hides map, objects, concurrency and cleanup |
| `PipelineProofs`, `DispatchProofs`, `BackoffProofs`, `ShutdownProofs`, `ManagementProofs`, `EventsAPIProofs`, `RateLimiterProofs` | theorems and proofs | |
| `MCPipeline`, `MCBackoff`, `MCShutdown`, `MCManagement`, `MCEventsAPI`, `MCRateLimiter` | values for TLC | |

`Shutdown`, `Management` and `Backoff` compose with `Pipeline` by extending it: they take its
actions, decide when they may happen, and add their own. That they still implement `Pipeline`
is a property of the first two (`ShutdownIsPipeline`, `ManagementIsPipeline`) and a theorem of
the third (`BackoffImplementsPipeline`), so whatever is proved of the pipeline holds with
them. `EventsAPI` and `RateLimiter` touch the pipeline through
statuses and admitted requests only, and are modelled beside it.

In `Pipeline`, `poller[i]` says where instance `i`'s poller is: `"pending"` (in the loop over
pending events, `batch[i]` still to do), `"claiming"` (endpoints found, `targets[i]`),
`"sending"`, `"retrying"` (in the loop over `retries[i]`; with nothing left it waits for the
ticker) and `"resending"` (rows of a retry found). `jobs[i]` is the channel, `work[i][k]`
worker `k`'s position in `processJob`. Actions end where the code leaves shared state behind
it: at every store statement, channel operation and HTTP call.

| `Pipeline` action | Code |
|---|---|
| `PollPendingEvents`, `FindEndpoints`, `ClaimEvent`, `SendFirstAttempt` | `pollPendingEvents` |
| `PollRetryableAttempts`, `LookUpRetry`, `SendRetry` | `pollRetryableAttempts` |
| `PollFails`, `SkipEvent`, `SkipRetry` | the error branches of both, `continue` and `return` |
| `ReceiveJob`, `Deliver`, `RecordAttempt`, `MarkEvent` | `worker`, `Deliver`, `processJob` |
| `DropJob` | the error branches of `processJob` |
| `ClientRequest` | the routes of `buildRouter` and of the dashboard that write |
| `Crash` | the process dies and is restarted (`restart: unless-stopped`) |
| `TimePasses` | a `next_retry_at` is reached |

| `Backoff` action | Code |
|---|---|
| `DeliverAt` | `Deliver`, whose `NextRetryAt` reads the clock when the POST is over |
| `RecordAt`, `DropAt` | the insert of the attempt with its `next_retry_at`, which joins `schedule` |
| `DelayPasses` | `next_retry_at <= $1` becomes true of a row: now by the clock |
| `Tick` | time goes on, once the rows that are due at this time are |
| `Untimed` | all other steps of the pipeline, as they are |

| `Shutdown` action | Code |
|---|---|
| `NotifyShutdown`, `CancelContext`, `CloseJobs`, `WaitForWorkers`, `Exit` | `serve` after the signal: health answers 503, five seconds, `cancel()`, `srv.Shutdown`, then `wp.Stop()`, which closes the job channel and waits for the workers |
| `PollerWindsDown`, `WorkerWindsDown` | statements that fail on the cancelled context, sends that `select` may still choose |
| `PollerReturns`, `WorkerReturns`, `WorkerRunsOut` | `ctx.Done()` chosen; the range over the closed channel ends |
| `PanicOnClosed` | a `select` with a send on the closed channel |
| `Kill`, `Start` | the container runtime |

| `Management` action | Code |
|---|---|
| `BeginDetail`, `AnswerDetail` | `handleGetEvent`, and `handleEventDetail` of the dashboard |
| `ShowBarePage` | `handleEventDetail` when its second query fails: the page without attempts |
| `BeginReplay`, `AnswerReplay` | `handleReplayEvent` of API and dashboard |
| `BeginPatch`, `BeginToggle`, `Update`, `AnswerUpdate` | `handleUpdateEndpoint`, `handleToggleEndpoint` |
| `BeginDelete`, `AnswerDelete` | `handleDeleteEndpoint` |
| `BeginDeliveries`, `AnswerDeliveries` | `handleEndpointDeliveries` |
| `RequestFails` | a 500, or the dashboard's message, between two statements |

| `EventsAPI` action | Code |
|---|---|
| `FindEvent`, `DrawId`, `FindFails` | the look-up of `handleCreateEvent`: key found, key not found and id drawn, error |
| `InsertEvent`, `PostFails` | its insert with the UNIQUE constraint, and an error or a lost answer |
| `StartListing`, `ReadPage` | `handleListEvents`, `handleListDeadEvents`, and a client that follows the cursor and asks again for a page that failed |
| `SetStatus` | whoever sets a status, with `updated_at` |

| `RateLimiter` action | Code |
|---|---|
| `GetLimiter` | `getLimiter`, under the mutex |
| `Allow` | `limiter.Allow()` on the object fetched, after the mutex |
| `Cleanup` | one round of the cleanup goroutine, under the mutex |
| `Tick` | time, for the clock and for the sleep |

`Scenario` selects which of storage errors, crashes, replays, bulk replays, purges, endpoint
updates and deletions may happen; a statement that reports an error may have been applied.

Abstractions:

* Ids are numbers in the order of creation. The code's ULIDs and `created_at` agree with
  that order up to a millisecond. `EventsAPI` draws any unused id and inserts it later, so
  rows appear there in any order of ids.
* `next_retry_at` is none, waiting or due. Each waiting row becomes due on its own, which
  allows every order real delays allow, and more. `Backoff` adds the lengths of the delays,
  in a unit of time of its own; `schedule` keeps of each row with a `next_retry_at` that time
  and when its POST failed. All instances read one clock there: two instances whose clocks
  differ move a retry by the difference.
* Attempts are a set: rows that agree on event, endpoint, number, status and retry are
  interchangeable for the retry query.
* A job carries no URL or secret, since no property depends on them.
* A request of `Management` that fails after a statement was applied is two steps: the same
  statement by another client, and the failure.
* `Management` remembers the details of an event and the row of an updated endpoint as they
  were shown; other answers are forgotten at once, since no property is about them.
* `LookUpRetry` has the two look-ups of a retry, event and endpoint, in one step: as long as
  the attempt is in the log its foreign keys keep both rows.
* `EventsAPI` deletes no rows, which `EventsAreKept` justifies; it has no topic filter; its
  `SetStatus` allows every change of status and so over-approximates the pipeline; a POST
  without a key is `CreateEvent` of the pipeline.
* `updates` in `EventsAPI` counts the rows updated since, which orders rows as `updated_at`
  does.
* `rate.Limiter` is a library, modelled by what it grants. `Refill` tokens come in each unit
  of time; fractions of tokens are left out. A key of the map is `X-Real-Ip`, or `RemoteAddr`
  without that header, and each process has a limiter of its own.
* `GetEndpointsByTopic` compares one topic with the array of an endpoint. The generated
  method passes a list for that parameter; what the driver makes of it is outside the
  repository, and the query is taken as written.

## Runs

An event can need one claim, one job per endpoint and `MAX_RETRIES` attempts; one event and
endpoint reach every state of the poller and of a worker, the second of each brings the
interactions named below. All runs on the pipeline's tables use one topic. No run
disables the deadlock check.

| Run | Bounds | Shows |
|---|---|---|
| `pipeline_faults` | 1 event, 1 endpoint, `MaxRetries` 3, batch 1, 1 instance, 1 worker; all of `Scenario` | types; the log is unbroken; jobs in flight are justified; marks follow records; statuses are earned; a dead event has had all its attempts; a deleted endpoint is done with; no event vanishes; the ledger is implemented |
| `pipeline_settles` | 1 event, 2 endpoints, `MaxRetries` 2, batch 2, 1 instance, 1 worker; bulk replays | without faults, and while the results of two endpoints overwrite each other, statuses are earned, no event is stranded in `processing`, and every event with a subscriber is settled |
| `backoff` | 1 event, 1 endpoint, `MaxRetries` 4, delays of 1 and 2, clock up to 5, 1 instance, 1 worker; storage errors, crashes | no stored time lies ahead; no retry is early; an event is given up only when all its delays have passed one after the other |
| `shutdown` | 1 event, 1 endpoint, `MaxRetries` 2, batch 1, 1 instance, 2 workers; signals, kills, panics, restarts, any number of times | the pipeline is implemented; a stopped pool is quiet; no first attempt is dispatched twice; a shutdown ends; scheduled retries survive restarts |
| `management` | 1 event, 1 endpoint, `MaxRetries` 1, 1 instance, 1 worker, 1 request of several statements; storage errors, all other clients' requests | the pipeline is implemented; a detail explains its status, but for the page that could not read attempts; fields that are not named are kept |
| `events_api` | 3 ids, 2 keys, 2 clients, 1 reader, pages of 1, the list of status "dead" and the dead letters | answers for a key agree; the intake is implemented; the list of one status misses nothing, both lists end; repeated requests are answered |
| `rate_limiter` | 2 clients, 2 requests, 3 buckets, burst 2, refill 1, idle limit 3, period 2, hold 1, clock up to 6 | requests hold the current bucket; token buckets are implemented; the rate is kept; idle entries go |

Why these are enough. Three attempts make the first, a middle and the last one; the middle
one is where a retry can follow a wrong row. In `backoff` four attempts outnumber two delays,
so that the last one is used twice, and a clock of 5 is their sum: the event can be dead at
its last moment, not before. Two endpoints are what lets one worker overwrite
the mark of another. Two workers let one be delivering while the other returns. In
`management` one request meets the statements of every other client, so a second slow one
adds only pairs of slow requests; the proofs have any number of both. Two clients race for a
key while a second key is free; three rows are two pages and a row inserted between them. A
clock of 6 lets an entry be idle beyond the limit, be evicted, and its client come back, and
three buckets are one for each client and one that is held after its eviction, if it could
be. Symmetry of `rate_limiter` exchanges clients, requests and buckets, which no formula
names, and the run has no liveness property. Counters need no bound: attempt numbers stop at
the budget, the channel at `2 * Concurrency`, `updates` at the number of rows; the clocks
stop at `MaxTime`, where all other steps still go on.

Runs that end in a counterexample, each against a sentence of the repository:

| Run | Sentence | What happens |
|---|---|---|
| `doc_once` | v0.1: `processing` "prevents duplicate delivery on re-poll" | a due attempt is dispatched at every poll, also while its retry is in flight |
| `doc_instances` | v0.1: `SKIP LOCKED` "prevents multiple poller instances ... from processing same event" | the locks end with the statement, both instances dispatch |
| `doc_starvation` | README: "reliable delivery with retries" | old due rows fill the `LIMIT`, a later pair is never retried |
| `doc_shutdown` | `main.go`: "Wait for workers to finish current jobs" | the wait is there, but the jobs' statements carry a context that is cancelled before: a delivery that was made is not recorded |
| `doc_purge` | v0.2: "Purge: permanently delete all dead events" | a dead event has the attempt that made it dead, whose foreign key makes the `DELETE` fail as a whole |

Seen while modelling, without a run of their own:

* The retry query takes the latest *due failed* row of a pair. While the row of a later
  failure is not due yet it returns an earlier one, which stays due for ever: after a second
  failure the delivery is taken up again at the next poll, although `retry.go` has a delay
  "after each failed attempt". The cause is that of `doc_once`.
* An event without a subscriber is logged as "marking delivered" (`poller.go:73`) and is not
  marked: it stays pending, is read at every poll and, being the oldest, keeps its place in
  the `LIMIT`. With a second topic and a batch of one `EventuallySettled` fails: the events
  behind it are never dispatched.
* `doc_purge` is no accident of its run: a dead event has attempts (`DeadAfterAllAttempts`),
  which reference it without `ON DELETE`, so the purge deletes nothing, ever, and
  `EventsAreKept` holds, with a proof. Were the purge to work, that property would have to
  except it, and what rests on it (`LogUnbroken`, `JobsJustified`) would have to be thought over.
* The other key of `delivery_attempts` refuses the deletion of an endpoint with deliveries,
  which v0.1 offers (`DELETE /api/endpoints/:id`); `DeletedIsDone` is what it gives in return.
* The dead letters are ordered by `updated_at`, but the cursor cuts them by id
  (`events.sql.go:82-89`), so that a reader who follows it misses an event that died earlier
  than the end of a page and has a greater id; v0.2 has the list "paginated with `limit` and
  `before` cursor". `PagesComplete` leaves that list out.
* The event page of the dashboard shows a delivered or dead event with "No delivery attempts
  yet." when it cannot read them (`dashboard.go:180`); it is the exception in
  `DetailExplainsStatus`. Its event list is empty when it cannot be read.
* Two toggles that read the same flag write the same value (`dashboard.go:286`): one is lost.
* v0.3 has the dashboard's events with "cursor pagination"; the handler reads a cursor, but no
  template sends one.
* A crash after the claim strands its event in `processing` until somebody replays it;
  `RetriesSurviveRestarts` says what is not lost.
* With two endpoints the status of an event goes from `dead` to `delivered` and back, as
  workers finish; a stale worker also takes a replayed event out of `pending`.
* `internal/api/integration_test.go` sends the idempotency key as a header; the handler reads it
  from the body.
* With the default `MAX_RETRIES` of 5 the last of the five documented delays is never used:
  four retries follow the first attempt.
* Without `X-Real-Ip` the limiter's key holds the port, so that a client has a bucket per
  connection; v0.4 says per IP.
* The gauge of the queue's depth holds the size of the last batch, and the counter of dead
  letters counts jobs.

**Fairness.** `FairSpec` of `Pipeline` assumes weak fairness of each poller, of each worker,
and of the passing of time for each waiting row. The first two are goroutines that the Go
scheduler runs; a blocked send or receive disables the action, and the HTTP client's timeout
ends every delivery. No fairness is assumed of clients, crashes or errors.
`FairShutdownSpec` assumes the same of goroutines and time, and of the main function, whose
waits have a limit (five seconds, `SHUTDOWN_TIMEOUT`) or end with the workers. Nothing makes
a process receive a signal, be killed or start: `RetriesSurviveRestarts` has as its
hypothesis that from some point on every instance runs. `FairSpec` of `EventsAPI` assumes that
a handler runs to its end, that a client posts again after an error, and that a reader asks
for the next page; `RetriesAreAnswered` supposes besides that failures other than a lost
race end. `RateLimiter` states no liveness; instead its clock does not pass a cleanup that is
due or a request that has held a bucket for `MaxHold`.

## Proofs

All theorems hold for every value of the constants that satisfies the named assumptions:
`IdsAreOrdered`, `MaxRetriesIsInt` (zero and negative values included), `TopicsAssigned`,
`ConcurrencyIsNat`, `ScenarioIsKnown`, `ShutdownDisturbs` (a shutdown looks like failing
statements and a crash, so the scenario has both), `IdsAreNumbers`, `PagesHoldRows`,
`StatusIsKnown`, `QueryIsKnown`, `DelaysGrow` (the table of delays is not empty and no delay
is shorter than the one before it, as in `retry.go`), `MaxTimeIsNat`, `LimitsAreNumbers`, and
`IdleBucketsAreFull`: a bucket is full again before it can be evicted. By default ten idle minutes refill 60000 tokens, and a
burst is 200; a configuration with a burst above 600 times the rate would not satisfy it, and
eviction would then grant a client tokens early.

**`PipelineProofs`**, for any number of instances and under all faults: `TypeCorrect`,
`InvariantHolds`, `LogUnbroken`, `JobsJustified`, `MarksFollowRecords`, `StatusesEarned`,
`NoEventVanishes`, `LedgerImplemented` (the pipeline refines the ledger),
`DeadWasTriedThrough` and `DeletedEndpointsAreDone`. None of the
parts of `IInv` is inductive alone. A new row continues the log only if the job it records
was justified (`WorkSound`), hence when it was received (`JobsSound`), hence when it was
sent, which for a retry needs that the row the poller remembers is still there and due
(`RetriesDue`). A status is earned because the worker that writes it has recorded the
attempt (`MarksRecorded`). The references hold because events are not purged, which is so
because a dead event has an attempt (`StatusIsEarned`). The argument that ties them
together is `StoreKept`: rows leave the log only to come back as due, and no event
disappears. From it follow one lemma per part for the actions that leave the part alone, and
`IInvStep` treats the actions one by one.

`DeadWasTriedThrough` is proved of the ledger rather than of the pipeline: a row that joins
the log is the first of its delivery or one more than a failed row, so if no row has a gap
before it (`Gapless`) the new one has none either (`GaplessStep`, over the five actions of
`Ledger`), and the row that makes an event dead has the number of the budget.

`DeletedEndpointsAreDone` adds one invariant, that the endpoints of the log exist
(`LogEndpointsExist`): a retry, a mark and a remembered row each have a row of their pair in
the log, by `IInv`, so what is left of a deleted endpoint are first attempts.

**`BackoffProofs`**, for every growing table of delays, any `MAX_RETRIES` and any number of
instances, under all faults:

* `BackoffImplementsPipeline`: a timed step is a step of the pipeline, so all of
  `PipelineProofs` holds with a clock; `BackoffTypeCorrect`.
* `NoRetryIsEarly`. The invariant `BInv` follows the time along the way of a retry: a row is
  due because a stored time has come (`DueReached`), that time is the failure plus its delay
  (`TimesStored`), so the failure has waited it out, also where the table has ended
  (`ReachedIsWaitedOut`, which is where `DelaysGrow` is used); then one part each for the
  row a poller remembers, the job in the channel and the job at a worker. A POST that is over
  is recorded later, so what is stored must have waited at the time of the POST, not of the
  insert (`PostsWaited`); from that the failures in the log keep their distances
  (`LogSpaced`). What was waited out stays so because time only goes on (`FollowsStays`).
  The theorem is about the attempt that a job repeats: another, later one may have failed
  since, whose delay nobody waits for (see what was seen while modelling, above).
* `DeadTakesItsTime`: each stored failure ends a row of failures of its delivery, numbered
  from one and each as old as its delay when the next was made (`ScheduleGapless`); the row is
  part of the invariant, as a function, so that a step extends it by one and no induction over
  its length is needed. An event becomes dead by a worker whose job has the number of the
  budget and follows a stored failure (`DeadMoves`, `DeadWaited`).

**`DispatchProofs`**, under hypotheses of the theorems:

* `FirstAttemptDispatchedOnce`, for one instance (`OneInstance`) and a scenario without
  replays (`NobodyReplays`), but with failing statements, crashes, purges and endpoint
  changes. The invariant `DInv` says that what is in flight or in the log belongs to events
  that were claimed, and that what the poller has read and not claimed is pending; so
  nothing of an event has been dispatched when its jobs are sent, and while they are sent
  no job of the remaining targets has been (`TargetsFresh`). `doc_instances` shows why one
  instance is needed; a replay dispatches first attempts again by intention.
* `NoEventStranded`, for any number of instances and with replays, purges and updates, as long
  as no statement fails, no process dies and no endpoint is deleted (`NothingFails`). The
  invariant `SInv` says that the endpoints of jobs stay, so no insert is refused, and that
  an event is claimed only with targets left to send to (`TargetsLeft`).

**`ShutdownProofs`**: `ShutdownImplementsPipeline`, and from it `ShutdownKeepsInvariant`;
`LifeTypeCorrect` (goroutines are there while the process works); `StopIsQuiet`, because a
worker that has returned is between no POST and its statements; and
`RestartsDispatchNothingTwice`, which carries `DInv` over.

**`ManagementProofs`**: `ManagementImplementsPipeline`, `ManagementInvariant`,
`ManagementTypeCorrect`. `DetailExplained` rests on attempts never leaving the log: the
status a request has read was earned when it was read, and the attempts it reads later
include the one that earned it. It has the dashboard's page without attempts as its one
exception, and covers both handlers and the failure of either statement. `UpdatesKeepTheRest` says that an `UPDATE` writes back the fields it does not name as
they are at that moment, whatever the request read before.

**`EventsAPIProofs`**: `EventsTypeCorrect`, `KeysNameOneEvent` and
`EventsAPIImplementsIntake`; inductive because no two rows share a key (`KeysUnique`) and a
request that is creating an event has an id of its own (`IdsUnused`). `ListingsMissNothing`
holds for pages of any size: a row that has matched since the first page has been shown or
lies behind the cursor (`NoneMissed`). A page ends at its smallest id, and what it leaves out
is smaller (`PageIsFirst`); a page that is not full leaves nothing out (`ShortPageIsLast`),
by the least of the sets of rows above a row left out, which needs that the table is finite.

**`RateLimiterProofs`**: `LimiterTypeCorrect`, `HoldersAreCurrent`, `IdleEntriesLeave`,
`RateLimiterImplementsTokenBucket` and `AdmissionIsBounded`. A request holds its bucket for
less than a client must be idle to be evicted, so the entry it fetched is still in the map
when it draws; an evicted bucket is full, so starting with a new one gives nothing away.

Only model-checked are the liveness properties (`EventuallySettled`, `ShutdownEnds`,
`RetriesSurviveRestarts`, `RetriesAreAnswered`, `ListingsEnd`), which the proof system does
not reach: they need fairness and ENABLED. That the delays of a dead event add up to their sum
is left at the row of failures of `DeadTakesItsTime`: the sum itself is an induction over it.

## Not modelled

* Metrics and statistics: nothing in the program reads them back.
* Configuration and the command line: read once; their integers are constants here.
* Ids, signatures and authentication: pure functions of bytes.
* Packaging, migrations, templates, formatting, logging, validation of bodies.
* The values in the table of delays: `Backoff` takes any that grow.
* The lists of endpoints, of an endpoint's deliveries and of the dashboard's events, and its
  counts: queries that feed no other statement.

What could come next: two instances in `shutdown`, where a rolling update has one stop while
the other runs; the clock together with shutdowns, whose restarts keep the schedule; and, should the code change, the purge, the cursor of the
dead letters and the retry query with their findings turned into properties.
