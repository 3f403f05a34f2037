# Verification of go-collider

TLA+ models of the concurrent core of collider, an event-tracking API in Go
(HTTP, PostgreSQL, a BoltDB write-ahead bucket, a Redis/Dragonfly cache), the
TLC configurations that check them, and TLAPS proofs. Paths below are relative
to the repository (`src/`).

## 1. Inventory

| Component | State | Operations | Interacts with |
|---|---|---|---|
| Event queue (`internal/queue/event_queue.go`) | `eventCh`, `enqueueMu`, atomic counters, `started`/`stopped`, `shutdownSignalCh`, `shutdownCtx`, the batch of `flushLoop` | `Start` (recovery), `Enqueue`, `flushLoop`/`flush`, `Shutdown`, `GetStats` | handlers call `Enqueue`; `flushLoop` calls retry, store and persistence; `main` calls `Start`, `Shutdown` |
| Write-ahead persistence (`internal/queue/persistence.go`) | BoltDB bucket, `writeCh`, `closed` under an RWMutex | `EnqueueAsync`, `writeLoop`, `Recover`, `Remove`, `Count`, `Close` | its own goroutine; survives the process |
| Retry and dead letter queue (`internal/retry`) | attempts and delay per call, `sem`, bounded list of failures | `WithRetry`, `BatchRetry`, `DeadLetterQueue.Add/Len/GetAll` | called by `flush`; the queue reads the list's length to count failures |
| Snowflake IDs (`internal/snowflake`) | `lastTime`, `sequence` under a mutex | `New`, `Generate`, `Parse` | handlers, event store, seeder |
| Event store (`internal/stores/event_store.go`) | tables `events`, `event_types`; `typeCache`, `cacheWarmupOnce` | inserts, type lookup, page and total queries | queue, repositories |
| Event repository and cache (`internal/repositories`, `internal/cache`) | Redis keys with TTL, singleflight calls | `GetPaginatedCached`, creates, `InvalidateCaches`, `Get/Set/DeleteByPattern` | read and write handlers |
| Statistics (`stats_store.go`, `stats_repository.go`, `handlers/stats.go`) | Redis keys with TTL | `GetStatsRaw`, `GetStats` | read handler |
| Handlers (`internal/handlers`) | per request | create (asynchronous, with synchronous fallback; or synchronous), page and stats reads | everything above |
| Lifecycle (`cmd/api/main.go`, `docker-compose.yaml`) | process up or down | start, signal, `server.Shutdown`, `eventQueue.Shutdown`, restart by container policy | |
| Seeder, truncate tool (`cmd/seed`, `cmd/truncate`) | where they are; the tables and their sequences | TRUNCATE, inserts with fixed IDs, `setval`, bulk load, `invalidateCaches` | the tables and Redis of running servers |
| Pagination, router, middleware, config, models | none of their own | | |

What is hard here:

* **Concurrency.** One goroutine per request, `flushLoop`, `writeLoop`, `main`,
  up to ten item retries, all over channels, atomics and three mutexes. `Enqueue`
  reads `stopped`, checks the depth, logs, sends and counts in five separate
  steps.
* **Failure.** A PostgreSQL statement may commit and still report an error;
  BoltDB and Redis operations may fail and are only logged; the process may be
  killed between any two steps; a shutdown may time out with work in progress.
* **Ordering.** The log write of an event races its flush and removal; a cache
  fill races an invalidation; two statements race to create an event type.
* **Staleness.** Type IDs are cached in the process and in Redis, and the tools
  hand the same IDs out again.
* **Limits.** The capacities of `eventCh`, `writeCh` and the dead letter queue;
  sequence wrap and timestamp overflow.

What makes each component correct: the queue never loses track of an event it
answered with 202, the log drops stored events only, the counters add up, and a
shutdown drains and ends; the retry settles every item exactly once and ends;
the log answers every request, never meets a closed channel or database, and
closes; IDs are unique and increasing; an event is stored under the type its
client gave it; the cache asks PostgreSQL once per page, and stale pages die out
although clients keep asking. The hazards behind these are listed with
their lines under `hazards` in `PROJECT.json`.

## 2. Modules

| Module | Models | Properties in |
|---|---|---|
| `EventQueue` | queue, persistence call by call, dead letter queue, asynchronous create handler, lifecycle | itself; proofs in `EventQueueProofs` |
| `Persistence` | the write-ahead log down to its RWMutex, channel and transactions | itself; proofs in `PersistenceProofs` |
| `EventLog` | what the write-ahead log promises; implemented by `Persistence`, kept by `EventQueue` | |
| `TypeStore` | type resolution (store, repository, Redis keys), the inserts that depend on it, truncate and seeder | itself; proofs in `TypeStoreProofs` |
| `Retry` | `BatchRetry` and `WithRetry`, step by step | itself; proofs in `RetryProofs` |
| `BatchOutcome` | what `BatchRetry` promises `flush`; implemented by `Retry`, the form `EventQueue` uses | |
| `Snowflake` | ID generators, the clock, restarts | itself; proofs in `SnowflakeProofs` |
| `ReadCache` | page and stats readers, singleflight, Redis, synchronous and queued writers | itself; proofs in `ReadCacheProofs` |
| `SequenceLemmas` | facts about channels that the proofs share | |
| `MC*` | symmetry sets and constants for TLC | |

Definitions whose name extends that of another (`DLQAddUnbounded`,
`JoinFlightAlways`, ...) stand next to it and are plausible wrong versions; they
are used to confirm that each property can fail.

### EventQueue

An action is the code between two points where another goroutine can see or
change shared state.

* Handler of event `e` (`req[e]`): `EnqueueCheckStopped`, `EnqueueCheckDepth`,
  `EnqueuePersist` (`EnqueueAsync`), `EnqueueSend` (the non-blocking send under
  `enqueueMu`), `EnqueueCount` (counters, unlock, 202), or `InsertSync`, the
  fallback for a full queue.
* `flushLoop` (`flusher`): `FlushReceive`/`FlushCount`, `FlushTick`,
  `FlushSignal`/`FlushDrained` (the drain loop), `BatchInsert`/`ItemInsert`
  (the outcomes of `BatchRetry`), `FlushFinish` (`Remove`, statistics).
* `writeLoop` (`writing`): `WriterTake` reads `closed`, `WriterPut` is the
  transaction.
* `main` (`shutdown`): `HttpShutdown`, then `ShutdownStop`, `-Signal`, `-Done` or
  `-Timeout`, `-Close`, `-Return`. `httpDrained` records that `server.Shutdown`
  returned with every handler ended; `ShutdownStop` without it is the case of its
  30 s timeout, in which handlers still run.
* `Start` sends the bucket into `eventCh` until it is full; `Crash` and `Exit`
  keep only `db` and `bolt`.

An insert is all or nothing, fails for a duplicate or a missing user (there is no
`ON CONFLICT`), may fail at any time, and may have committed although it failed.

### Persistence and EventLog

`EventQueue` takes each call of `Persistence` for one step. `Persistence` shows
that it may: the mutex is `readers`, `blocked` and `locker` (a waiting `Lock` keeps
new readers out, an `Unlock` lets in those that came meanwhile), a transaction of
BoltDB is a begin and a commit, and the calls are `EnqueueRLock`/`-Check`/`-Send`,
`LoopReceive`/`-Check`/`-Begin`/`-Commit`/`-Exit`,
`RemoveLock`/`-Check`/`-Begin`/`-Commit`, `View*` (`Count` and `Recover`) and
`Close*`. `writeLoop` gives the lock back before its transaction, so only
`wg.Wait` (`LoopGone`) keeps BoltDB open for it.

`EventLog` has no lock, capacity or goroutine: requests are taken in order and put
or dropped, removals are atomic, a closed log refuses. In the mapping of
`Persistence` a request is looked at when `writeLoop` reads `closed`, and the log is
closing as soon as `closed` is set. In that of `EventQueue` the bucket is `bolt`,
and `Reopen` is a crash or exit and the next start.

### TypeStore

A job is one call that stores events: a batch of `flushLoop` with its retries, a
synchronous create, or the fallback of a full queue, which asks the repository and
thereby Redis first. Each resolves its types one after the other, `typeCache`
first, then the statement of `GetOrCreateTypeID`. The statement is three steps:
`Lookup`, when PostgreSQL takes its snapshot (`seen`); `TakeNumber`, the `nextval` of
its insert (`taken`), which happens also when the insert then does nothing and which
no lock or transaction protects; and its end, one of `StatementFinds`, `-Creates` (the
commit), `-LosesRace` (created by another transaction after the snapshot: no row is
returned, and `Get` fails) and `-Fails`. The warm-up is one caller inside the
`sync.Once`; the others wait in `OnceDo`.

`Truncate` is the tool's statement. The seeder is one step per statement on
`event_types` and may stop after any of them (`MustExec` panics when the database
fails): after the insert of the types, `SeedMax` is `select max(type_id)`, whose error
is ignored, and `SeedSetval` the `setval` with what it has read, or `SeedSetvalRefused`
if that is 0. Jobs run between the two. `SeedUsers` is the insert of the users alone:
nothing reads the sequence of that table. Neither tool touches `typeCache` or the
`event_type_id` keys. `blamed`, `cleaned`, `intruded`, `late` (types whose statement held a
number at some time between `SeedMax` and `SeedSetval`) and `fresh` are history.

### Retry and BatchOutcome

`Retry` has one call per `WithRetry`: the batch, then each item behind the
semaphore. An attempt and its outcome are one step; a sleeping call may wake by
its timer or by the cancellation, and by its timer even if cancelled, as Go's
`select` allows. The context may be cancelled before the call: `flushLoop` drains
also after a shutdown has timed out. The refinement mapping hides a commit in doubt until its call
ends, because only then can `flush` tell. Eviction from a full dead letter queue
is in `EventQueue`.

### Snowflake

Generators share a wall clock that advances, may be set back (`StepBack`) and
starts before the epoch. `Generate` is one step, except that a wrapped sequence
spins (`pc = "spin"`) with the mutex held. `Restart` forgets `lastTime`; the
history variable `forgotten` keeps it. With `ClockKept` the clock is never set back
to such a time, nor is a process restarted while its clock is behind; without it
anything may happen. IDs are integers put together from spans instead of bits;
widths are constants. `Generate` refuses a timestamp past the last one and none
before the epoch: the ID is then negative, which `ParseRecovers` states.

### ReadCache

A reader is a client with one request at a time, which asks again, for any key, as
often as it likes (`Request`). Its request checks the cache, joins or leads a singleflight call (pages only),
checks again (a statistics reader may be refused before, when the name of its type
is unknown), queries the page, then the total, sets the key and answers itself
and whoever waits. A writer stores and then invalidates: a SCAN of the `events:`
keys, DELs in batches, then the `stats:` keys; a queued event is invalidated first
and stored by `FlushAsync`, which touches no key. Every Redis command is a step
that may fail; a missing Redis (`client == nil`) is one where all fail. A page is
represented by the rows its query saw: which of them are shown follows from page,
limit and filter. Two pieces of history: `missed`, kept with a page, has the events
that were stored while a reader held it between its query and its answer, and `clean`
says that no Redis command of a writer has failed.

## 3. Runs

| Run | Result | Shows |
|---|---|---|
| `queue_crash` | pass | types and capacities, `Accounting`, `DepthMatchesChannel`, `AcceptedTracked`, `ShutdownDrains`, `LogDropsOnlyStored`, `RefusedNotQueued` through two lives with crashes, failing inserts, recovery, drained and timed-out shutdowns |
| `queue_live` | pass | `FlushedEventually`, `ShutdownTerminates`, and `UsesLog`: the queue keeps to `EventLog` |
| `queue_dlq_full` | **violated** | `RemovedOnlyIfStored`: a full dead letter queue hides failures, and unstored events leave the log |
| `queue_late_send` | **violated** | `ShutdownFlushes`: a handler that outlives `server.Shutdown` queues its event behind the drain loop |
| `persistence` | pass | `NoPanic`, `NoUseAfterClose`, `CloseSettles`, `Answered`, `CloseReturns`, and `ImplementsLog`: `Persistence` implements `EventLog` |
| `types` | pass | `CachesAgree`, `StoredAsOwnTypeUntilCleaned`, `RacesAloneNeverFail`, `OnceIsReleased`, `SequenceAhead`, `SeedFailsOnlyByIntrusion` |
| `types_stale` | **violated** | `StoredAsOwnType`: a server that outlives a seed stores events under the IDs of other types |
| `retry` | pass | `EveryItemSettledOnce`, `CancelStopsRetries`, `WaitBounded`, `Terminates`, and `ImplementsOutcome`: `Retry` implements `BatchOutcome` |
| `ids_clock` | pass | unique, increasing IDs that parse back and stay below 2^63, and are negative exactly before the epoch, with wraps, overflow, a clock set back and restarts |
| `cache_safe` | pass | `NoStampede`, `TotalCoversPage`, `StaleOnlyByOverlap` with a synchronous and a queued writer invalidating at once |
| `cache_live` | pass | `CacheCatchesUp`, `ReadersAnswered` with clients that keep asking |
| `cache_queued` | **violated** | `StoredIsVisible`: queued events are invalidated before they are stored |

The violated properties are statements of the repository's comments or tests;
`findings` in `PROJECT.json` quotes each and describes the counterexample.

What the runs do not treat as violations. A batch may be stored and removed
before `writeLoop` has written its events (`event_queue.go:215` hands them over and
does not wait); the late record is then inserted again, and refused, at every
restart, and `LogDropsOnlyStored` and `AcceptedTracked` hold all the same. The
uniqueness of IDs rests on two assumptions of `Snowflake` about its environment:
one node number per process (`UniqueNodes`) and a clock that is not set back past a
restart (`ClockKept`). Without either of them `NoDuplicates` is violated. The default
configuration does not meet the first one when the seeder runs beside a server: both
have node 1 (`config.go:36`, `seed/main.go:309`). The instance checked has a server with
the default and one with another number. And the seeder's `select max` and `setval` are
two statements: a type that a running server creates in between is left ahead of the
sequence, so that a later create collides with it. `SequenceAhead` says that this is
the only way, and names the types (`late`).

### Bounds

* `MaxLives = 2`, three events, `MaxSize = BatchSize = 2`, `WriteBufferSize = 1`,
  `DeadLetterQueueSize = 1` (`queue_crash`): enough for a full queue, a partial
  batch, a mixed batch, a dropped log write, an eviction and a recovery that meets
  rows of the previous life. Every insert may fail, so an event PostgreSQL always
  refuses adds no behaviour; `queue_live` and `queue_dlq_full`, where it does, have
  some. The theorems below cover all other values.
* `retry`: `MaxAttempts = 4` with delays 1, 3, 4, so that the third delay meets the
  cap. Two slots for three items make one item wait. Any subset of the items may be
  stored already and is then refused.
* `MaxSequence = MaxNodeID = 1`, `MaxTimestamp` of 1 or 2, `Epoch = 2`: the sequence
  wraps and the timestamp overflows within `MaxClock = 4` milliseconds.
* `persistence`: two handlers and a buffer of one, so that a request is buffered
  behind the one in progress or refused; two calls of `Close`, so that the second
  finds the log closed; `Remove` and `Count` are called without end.
* `types`: two names, one of which the seeder gives ID 1; a batch that wants both,
  a create and a fallback that race it for one each; three attempts, so that the
  batch can lose both races and still succeed; `MaxID = 5`: one number
  more than the batch needs to lose both races, so that retries, a rewound sequence
  and collisions are reached, while a behaviour with more lost statements stops there;
  one tool run. The view leaves out the histories that no guard and no property of
  this run reads. The theorems cover other values. `types_stale` has one attempt.
* `cache_safe`: two clients that meet on one page or statistic or not, without a bound
  on their requests; a synchronous and a queued event, so that two invalidations
  overlap and an insert falls between any two queries; `ScanBatch = 2`, so that the DEL
  is the one for the remaining keys. `cache_live` has the queued event, whose early
  invalidation leaves stale pages for good but for their TTL, and `ScanBatch = 1`, so
  that the DEL is the one for a full batch; `cache_queued` has two pages. The view
  of `cache_safe` leaves out the histories of queued events, which it does not read.
  The theorems cover any number of clients, pages and events and any batch size.
* Deadlock is checked in the runs of `ReadCache`, where clients can always ask again.
  Elsewhere it is not: requests may stop coming, `MaxLives` may be used up, jobs end
  and `BatchRetry` returns.

### Fairness

Weak fairness for each goroutine that can step. For `flushLoop` it stands for the
50 ms ticker and for PostgreSQL answering each statement, if only with an error;
for `Shutdown` for its timeout; for `Start` for `restart: unless-stopped` in
`docker-compose.yaml:9`; for `Expire` for Redis TTLs. Nothing makes requests
(`Request`, and the first look at the cache that begins one), signals, crashes, cancellations or successful inserts happen.

In `Persistence`, `CloseLock`, `LoopBegin` and `RemoveBegin` are strongly fair: they
wait for a mutex that others take again and again, and Go's `sync.Mutex` hands
itself to a waiter after a millisecond (starvation mode). Nobody has to call
`Remove`, `Count` or `Close`.

## 4. Proofs

Every invariant, action property and refinement that a passing run checks is also
a theorem. The theorems hold for every value of the constants allowed by the
assumptions `ConfigAssumption`, `ModelAssumption` (`EventQueue`),
`PersistenceAssumption`, `JobsAssumption` (`TypeStore`), `RetryAssumption`,
`NodeAssumption`, `SizeAssumption` (`Snowflake`) and `CacheAssumption` (`ReadCache`),
which restate what the constructors and callers guarantee. That a batch is not
empty, which `RetryAssumption` asks, is proved of the caller: `OwnerInv` of
`EventQueueProofs`.

`EventQueueProofs`, one layer on the other:

1. `TypeCorrect`. Inductive with `RetryInv`: pending items plus new dead letters
   never exceed the batch, and `dlqSizeBefore` never exceeds the queue. Without it
   the counts of `FlushFinish` could be negative.
2. `AccountingCorrect`, `DepthCorrect`. `CountInv` adds what a dead process has
   forgotten (`DownInv`), that the holder of `enqueueMu` is the one handler between
   send and count (`MutexInv`), and that `totalFailed` equals the length of the dead
   letter queue at the last flush (`FailedInv`).
3. `AcceptedAreTracked`, `LogIsSafe`. `TrackInv` follows each event of a failing
   batch: pending, stored, or among the entries the dead letter queue has gained
   (`NewFailed`), unless it has evicted one.
4. `ShutdownIsClean` by `DrainInv`: once `httpDrained`, no handler is between its
   check of `stopped` and its answer, so `eventCh` stays empty from the drain on.

5. `RefusedStaysOut` by `RefuseInv`: what has a trace in this life, queued or logged,
   has come from a handler that handed it over.
6. `QueueUsesLog`: every step maps to a step of `EventLog` or to none.
7. `NeverStuck` by `OwnerInv`: `enqueueMu` is held by a handler that is about to count
   and release it, a flush has a batch, and its `wg.Wait` an item to wait for. So
   every handler, `flushLoop` and `Shutdown` wait only for someone who can go on.
8. `FlushesAreBatchRetries`: `Retry` models one `BatchRetry` with nobody around it; this
   theorem says that it may. For the batch in hand a flush begins in an initial state
   of `BatchOutcome`, and until it ends every step of every goroutine is a step of
   `BatchOutcome` or a stutter, as long as the dead letter queue has room (then its
   growth is the list of failures) and the process lives. The rows are those of the
   batch only: by `RefuseInv` no handler inserts one of them meanwhile.

`PersistenceProofs`: `LockInv` says who may hold the mutex at which place;
`CloseInv` that at most one caller of `Close` gets past the check, that
`writeCh` is closed by it alone and after `closed`, and where `writeLoop` is by then.
`NeverPanics` and `NeverUsedAfterClose` follow; `CloseLeavesNoRequest` adds that a
request without an answer is in the channel or with `writeLoop`; `Implementation`
maps every step to a step of `EventLog` or a stutter. `NeverDeadlocks` needs
`HolderInv`, which says where exactly those are who hold or await the read lock, who
waits because of whom, and that the owner of a transaction is inside it. From it: if
nobody could go on, nobody would own the transaction, hold the read lock, or have
called `Lock`; then nobody waits at the mutex, and `writeLoop` and with it `Close`
could go on.

`TypeStoreProofs`:

1. `TypeCorrect`, with `Progress`: how many types a job has resolved at each place.
2. `OnceAlwaysReleased`; `SeederMeetsOnlyIntruders` by `SeedInv` (between its TRUNCATE
   and its insert the table is empty unless a job has created a type).
   `SequenceStaysAhead` by `SequenceInv`: the numbers that statements hold are behind
   the sequence too, or their types are `late`, and from `select max` to `setval` what
   the seeder has read covers every type that is not `late`. A statement holds one
   number, and the TRUNCATE that restarts the sequence waits for it (`HoldersKept`).
3. `CachesAlwaysAgree`, `EventsKeepTheirType`. `CacheInv` adds what statements in
   progress have seen; it is inductive because, until a tool runs, the table only
   grows (`TypesKept`).
4. `RacesNeverExhaust` by `RaceInv`: a job has failed at most once for each of its
   types that is in the table, and the type it is about to lose a race for has not
   been counted yet.

`RetryProofs`:

1. `TypeCorrect`, `CancelEndsRetries`. Inductive with `AttemptInv` (a call that may
   try again has an attempt left), `PhaseInv` (which calls run in which phase; the
   last item to settle ends the call) and `CancelInv` (a call that has not ended has
   made no attempt since the cancellation).
2. `WaitsAreBounded` by `WaitInv`: a call has slept once less than it has attempted,
   never longer than the cap.
3. `ItemsSettleOnce` by `SettleInv`: the settled items are split between those
   acknowledged and those dead-lettered, and the dead letter queue has no repetition.
4. `Implementation`: the refinement of `BatchOutcome`. The mapping hides commits in
   doubt until their call ends; `DoubtInv` says they are whole inserts of calls that
   run, so that an item's insert in doubt appears when it is dead-lettered and the
   batch's when the items start.
5. `NeverStuck` and `StepsAreBounded`: until `BatchRetry` returns some goroutine can
   step (an item that waits for `sem` waits for one that holds a slot), and each step
   moves one call forward over `2 * MaxAttempts + 3` places and none back. Together
   they are what `Terminates` needs besides fairness.

`SnowflakeProofs`: `TypeCorrect`; `UniqueIDs` and `IDsIncrease` under `UniqueNodes`
(distinct node numbers) and `ClockKept`. Every ID a generator has returned is at or
below its current position (time, sequence), or at a time it has forgotten, which
the clock stays past (`ClockInv`); and the encoding is injective and monotonic
(`IDInjective`, `IDOrder`). `IDsParseBack` needs none of these conditions: the ID
just returned encodes the generator's position (`PositionInv`), and division and
remainder by the spans recover the fields for any widths (`FieldDivision`,
`ParseID`, `IDBound`); the sign of the ID is that of its timestamp (`IDSign`).

`ReadCacheProofs`:

1. `TypeCorrect`, `TotalsCoverPages`. `PageInv` follows a page from the query to the
   answer: its rows are stored rows, its total was counted after them, and it lacks
   only events stored since, which it lists as `missed`.
2. `StampedesNeverHappen` by `FlightInv`: the flight of a key names the one reader
   that fetches it, and only while it does.
3. `StaleNeedsOverlap` by `ScanInv`: as long as a writer's Redis commands succeed, a
   page without its event, of a reader that did not hold it at the insert, is ahead
   of the scan, among the keys to delete, or a statistic whose scan comes second.
4. `PagesEnterFresh`: the corresponding fact for the moment a page is cached. It holds
   for queued events too: the run `cache_queued` fails because of pages that were
   cached before the flush, never because of what is cached after it.
5. `WaitersHaveALeader`: who waits in `sfGroup.Do` has a leader for its own key
   that is still fetching, so that an answer or error reaches everyone.

Only model-checked: the liveness properties `FlushedEventually`,
`ShutdownTerminates`, `Answered`, `CloseReturns`, `Terminates`, `ReadersAnswered` and
`CacheCatchesUp`. Fairness and ENABLED are outside the prover's reach; what they need
besides fairness (somebody can always go on) is `NeverStuck`, `NeverDeadlocks` and
`WaitersHaveALeader`. These state the guards of the steps instead of ENABLED.

## 5. Not modelled

* Routing, request decoding and validation, JSON, logging, pool sizes, SQL text:
  no shared state, or I/O.
* `Persistence.GetStats`: it takes the read lock twice, so that a writer in between
  would block both for ever; only tests call it.
* The worker pool of `seedEvents`: it loads rows with IDs and types of the seeder's
  own; errors are logged and the rows left out. Dropped and recreated indexes
  change no result.
* The offset `(page - 1) * limit`, which wraps around for a large page
  (`event_store.go:39`): a query with a wrong offset, no state.
* `CachedEventRepository.GetPaginated`: no handler calls it. It shares singleflight
  keys with `GetPaginatedCached` while returning another type, so calling both at
  once would fail a type assertion.
* That a slow reader can put an old page back after the invalidation of a
  synchronous create is not a run of its own: `StaleOnlyByOverlap` says it is the
  only way, and `CacheCatchesUp` that it ends.
* The effect of the tools on the queue and on pages: `EventQueue` and `ReadCache`
  take the table `events` to grow only.
* The statistic `maxDepth`: it is only reported, and is the running maximum of
  `currentDepth`, which `DepthMatchesChannel` bounds.
* Real time. In particular the 50 ms timeout of `invalidateCaches` has no effect,
  since `DeleteByPattern` uses `context.Background()`.

## 6. Plan

Possible extensions: the worker pool of the seeder (semaphore, wait group,
buffered error channel); `TRUNCATE` under `EventQueue` and `ReadCache`; pages of
bounded length in `ReadCache`.
