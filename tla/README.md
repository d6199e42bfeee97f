# Task Forge: specifications, model checks and proofs

Task Forge is a task queue on PostgreSQL. Clients submit tasks over HTTP; any number of
instances of the service claim them, by polling the table and by Kafka events, execute them,
retry failures with backoff, move exhausted tasks to a dead letter table, and recover what
crashed instances left running. This directory holds TLA+ modules of that behaviour, the TLC
configurations that check them, and TLAPS proofs of the main results for all values of the
constants.

## 1. The system

| component | source | state | operations |
|---|---|---|---|
| task table | `internal/repository/task_repository.go`, migrations 1-4 | rows of `tasks`: status, lock, attempts, error, retry time, idempotency key | Create (with its outbox row), UpdateStatus, ClaimTasks, ClaimTask, CompleteTask, FailTask, UnlockStaleTasks, RecoverTasksByInstance |
| dead letters | `internal/repository/dead_letter_task_repository.go`, migration 5 | rows of `dead_letter_tasks` | MoveToDLQ, Retry |
| executor | `internal/worker/executor.go` | none of its own: it acts on the copy of the task the claim returned | Execute: reject a payload, complete, fail for a retry, dead-letter; calculateBackoff |
| dispatcher | `internal/worker/dispatcher.go` | a ticker, the rest of its batch | claim a batch, send it to the pool |
| worker pool | `internal/worker/pool.go` | a buffered channel and its workers | Start, Stop (close and drain) |
| registry | `internal/repository/instance_repository.go`, `internal/worker/heartbeat.go` | rows of `instances` | Register, Heartbeat, GetStaleInstances, Deregister |
| leadership | `instance_repository.go`, `internal/worker/coordinator.go` | a PostgreSQL advisory lock, the session that holds it, `leaderConn`, `isLeader` | TryAcquireLeader, ReleaseLeader, start and cancel the recovery loops |
| recovery | `internal/worker/instance_monitor.go`, `stale_cleaner.go`, `cmd/api/main.go:83-99` | the result of a query, while it is worked off | recover and deregister stale instances, unlock old locks |
| outbox | `internal/repository/outbox_repository.go`, `internal/worker/outbox_publisher.go` | rows of `outbox`, the ids published in this cycle | GetUnpublished, publish, MarkPublished, Purge |
| Kafka consumer | `internal/kafka/consumer.go` | the reader's position, the group's offset | fetch, claim, hand over, commit |
| main | `cmd/api/main.go` | contexts | startup recovery, registration, the order of shutdown |
| HTTP API | `internal/handler` | none | POST /tasks, PATCH status, POST /dlq/{id}/retry, reads |

The instances share nothing but the database and the topic. What they do to the database is a
sequence of statements, between any two of which another instance's may come; nearly every
statement that settles or recovers a task names it by id or by status and **not** by the worker
that believes to own it. The correctness of the queue therefore rests on when a lock or a
heartbeat is taken to be dead, and that is what the models are about.

What is hard here, with the line where it bites, is listed under `hazards` in `PROJECT.json`.
In short: workers whose lock was recovered under them come back (zombies); stale instances are
read first and recovered afterwards; a commit's answer can be lost; a worker's copy of the task
gets out of date; dead-lettering reads without a lock; a duplicate submission asks for a second
connection while it holds one; a send to a full channel looks at no context; the contexts are
cancelled before the pool is drained; an old leader does not learn that its session ended; publishers of all
instances read the same rows; the offset of one message passes that of a failed one.

What makes each part correct:

- queue: no task is lost or out of reach; one worker per task; a settled task is settled; the
  attempts are bounded; everything is settled in the end;
- dead letters: an entry for every deleted row, one per task, never too early;
- registry and recovery: only the dead are recovered, and they always are;
- leadership: one instance recovers at a time, and one always does as long as one is up;
- submission: one live task per key, one event per task, an answer to every request;
- channel and shutdown: locks are young when their tasks run, nobody sends on a closed channel,
  nothing is left in it, and both senders and shutdowns get through;
- backoff: the wait doubles up to its cap and is never negative;
- outbox and consumer: an event reaches the topic before it is marked, every one does in the
  end, and no message is passed over without a look.

## 2. Modules

`TaskTable` - the rows, and each SQL statement as an operator on one row (`Claimed`,
`FailedForRetry`, `Released`, ...). Times are abstracted to what statements compare them with:
`lockedAt` is null, fresh or stale, `nextRetryAt` null, future or due. It has no variables and is
extended by TaskQueue.

`TaskQueue` - clients, instances, registry, recovery and dead letters over these rows.

| variable | stands for |
|---|---|
| `tasks`, `dlq` | the two tables; a row not yet inserted is `unborn`, a deleted one `gone` |
| `registry` | `instances`: no row, or a heartbeat that is fresh or stale |
| `advisoryLock`, `leaders` | the session that holds the lock; the instances with `leaderConn` and `isLeader` set |
| `proc` | main: off, starting (startup recovery), up, draining (contexts cancelled), down |
| `jobs` | per instance the places a claimed task can be in (dispatcher's or consumer's hand, channel, worker), with the attempts the claim read |
| `sweep` | the loop over the stale instances: those left, and the one recovered and not yet deregistered |

One action is one statement or transaction with its Go code around it. `MoveToDLQ` is two
(`SelectForDLQ`, `CommitToDLQ`) because its SELECT takes no lock; a sweep is a scan and then two
steps per instance. `ClaimTask` (Kafka) may happen at any time for any task, which covers every
delay, duplication and reordering of events. A failed call is `LoseClaim` (the commit took
place, and its answer is lost with up to a batch of tasks), `FinishFails`, `RegisterFails`, `SweepFails`, the second disjuncts
of `ReleaseLeader` and `Exit`, or the end of a live session in `SessionEnds`. `Abandon` is the
end of a job whose context was cancelled by shutdown: handler and statement get the same
cancelled context. The workerID of a restarted process is new, so a process runs once: a restart
is another member of `Instance`.

Time is three actions. `LockAges` on a task a serving instance works on, and `HeartbeatAges` of a
serving instance, are *stalls*: the defaults (lock age 5 min against a task timeout of 30 s,
heartbeat every 5 s against a timeout of 15 s) are meant to exclude them, a full channel, a slow
handler or a long pause brings them about. `MaxStalls` bounds them, and `MaxStalls = 0` with no
PATCH is called *timely*.

`OutboxRelay` - one partition of the topic, the outbox rows, a publisher and a consumer per
instance, and the group's offset. A publisher's cycle is a step per call (select the oldest batch,
publish one by one, mark, purge); so is a message of the consumer (fetch, claim, commit). A claim
is only answered or failed here: its effect is TaskQueue's. `fate` is a history variable, what
became of the message at each offset. Broker, partition assignment and the retention clock are
external. A late commit of a consumer that lost the partition may be taken (and move the offset
back) or refused.

`AtLeastOnce` - what the relay promises (`IsAtLeastOnce`): an event is owed from its insertion until
it is in the topic, is never owed again, and may be in the topic more than once; a message is tried
before the offset passes it, though the offset may go back. `owed` is mapped to the unpublished rows,
`paid` to those marked or purged, `tried` to the offsets whose fate is known.

`TaskLease` - what the queue promises of each task: leased to one worker at a time, settled, given
back or buried by that worker only, each failure counted once, revoked only when nobody works on
it. `TaskQueueLease` states that TaskQueue implements it (`IsLease`): the state of a lease is the
row's status, its workers are the serving places that hold the task, its failures the row's
attempts. `Drop` is a job that ends without a statement, and `Lease` to nobody is a claim whose
answer is lost.

`TaskReads` - TaskQueue and a client that reads: `GET /tasks` or `GET /tasks/{id}`, then `GET /dlq`,
each one snapshot. `view` holds what it asked for and what it was told.

`Leadership` - the election, call by call.

| variable | stands for |
|---|---|
| `main` | run(): off, up, stopping (contexts cancelled), released (lock given up), down |
| `lock` | whose session holds the advisory lock; `Orphan` is a session whose client is gone |
| `leaderConn`, `isLeader` | the instances with the pinned connection; with the coordinator's flag |
| `tick` | the coordinator: in its select, asked, granted (the server has, the answer is on its way), true, false, done |
| `loops` | instance monitor and stale cleaner, started and cancelled together |
| `breaks`, `faults` | sessions the server ended, queries that failed: bounded |

An instance recovers (`Recovering`) until the loops' context is cancelled. A recovery statement that is
under way at that moment may still take effect, even after the lock is released: `IsSuccession` is
about the loops and not about such a last statement.

`Succession` - what the election promises (`IsSuccession`): one leads among those who stand, one
more for every lost title; each is elected once and leads until it leaves; the lead does not stay
vacant. `standing` is mapped to the instances whose context is live, `leading` to those whose
recovery loops act, `lost` to the sessions the server ended. "Lost titles" are in the abstract
module because the code has them: no call tells an instance that its session ended. TaskQueue, whose
election takes one step, implements the same module (`RecoveryIsSuccession`): there `standing` are
the instances that are up, `leading` those that are up and in `leaders`, and `lost` counts all
failures, of which the ended sessions are a part.

`WorkerPool` - one process from claim to execution.

| variable | stands for |
|---|---|
| `hand` | per sender (dispatcher, Kafka consumer) the claimed tasks it has yet to send |
| `channel`, `sendq` | the buffer of `p.tasks` (twice the workers), and the senders that wait for room, in order |
| `closed` | `close(p.tasks)` |
| `worker` | idle, busy (with the age of its task), exited |
| `stopped`, `main` | senders whose `Run` has returned; how far run() is with stopping |

A task is its age: how often a period of the length of the task timeout ended since it was
claimed. `PeriodEnds` needs every send and receive that was possible to have taken place, and
every handler that saw the last period end to have returned.

`Submission` - POST /tasks: `pc` is where each request is (begin, insert, inserted, select, or its
answer), `key`, `answer`, the committed rows `tasks`, the dead letters `dead` and the `outbox`. A
request from its Begin to its end holds a connection; the INSERT of a key waits for an open
transaction with the same key (no action is enabled meanwhile), and `Existing` and `Vanished` need
one connection more. `MoveToDLQ` of a committed task frees its key.

`AtomicCreate` - what Submission promises (`IsAtomic`): a request takes effect at one instant, if at
all; it creates a task when none that lives has its key, or it is told of one that lives and has it.
A request that fails may have created its task, which the code allows when a commit's answer is lost.
`state` is mapped to the stage of `pc` (new, asked, over), `live` to the committed rows.

`Backoff` - `calculateBackoff` on signed integers of `Width` bits that wrap (`Wrap`), with the count
of leading zeros, the cap and every value of the jitter. `Growth` is what it should compute: a base
that doubles with every attempt, up to the cap. `CapAssumption` has the cap at most half of the
largest integer, which the code's 5 minutes are by far; with a higher one the count of leading
zeros would put the cap in place of a smaller product.

`MCTaskQueue`, `MCTaskReads`, `MCOutboxRelay`, `MCLeadership`, `MCWorkerPool`, `MCSubmission`,
`MCBackoff` - symmetry sets and constants for TLC. `TaskQueue_proofs`, `TaskQueueLease_proofs`,
`TaskReads_proofs`, `OutboxRelay_proofs`, `Leadership_proofs`, `WorkerPool_proofs`,
`Submission_proofs`, `Backoff_proofs` - theorems and proofs about the module of that name.

Operators named `X_Word` (e.g. `Released_KeepsLock`) are mutations of `X`: plausible mistakes that
a property is known to catch. No specification uses them.

## 3. Runs

| run (module, cfg) | bounds | what it shows |
|---|---|---|
| `queue_async` (`MCTaskReads`, `TaskQueueAsync`) | 2 instances with 1 place, 1 task, 2 dead letters, 2 attempts, 1 stall, 1 failed call, PATCH to any status, a reading client | `NoTaskLost`, `NoEarlyDeath`, `LastErrorOnRecord`, `TypeOK` hold even when workers turn into zombies; nothing but a PATCH puts a row out of reach (`OnlyPatchStrands`); a client that reads tasks first finds all (`NothingOverlooked`) |
| `queue_on_time` (`MCTaskQueue`, `TaskQueueOnTime`) | 2 instances with 2 places, 3 tasks (one with a bad payload, one possibly a retry), 2 dead letters, batches of 2, no stall, 1 failed call or ended session | on time, ownership is exclusive without any owner check: `LiveHolderOwnsRow`, `OneHolder`, `RetryBudget`, `DeadLetteredOnce`, `SettledIsFinal`, and the refinement `IsLease` |
| `queue_drains` (`MCTaskQueue`, `TaskQueueDrains`) | 2 instances with 1 place, 1 task, 1 stall, 1 failed call | `NoLimbo`, and under fairness `Drains`: one surviving instance settles everything; `RecoveryIsSuccession`, a refinement with its fairness |
| `queue_recovery_spares_live` (`TaskQueueRecovery`) | 2 instances, 1 task, 1 stall | **violated**: `RecoverySparesLive` |
| `relay` (`OutboxRelay`) | 2 instances, 1 event (up to three messages of it), 1 foreign message, 2 assignments, 1 failed call | `PublishedIsLogged`, `CommittedIsSeen`, `TypeOK`, the refinement `IsAtLeastOnce`; under fairness `OutboxDrains`, `ConsumersCatchUp` |
| `relay_failed_claims` (`OutboxRelayCommit`) | 2 instances, 2 events, 1 failed call | **violated**: `FailedIsUncommitted` |
| `leadership` (`Leadership`) | 3 instances, 1 ended session, 1 failed query | `IsSuccession` (a refinement, with its fairness), `AlwaysRecovered` |
| `leadership_lost` (`LeadershipLost`) | 2 instances, 1 ended session | **violated**: `LosingLockEndsLeadership` |
| `pool` (`WorkerPool`) | 2 workers, batches of 3, a channel of 4 | `LocksStayYoung`, `NoSendOnClosed`, `NothingLeftBehind`, `SendersGetThrough`, `ShutdownCompletes` |
| `submission` (`Submission`) | 3 requests, 2 keys and none, 3 connections, 1 failed call | `SameKeySameTask`, `EventsMatchTasks`, `FailuresHaveCauses`, the refinement `IsAtomic`, and `RequestsEnd` under fairness |
| `submission_starves` (`SubmissionStarves`) | 3 requests of one key, 2 connections | **violated**: `DuplicatesAreAnswered` |
| `backoff` (`Backoff`) | 12-bit integers, every base from 5 to the cap of 150, 36 attempts | `WaitIsExponential` |

Why the bounds are enough. A conflict over a task takes two holders, and a recovery between them:
two instances or two places of one give every pair (same instance and different instances). A
zombie takes one stall; with one it meets a fresh holder, a recovered row, a settled row and a
deleted one. `MaxRetries` = 2 is the least value for which an attempt precedes the last one (the
column's default is 3). One task is enough for the properties of a task; `queue_on_time` has three
so that a batch claim, a rejected payload and a retried dead letter occur together; its failed call may
lose a batch of two, or end a leader's session and give it a second leader. The state constraint
`OneTrouble` keeps the run small: a behaviour has a bad payload or a failed call. A duplicate
event takes two publishers or one failed mark; an offset that passes a message takes two messages,
which one event and a foreign message give. None of the safety properties rests on these bounds:
every invariant, action property and refinement of the passing runs is proved for all of them, and
only liveness is not.

A third instance in `leadership` is the successor of a successor while the deposed one still leads.
In `pool` batch and consumer together exceed what the channel holds, so that both senders wait;
`HeldBound` is a formula in the number of workers and the batch size and is checked where a batch
is no multiple of the workers. In `submission` a third request is the duplicate of a duplicate or
meets a freed key. In `backoff` the width is small enough to try every base: the code's argument
depends on the width only through the count of leading zeros, the wrap, and the cap, which stand
in the same order for 64 bits.

`CHECK_DEADLOCK FALSE` appears in every configuration because a system whose instances have all
stopped, or whose requests are all answered, does stop.

**Fairness.** No client request, Kafka event, crash, shutdown, stall or failed call is ever forced.

- *TaskQueue*: the tickers of a running process tick (dispatcher, heartbeat, coordinator, monitor,
  cleaner), Execute returns (a handler gets a context with a timeout and is taken to heed it),
  startup and draining end, clocks pass the expiry of what no live process renews, and PostgreSQL
  notices the sessions of dead processes. Weak fairness is all that is used.
- *OutboxRelay*: the publisher's and the consumer's loops turn, and a partition without an owner is
  assigned; failed calls are bounded, so every retry eventually succeeds. `ConsumersCatchUp`
  assumes in its statement that the assignment comes to rest.
- *Leadership*: ticks, release and exit go on, and the server notices dead sessions (weak).
  `CoordinatorStops` is strongly fair: after the cancellation a select finds a tick and `Done()` ready
  now and then, and Go picks one at random.
- *WorkerPool*: a goroutine that can go on does (weak). The order of waiting senders is Go's own
  first come, first served queue of a channel and part of the model; no fairness of the choice
  between senders is assumed. `PromptSpec` assumes that a claim, which asks the database, takes
  longer than a send or a receive that is already possible; without it the consumer could
  send several tasks before a dispatcher for whose task there is room.
- *Submission*: a request that can get a connection again and again gets one (strong): pgxpool
  hands them out in the order they were asked for.

**What is violated.** In each case a test or comment describes the behaviour without the
interleaving that the run finds; `findings` in `PROJECT.json` quotes the lines.

- `RecoverySparesLive`: a heartbeat that expires, is read by the monitor or a starting instance, and
  is then renewed does not save the instance: its running tasks go back to the queue while it
  executes them and its row is deleted, never to be written again
  (`multi_instance_integration_test.go` expects live instances' tasks to be left running, with no
  heartbeat between query and recovery).
- `FailedIsUncommitted`: the consumer does not commit a failed claim, and commits the next message,
  which covers it (`consumer_test.go` looks at one message). The task is not lost, as `Drains` shows
  with Kafka never delivering anything: the dispatcher finds it.
- `LosingLockEndsLeadership`: an instance that once acquired the lock answers every later tick with
  true from `leaderConn` alone, so that the coordinator's reaction to a lost lock, which
  `coordinator_test.go` tests with a fake repository, never happens with the real one. The old leader
  goes on beside the new one; `IsSuccession` counts one more leader per ended session, and
  `queue_on_time`, where the session of a leader may end, shows that two leaders do no harm to tasks
  when nothing is late.
- `DuplicatesAreAnswered`: as many duplicates as connections each hold their transaction's
  connection and wait for a second one, and only a client that leaves frees them
  (`task_repository_integration_test.go` submits duplicates one at a time). `RequestsEnd` holds
  with as many connections as requests.

## 4. Proofs

All theorems hold for any sets of instances, tasks, places, workers and requests and any bounds;
they assume the named ASSUMEs of the modules (null values are not members, bounds are naturals,
`MaxRetries >= 2`, the pool has finitely many workers and at least one, the backoff's cap is at most
half of the largest integer and its bases lie between 5 and the cap).

| module | theorem | says | assuming |
|---|---|---|---|
| `TaskQueue_proofs` | `TypeCorrect` | `[]TypeOK` | |
| | `NoneInLimbo` | `[]NoLimbo` | PATCH only to completed or failed |
| | `OnlyPatchesStrand` | `OnlyPatchStrands` | |
| | `NothingLost`, `NoneDiesEarly`, `ErrorIsRecorded` | `[]NoTaskLost`, `[]NoEarlyDeath`, `[]LastErrorOnRecord` | |
| | `HoldersOwn`, `HoldersAreUnique` | `[]LiveHolderOwnsRow`, `[]OneHolder` | timely |
| | `SettledStays`, `BudgetKept`, `DiesOnce` | `SettledIsFinal`, `[]RetryBudget`, `[]DeadLetteredOnce` | timely |
| | `RecoverersAreElected` | `Elections!Spec`: the refinement of Succession, without its fairness | |
| `TaskQueueLease_proofs` | `QueueLeases` | `IsLease`: the refinement | timely |
| `TaskReads_proofs` | `ReadersFindAll` | `[]NothingOverlooked` | |
| `OutboxRelay_proofs` | `TypeCorrect`, `NothingDropped`, `NothingSkipped` | `[]TypeOK`, `[]PublishedIsLogged`, `[]CommittedIsSeen` | |
| | `DeliversAtLeastOnce` | `IsAtLeastOnce`: the refinement | |
| `Leadership_proofs` | `ElectsOneByOne` | `Elections!Spec`: the refinement, without its fairness | |
| `WorkerPool_proofs` | `ClosedLast`, `PoolDrained` | `[]NoSendOnClosed`, `[]NothingLeftBehind`, of `Spec`, hence without the promptness of `PromptSpec` | |
| | `LocksKeepYoung` | `[]LocksStayYoung` | promptness (`PromptSpec`) |
| `Submission_proofs` | `KeysAreIdempotent`, `EventPerTask`, `FailuresExplained` | `[]SameKeySameTask`, `[]EventsMatchTasks`, `[]FailuresHaveCauses` | |
| | `SubmissionIsAtomic` | `IsAtomic`: the refinement | |
| `Backoff_proofs` | `BackoffIsExponential` | `[]WaitIsExponential` | |

*Queue.* `RowSteps`, `JobSteps` and `DeadLetterSteps` reduce every step of the specification to what
it does to one row, one place and the dead letters; the invariants are then proved from these few
cases and not from thirty actions.

Asynchronous (`AsyncInv`): a row with a failure has its error (`AttemptsHaveErrors`); a
worker's copy is of a task once inserted and its attempts never exceed the row's
(`CopiesBehindRows`), because no statement lowers `attempt_count`. So a worker that finds itself
at the last attempt stands before a row with at least as many failures, hence with an error, and
the entry it writes records enough of them. This needs no assumption on time. `OnlyPatchesStrand`
needs no more either: each statement but PATCH takes a row in reach to one in reach.

Timely (`TimelyInv`): none of the ownership properties is inductive alone. They need that only
stopped instances have stale heartbeats or are being swept (`LateMeansStopped`), that the lock of
a task in a serving worker's hands is fresh (`Ownership`), and that a settled row waits for no
clock (`NoPendingTimers`). Then every recovery misses every live row, so every final statement
hits a row its worker owns, and budget and single death follow row by row.

*Leases.* `QueueLeases` adds to `TimelyInv` only that a row never inserted counts no failures, and
shows for every step and every task that the task makes a step of its lease or none
(`NextLeaseStep`): ownership and the copies' attempts, which `TimelyInv` has, do the rest.

*Recoverers.* `RecoverersAreElected` needs no assumption on time. A leader without the lock lost it to
a failure that was counted (`ElectionInv`), so that when the free lock is acquired all the others who
lead are such failures and there is room for one more. `ElectionSteps` puts aside the steps that
change neither processes nor leaders; what is left are eight actions.

*Relay.* `PublishedIsLogged` needs that the ids a publisher remembers for its mark are of events in
the topic (`SentIsLogged`). `CommittedIsSeen` needs the same of each consumer's position: an unseen
message is not behind it, but for the one in its hands until the claim is answered
(`ReadersSeen`), so that neither a late commit nor an assignment moves the offset past it.
`DeliversAtLeastOnce` adds that a publisher knows inserted events only (`KnownEvents`), so that what it
sends and marks was owed, and that a consumer that claims or commits has a message in hand
(`HandsFull`), so that the offset it commits is one of the topic's.

*Leadership.* A leader claims the lock: its session was granted it. The claimants that do not hold it
are no more than the sessions that ended (`LossesCounted`), so that there is room for the one that is
being elected: if it holds the lock, all other leaders have lost it, and if not, it is one of the
losses itself (`RoomForOne`). `Coherent` says how main, tick, connection and loops of one instance fit.

*Channel.* A sender that waits has something in hand, waits once, and only while the channel is full
(`Waiting`); senders stop with empty hands, and the channel is closed after them (`InOrder`); a
worker leaves it closed and empty (`WorkersLast`).

*Age of the locks.* No bound on the ages alone is inductive, for what makes a task old is the tasks
before it. Each claimed task has a rank, the number of tasks that may be taken before it: its place
in the channel; for the dispatcher's k-th the whole channel and two for each before it, since the
consumer's sends may alternate with the dispatcher's; for the consumer's a full channel and the
sender before it. The invariant (`AgeInv`, by `Fits`) is

    age * Size + rank < 2 * Size + 2 * BatchSize + the number of free workers

where `Size` is the number of workers and a worker is free when it is idle or its handler has still to
return in this period. A receive lowers every rank by one and takes one free worker. When a period
ends while something waits nobody was free (else a receive was possible), everybody is afterwards,
and every age grows by one: both sides grow by `Size`. A claim has age 0 and, being slower than the
sends and receives that were possible (`PromptSpec`), finds a rank that fits; without promptness
the consumer may overtake a slow dispatcher more than once, and from three workers on locks do grow
older than the bound. A task that is received has rank 0, and so an age below
`HeldBound`.

*Backoff.* Induction over the attempts is done by hand, from a least counterexample (`Induction`),
because the library's induction theorems take an operator; `Iteration` shows that the recursive
functions `Pow2` and `Growth` exist. With the law of sums (`PowerSum`) the growth is the product of the
base with a power of two, or the cap (`GrowthIsPower`). As long as the attempt is below the count of
leading zeros that product does not wrap (`LeadingZerosBound`); from there on it is above any cap that
`CapAssumption` allows, which is what the code puts in its place (`BackoffIsGrowth`). The jitter's
range is positive because the least base is 5 (`JitterBound`).

*Submission.* `OneOfAKey` is the unique index over committed and open transactions; `AnswersFit` says
that an answer names a task with the request's key, dead or not; `LooksForSome` that who reads the
task of a key had a conflict with one, which therefore is in the table or dead. `SubmissionIsAtomic`
puts the instant of a creation at its commit, where `OneOfAKey` says that no other live task has the
key, and that of a duplicate at its SELECT; every other step is the client's request, a failure, a
death or no step of `AtomicCreate`.

*Reads.* What the first request did not find had left the table, so it has an entry (`NoTaskLost`), and
entries stay.

Only model-checked: liveness (`Drains`, `OutboxDrains`, `ConsumersCatchUp`, `AlwaysRecovered`, the
fairness of `IsSuccession` and `RecoveryIsSuccession`, `SendersGetThrough`, `ShutdownCompletes`,
`RequestsEnd`), which with fairness and ENABLED is outside what TLAPS proves here.

## 5. Not modelled

- *The HTTP server's own shutdown* and its timeout in main, and what rendering a response does.
- *GET /dlq/{id}*, the health check, and the count of dead letters for a gauge: reads of one row or
  none that no property is about.
- *Configuration*: read once from the environment. Pool and batch sizes are constants, the relation
  of the durations is what `MaxStalls = 0` assumes and `LocksStayYoung` bounds. Values of 0 or less,
  with which the program panics at its start or does nothing, are excluded by `PoolAssumption`.
- *Composition of Leadership and WorkerPool with TaskQueue*: TaskQueue has coarser versions of both
  (an acquisition in one step that may be lost any time, places instead of a channel), and the fine
  ones are checked alone; the product is out of TLC's reach. A send that waits is a job that is held.
  Both elections are shown to implement `Succession`, so that what the queue relies on is what the
  fine one provides. That TaskQueue itself abstracts Leadership is not shown: the fine module grants
  the lock before the instance learns of it, and the answer may be lost, which a mapping to the one
  step of TaskQueue would have to foresee.
- *Ordering of claims by `created_at`*, and SKIP LOCKED's choice: any claimable rows may be
  claimed, which includes the code's choice.
- *PATCH to pending or running of a locked task* in `NoLimbo`, the timely properties and `Drains`:
  the endpoint allows them, and they do leave rows that nothing takes (`OnlyPatchStrands`).
- *A task whose handler kills its process* is recovered without counting an attempt, for as long as it
  does: the code counts handler errors only, and no statement in the repository promises more.
- *Telemetry, error and data types, the echo handler*: no state that the properties are about.

## 6. Plan

Done, in this order: TaskTable and TaskQueue with their proofs (the queue is what the service
is for), OutboxRelay (the second way to a claim), Leadership and Succession, WorkerPool, Submission,
Backoff, the leases, the reads, the abstract modules AtLeastOnce and AtomicCreate, and the proofs of
every safety property and refinement that a run checks. Left:

1. `NoLimbo` with PATCHes to pending and running, for the rows that no such PATCH touched.
2. Counted liveness: a measure that every recovery and every execution lowers would give a safety
   part of `Drains` for all constants.
