----------------------------- MODULE TaskQueue -----------------------------
(***************************************************************************)
(* The task queue: rows of `tasks` claimed, executed and settled by the    *)
(* instances of the service, the registry of instances with its heartbeats *)
(* and the recovery of what dead instances left behind.                    *)
(*                                                                         *)
(* Every SQL statement (or transaction whose rows are locked from its      *)
(* first statement) is one step; what the code does in several statements  *)
(* is several steps.  A claimed task occupies one place of its instance    *)
(* from the claim to the end of Executor.Execute: in the dispatcher's or   *)
(* the consumer's hand, in the pool's channel, or with a worker.           *)
(*                                                                         *)
(* Time enters as three kinds of step: a lock, a heartbeat and a retry     *)
(* time grow old.  A lock that grows old while a serving instance works on *)
(* the task, and a heartbeat that grows old while its instance serves, are *)
(* stalls: the durations of the configuration are meant to exclude them    *)
(* and nothing in the code does.  MaxStalls bounds them.                   *)
(***************************************************************************)
EXTENDS TaskTable, FiniteSets

CONSTANTS Task,           \* task ids, those of dead-letter retries included
          NoTask,
          BadPayload,     \* tasks whose payload the executor rejects
          DeadId,         \* ids of dead-letter entries
          Place,          \* places for claimed tasks in one instance
          BatchSize,      \* WORKER_BATCH_SIZE
          PatchStatuses,  \* the statuses clients PATCH tasks to
          MaxStalls,      \* bound: stalls in a behaviour
          MaxFaults       \* bound: failed database calls in a behaviour

ASSUME TaskAssumption  == NoTask \notin Task /\ BadPayload \subseteq Task
ASSUME PatchAssumption == PatchStatuses \subseteq Status
ASSUME BoundAssumption == MaxStalls \in Nat /\ MaxFaults \in Nat /\ BatchSize \in Nat

VARIABLES tasks,          \* table tasks
          dlq,            \* table dead_letter_tasks
          registry,       \* table instances: no row, or the age of last_heartbeat_at
          advisoryLock,   \* the instance whose session holds the leader lock
          proc,           \* where main is in its run
          jobs,           \* the places of each instance
          sweep,          \* the loop over GetStaleInstances' result
          leaders,        \* instances with leaderConn # nil and isLeader
          stalls, faults  \* how many happened, against the bounds

vars == <<tasks, dlq, registry, advisoryLock, proc, jobs, sweep, leaders, stalls, faults>>
local == <<proc, jobs, sweep, leaders>>
bounds == <<stalls, faults>>

-----------------------------------------------------------------------------
NoJob         == [phase |-> "idle", task |-> NoTask, attempts |-> 0]
HeldJob(t, n) == [phase |-> "held", task |-> t, attempts |-> n]
Moving(t, n)  == [phase |-> "moving", task |-> t, attempts |-> n]

Job == [phase : {"held", "moving"}, task : Task, attempts : Nat] \cup {NoJob}

NoEntry    == [orig |-> NoTask, attempts |-> 0, retried |-> FALSE]
Entry(t,n) == [orig |-> t, attempts |-> n, retried |-> FALSE]

DeadLetter == [orig : Task \cup {NoTask}, attempts : Nat, retried : BOOLEAN]

NoSweep == [todo |-> {}, cur |-> NoInstance]

Init == /\ tasks        = [t \in Task |-> Unborn]
        /\ dlq          = [d \in DeadId |-> NoEntry]
        /\ registry     = [i \in Instance |-> "none"]
        /\ advisoryLock = NoInstance
        /\ proc         = [i \in Instance |-> "off"]
        /\ jobs         = [i \in Instance |-> [p \in Place |-> NoJob]]
        /\ sweep        = [i \in Instance |-> NoSweep]
        /\ leaders      = {}
        /\ stalls       = 0
        /\ faults       = 0

Up(i)     == proc[i] = "up"
Leader(i) == Up(i) /\ i \in leaders
Held(i, p, t) == jobs[i][p].phase # "idle" /\ jobs[i][p].task = t

ClaimableTasks == {t \in Task : Claimable(tasks[t])}
IdlePlaces(i)  == {p \in Place : jobs[i][p].phase = "idle"}
\* Mutation: without the comparison of last_heartbeat_at.
StaleInstances_All == {j \in Instance : registry[j] # "none"}

StaleInstances == {j \in Instance : registry[j] = "stale"}

\* An UPDATE ... WHERE id = t: no row, no effect.
Update(t, row) == tasks' = IF Present(tasks[t]) THEN [tasks EXCEPT ![t] = row]
                                                ELSE tasks

SetJob(i, p, job) == jobs' = [jobs EXCEPT ![i][p] = job]

Fault       == faults < MaxFaults /\ faults' = faults + 1
Stall(late) == IF late THEN stalls < MaxStalls /\ stalls' = stalls + 1
                       ELSE UNCHANGED stalls

-----------------------------------------------------------------------------
(* Requests of clients *)

\* POST /tasks.
Create(t) ==
  /\ tasks[t].status = "unborn"
  /\ tasks' = [tasks EXCEPT ![t] = NewRow]
  /\ UNCHANGED <<dlq, registry, advisoryLock, local, bounds>>

\* PATCH /tasks/{id}/status: the lock columns stay as they are.
UpdateStatus(t, status) ==
  /\ Present(tasks[t])
  /\ tasks' = [tasks EXCEPT ![t] = StatusSet(tasks[t], status)]
  /\ UNCHANGED <<dlq, registry, advisoryLock, local, bounds>>

\* Mutation: the dead task itself is put back, and its entry stays.
Retry_SameTask(d, t) ==
  /\ dlq[d] # NoEntry
  /\ tasks[dlq[d].orig].status = "gone"
  /\ tasks' = [tasks EXCEPT ![dlq[d].orig] = NewRow]
  /\ dlq' = [dlq EXCEPT ![d].retried = TRUE]
  /\ UNCHANGED <<registry, advisoryLock, local, bounds>>

\* POST /dlq/{id}/retry: a new task with the payload of the dead one.
Retry(d, t) ==
  /\ dlq[d] # NoEntry
  /\ tasks[t].status = "unborn"
  /\ t \notin BadPayload
  /\ tasks' = [tasks EXCEPT ![t] = NewRow]
  /\ dlq' = [dlq EXCEPT ![d].retried = TRUE]
  /\ UNCHANGED <<registry, advisoryLock, local, bounds>>

-----------------------------------------------------------------------------
(* Claims: f maps places of instance i to the tasks they receive. *)

Take(i, f) ==
  /\ tasks' = [t \in Task |-> IF \E p \in DOMAIN f : f[p] = t
                              THEN Claimed(tasks[t], i) ELSE tasks[t]]
  /\ jobs'  = [jobs EXCEPT ![i] =
                 [p \in Place |-> IF p \in DOMAIN f
                                  THEN HeldJob(f[p], tasks[f[p]].attempts)
                                  ELSE jobs[i][p]]]
  /\ UNCHANGED <<dlq, registry, advisoryLock, proc, sweep, leaders, bounds>>

\* One cycle of the dispatcher.  SKIP LOCKED lets it miss claimable rows.
ClaimTasks(i) ==
  /\ Up(i)
  /\ \E P \in SUBSET IdlePlaces(i) \ {{}} :
       /\ Cardinality(P) <= BatchSize
       /\ \E f \in [P -> ClaimableTasks] :
            /\ \A p, q \in P : f[p] = f[q] => p = q
            /\ Take(i, f)

\* The Kafka consumer, on the event of task t (one that may arrive again).
ClaimTask(i, p, t) ==
  /\ Up(i)
  /\ p \in IdlePlaces(i)
  /\ t \in ClaimableTasks
  /\ Take(i, [q \in {p} |-> t])

\* A claim commits and its answer is lost, with a whole batch at worst: locked rows that nobody
\* holds.
LoseClaim(i, batch) ==
  /\ Up(i)
  /\ Cardinality(batch) <= BatchSize
  /\ tasks' = [t \in Task |-> IF t \in batch THEN Claimed(tasks[t], i) ELSE tasks[t]]
  /\ Fault
  /\ UNCHANGED <<dlq, registry, advisoryLock, local, stalls>>

-----------------------------------------------------------------------------
(* Executor.Execute, after the handler returned *)

CompleteTask(i, p) ==
  LET t == jobs[i][p].task IN
  /\ Up(i)
  /\ jobs[i][p].phase = "held"
  /\ t \notin BadPayload
  /\ Update(t, Completed(tasks[t]))
  /\ SetJob(i, p, NoJob)
  /\ UNCHANGED <<dlq, registry, advisoryLock, proc, sweep, leaders, bounds>>

FailForRetry(i, p) ==
  LET t == jobs[i][p].task IN
  /\ Up(i)
  /\ jobs[i][p].phase = "held"
  /\ t \notin BadPayload
  /\ ~ LastAttempt(jobs[i][p].attempts)
  /\ Update(t, FailedForRetry(tasks[t]))
  /\ SetJob(i, p, NoJob)
  /\ UNCHANGED <<dlq, registry, advisoryLock, proc, sweep, leaders, bounds>>

\* A payload that does not parse, or names no type or an unknown one.
RejectPayload(i, p) ==
  LET t == jobs[i][p].task IN
  /\ Up(i)
  /\ jobs[i][p].phase = "held"
  /\ t \in BadPayload
  /\ Update(t, FailedForGood(tasks[t]))
  /\ SetJob(i, p, NoJob)
  /\ UNCHANGED <<dlq, registry, advisoryLock, proc, sweep, leaders, bounds>>

\* Mutation: the DELETE is not in the transaction of the INSERT.
SelectForDLQ_Deletes(i, p) ==
  LET t == jobs[i][p].task
      r == tasks[t]
  IN /\ Up(i)
     /\ jobs[i][p].phase = "held"
     /\ t \notin BadPayload
     /\ LastAttempt(jobs[i][p].attempts)
     /\ SetJob(i, p, IF Present(r) /\ r.lastError THEN Moving(t, r.attempts) ELSE NoJob)
     /\ Update(t, Deleted)
     /\ UNCHANGED <<dlq, registry, advisoryLock, proc, sweep, leaders, bounds>>

\* MoveToDLQ reads the row without locking it; its INSERT needs a last_error.
SelectForDLQ(i, p) ==
  LET t == jobs[i][p].task
      r == tasks[t]
  IN /\ Up(i)
     /\ jobs[i][p].phase = "held"
     /\ t \notin BadPayload
     /\ LastAttempt(jobs[i][p].attempts)
     /\ SetJob(i, p, IF Present(r) /\ r.lastError THEN Moving(t, r.attempts) ELSE NoJob)
     /\ UNCHANGED <<tasks, dlq, registry, advisoryLock, proc, sweep, leaders, bounds>>

\* ... and commits the INSERT with the DELETE, which may find no row.
CommitToDLQ(i, p) ==
  LET t == jobs[i][p].task IN
  /\ Up(i)
  /\ jobs[i][p].phase = "moving"
  /\ \E d \in DeadId :
       /\ dlq[d] = NoEntry
       /\ dlq' = [dlq EXCEPT ![d] = Entry(t, jobs[i][p].attempts)]
  /\ Update(t, Deleted)
  /\ SetJob(i, p, NoJob)
  /\ UNCHANGED <<registry, advisoryLock, proc, sweep, leaders, bounds>>

\* The last call of Execute fails: it is logged and the job is over.
FinishFails(i, p) ==
  /\ Up(i)
  /\ jobs[i][p].phase # "idle"
  /\ SetJob(i, p, NoJob)
  /\ Fault
  /\ UNCHANGED <<tasks, dlq, registry, advisoryLock, proc, sweep, leaders, stalls>>

Finish(i, p) == \/ CompleteTask(i, p)
                \/ FailForRetry(i, p)
                \/ RejectPayload(i, p)
                \/ SelectForDLQ(i, p)
                \/ CommitToDLQ(i, p)

-----------------------------------------------------------------------------
(* The run of main *)

\* Startup reads the stale instances, and recovers their tasks (Sweep* below).
Boot(i) ==
  /\ proc[i] = "off"
  /\ proc' = [proc EXCEPT ![i] = "starting"]
  /\ sweep' = [sweep EXCEPT ![i].todo = StaleInstances]
  /\ UNCHANGED <<tasks, dlq, registry, advisoryLock, jobs, leaders, bounds>>

Register(i) ==
  /\ proc[i] = "starting"
  /\ sweep[i] = NoSweep
  /\ proc' = [proc EXCEPT ![i] = "up"]
  /\ registry' = [registry EXCEPT ![i] = "fresh"]
  /\ UNCHANGED <<tasks, dlq, advisoryLock, jobs, sweep, leaders, bounds>>

\* A failed registration is logged, and the instance serves without a row.
RegisterFails(i) ==
  /\ proc[i] = "starting"
  /\ sweep[i] = NoSweep
  /\ proc' = [proc EXCEPT ![i] = "up"]
  /\ Fault
  /\ UNCHANGED <<tasks, dlq, registry, advisoryLock, jobs, sweep, leaders, stalls>>

\* SIGTERM: every context is cancelled, so claims, heartbeats and the sweep end.
Shutdown(i) ==
  /\ Up(i)
  /\ proc' = [proc EXCEPT ![i] = "draining"]
  /\ sweep' = [sweep EXCEPT ![i] = NoSweep]
  /\ UNCHANGED <<tasks, dlq, registry, advisoryLock, jobs, leaders, bounds>>

\* A job of a draining pool ends with a call on a cancelled context.
Abandon(i, p) ==
  /\ proc[i] = "draining"
  /\ jobs[i][p].phase # "idle"
  /\ SetJob(i, p, NoJob)
  /\ UNCHANGED <<tasks, dlq, registry, advisoryLock, proc, sweep, leaders, bounds>>

\* The pool is drained: the lock is released (or stays with the session) ...
ReleaseLeader(i) ==
  /\ proc[i] = "draining"
  /\ IdlePlaces(i) = Place
  /\ i \in leaders
  /\ leaders' = leaders \ {i}
  /\ \/ /\ advisoryLock' = IF advisoryLock = i THEN NoInstance ELSE advisoryLock
        /\ UNCHANGED faults
     \/ UNCHANGED advisoryLock /\ Fault
  /\ UNCHANGED <<tasks, dlq, registry, proc, jobs, sweep, stalls>>

\* ... the row is deleted (or not), and main returns.
Exit(i) ==
  /\ proc[i] = "draining"
  /\ IdlePlaces(i) = Place
  /\ i \notin leaders
  /\ proc' = [proc EXCEPT ![i] = "down"]
  /\ \/ registry' = [registry EXCEPT ![i] = "none"] /\ UNCHANGED faults
     \/ UNCHANGED registry /\ Fault
  /\ UNCHANGED <<tasks, dlq, advisoryLock, jobs, sweep, leaders, stalls>>

\* The process dies.  The server has yet to notice that its session is gone.
Crash(i) ==
  /\ proc[i] \in {"starting", "up", "draining"}
  /\ proc' = [proc EXCEPT ![i] = "down"]
  /\ jobs' = [jobs EXCEPT ![i] = [p \in Place |-> NoJob]]
  /\ sweep' = [sweep EXCEPT ![i] = NoSweep]
  /\ leaders' = leaders \ {i}
  /\ UNCHANGED <<tasks, dlq, registry, advisoryLock, bounds>>

-----------------------------------------------------------------------------
(* Heartbeats, leadership and recovery *)

Heartbeat(i) ==
  /\ Up(i)
  /\ registry[i] # "none"
  /\ registry' = [registry EXCEPT ![i] = "fresh"]
  /\ UNCHANGED <<tasks, dlq, advisoryLock, local, bounds>>

\* Mutation: the answer of PG_TRY_ADVISORY_LOCK is not looked at.
TryAcquireLeader_Unasked(i) ==
  /\ Up(i)
  /\ i \notin leaders
  /\ advisoryLock' = IF advisoryLock = NoInstance THEN i ELSE advisoryLock
  /\ leaders' = leaders \cup {i}
  /\ UNCHANGED <<tasks, dlq, registry, proc, jobs, sweep, bounds>>

TryAcquireLeader(i) ==
  /\ Up(i)
  /\ i \notin leaders
  /\ advisoryLock = NoInstance
  /\ advisoryLock' = i
  /\ leaders' = leaders \cup {i}
  /\ UNCHANGED <<tasks, dlq, registry, proc, jobs, sweep, bounds>>

\* The session of the lock ends.  Its holder, if it lives, is not told.
SessionEnds ==
  /\ advisoryLock # NoInstance
  /\ IF proc[advisoryLock] = "down" THEN UNCHANGED faults ELSE Fault
  /\ advisoryLock' = NoInstance
  /\ UNCHANGED <<tasks, dlq, registry, local, stalls>>

\* A tick of the instance monitor reads the stale instances ...
MonitorScan(i) ==
  /\ Leader(i)
  /\ sweep[i] = NoSweep
  /\ StaleInstances # {}
  /\ sweep' = [sweep EXCEPT ![i].todo = StaleInstances]
  /\ UNCHANGED <<tasks, dlq, registry, advisoryLock, proc, jobs, leaders, bounds>>

\* ... then for each of them recovers the tasks it locked ...
SweepRecover(i, j) ==
  /\ sweep[i].cur = NoInstance
  /\ j \in sweep[i].todo
  /\ sweep' = [sweep EXCEPT ![i] = [todo |-> @.todo \ {j}, cur |-> j]]
  /\ tasks' = [t \in Task |-> IF LockedRunning(tasks[t], j)
                              THEN Released(tasks[t]) ELSE tasks[t]]
  /\ UNCHANGED <<dlq, registry, advisoryLock, proc, jobs, leaders, bounds>>

\* ... and deletes its row, whatever happened to it since the scan.
SweepDeregister(i) ==
  /\ sweep[i].cur # NoInstance
  /\ registry' = [registry EXCEPT ![sweep[i].cur] = "none"]
  /\ sweep' = [sweep EXCEPT ![i].cur = NoInstance]
  /\ UNCHANGED <<tasks, dlq, advisoryLock, proc, jobs, leaders, bounds>>

\* A failed recovery or deregistration: on to the next instance.
SweepFails(i) ==
  /\ \/ /\ sweep[i].cur # NoInstance
        /\ sweep' = [sweep EXCEPT ![i].cur = NoInstance]
     \/ /\ sweep[i].cur = NoInstance
        /\ \E j \in sweep[i].todo : sweep' = [sweep EXCEPT ![i].todo = @ \ {j}]
  /\ Fault
  /\ UNCHANGED <<tasks, dlq, registry, advisoryLock, proc, jobs, leaders, stalls>>

UnlockStaleTasks(i) ==
  /\ Leader(i)
  /\ \E t \in Task : StaleLock(tasks[t])
  /\ tasks' = [t \in Task |-> IF StaleLock(tasks[t])
                              THEN Released(tasks[t]) ELSE tasks[t]]
  /\ UNCHANGED <<dlq, registry, advisoryLock, local, bounds>>

-----------------------------------------------------------------------------
(* Time *)

\* The lock of t outlives the stale duration.
LockAges(t) ==
  /\ tasks[t].lockedAt = "fresh"
  /\ Stall(\E i \in Instance, p \in Place : Up(i) /\ Held(i, p, t))
  /\ tasks' = [tasks EXCEPT ![t].lockedAt = "stale"]
  /\ UNCHANGED <<dlq, registry, advisoryLock, local, faults>>

\* The heartbeat of i outlives the heartbeat timeout.
HeartbeatAges(i) ==
  /\ registry[i] = "fresh"
  /\ Stall(Up(i))
  /\ registry' = [registry EXCEPT ![i] = "stale"]
  /\ UNCHANGED <<tasks, dlq, advisoryLock, local, faults>>

\* The backoff of t is over.
RetryDue(t) ==
  /\ tasks[t].nextRetryAt = "future"
  /\ tasks' = [tasks EXCEPT ![t].nextRetryAt = "due"]
  /\ UNCHANGED <<dlq, registry, advisoryLock, local, bounds>>

-----------------------------------------------------------------------------
ClientNext == \/ \E t \in Task : Create(t) \/ \E s \in PatchStatuses : UpdateStatus(t, s)
              \/ \E d \in DeadId, t \in Task : Retry(d, t)

ClaimNext(i) == \/ ClaimTasks(i)
                \/ \E p \in Place, t \in Task : ClaimTask(i, p, t)
                \/ \E batch \in SUBSET ClaimableTasks \ {{}} : LoseClaim(i, batch)

ExecuteNext(i) == \E p \in Place : Finish(i, p) \/ FinishFails(i, p) \/ Abandon(i, p)

MainNext(i) == \/ Boot(i) \/ Register(i) \/ RegisterFails(i)
               \/ Shutdown(i) \/ ReleaseLeader(i) \/ Exit(i) \/ Crash(i)

Sweep(i) == SweepDeregister(i) \/ \E j \in Instance : SweepRecover(i, j)

RecoveryNext(i) == \/ Heartbeat(i) \/ TryAcquireLeader(i) \/ MonitorScan(i)
                   \/ Sweep(i) \/ SweepFails(i) \/ UnlockStaleTasks(i)

TimeNext == \/ \E t \in Task : LockAges(t) \/ RetryDue(t)
            \/ \E i \in Instance : HeartbeatAges(i)

Next == \/ ClientNext
        \/ \E i \in Instance : ClaimNext(i) \/ ExecuteNext(i) \/ MainNext(i) \/ RecoveryNext(i)
        \/ SessionEnds
        \/ TimeNext

Spec == Init /\ [][Next]_vars

(***************************************************************************)
(* Fairness: the loops of a running process turn, handlers return (they    *)
(* get a context with a timeout), time passes and the server notices dead  *)
(* sessions.  Nothing makes clients, crashes, shutdowns or faults happen,  *)
(* nor a lock or a heartbeat grow old while the process is on time.        *)
(***************************************************************************)
Fairness ==
  /\ \A i \in Instance :
       /\ WF_vars(ClaimTasks(i))
       /\ \A p \in Place : WF_vars(Finish(i, p)) /\ WF_vars(Abandon(i, p))
       /\ WF_vars(Register(i)) /\ WF_vars(ReleaseLeader(i)) /\ WF_vars(Exit(i))
       /\ WF_vars(Heartbeat(i)) /\ WF_vars(TryAcquireLeader(i))
       /\ WF_vars(MonitorScan(i)) /\ WF_vars(Sweep(i)) /\ WF_vars(UnlockStaleTasks(i))
       /\ WF_vars(HeartbeatAges(i) /\ ~ Up(i))
  /\ \A t \in Task :
       /\ WF_vars(RetryDue(t))
       /\ WF_vars(LockAges(t) /\ UNCHANGED stalls)
  /\ WF_vars(SessionEnds /\ UNCHANGED faults)

FairSpec == Spec /\ Fairness

-----------------------------------------------------------------------------
(* Properties of every behaviour *)

(* Every variable has its type. *)
TypeOK ==
  /\ tasks \in [Task -> Row]
  /\ dlq \in [DeadId -> DeadLetter]
  /\ registry \in [Instance -> {"none", "fresh", "stale"}]
  /\ advisoryLock \in Instance \cup {NoInstance}
  /\ proc \in [Instance -> {"off", "starting", "up", "draining", "down"}]
  /\ jobs \in [Instance -> [Place -> Job]]
  /\ sweep \in [Instance -> [todo : SUBSET Instance, cur : Instance \cup {NoInstance}]]
  /\ leaders \subseteq Instance
  /\ stalls \in 0..MaxStalls
  /\ faults \in 0..MaxFaults

(* A pending task is unlocked and a running one is locked with a time, so  *)
(* that every unsettled row is in reach of ClaimTasks or UnlockStaleTasks,  *)
(* whatever zombie workers, crashes and failed calls did to it.             *)
InReach(r) ==
  /\ r.status = "pending" => r.lockedBy = NoInstance /\ r.lockedAt = "null"
  /\ r.status = "running" => r.lockedBy # NoInstance /\ r.lockedAt # "null"

NoLimbo == \A t \in Task : InReach(tasks[t])

(* With clients that PATCH any task to any status at any time: nothing but *)
(* such a PATCH puts a row out of reach, neither the recovery of a patched *)
(* row nor the late worker whose task it was.                              *)
OnlyPatchStrands ==
  [][\A t \in Task : (InReach(tasks[t]) /\ ~ InReach(tasks'[t]))
                        => \E s \in PatchStatuses : UpdateStatus(t, s)]_vars

(* dead_letter_tasks.last_error is NOT NULL and tasks.last_error is not:    *)
(* whenever a worker is about to dead-letter its task, the row, if it is    *)
(* still there, holds the error of an earlier attempt.                      *)
LastErrorOnRecord ==
  \A i \in Instance, p \in Place :
    LET j == jobs[i][p] IN
    (j.phase = "held" /\ LastAttempt(j.attempts) /\ Present(tasks[j.task]))
      => tasks[j.task].lastError

(* A task leaves the table when, and only when, a dead-letter entry tells   *)
(* of it, however many workers move it at once.                             *)
NoTaskLost ==
  \A t \in Task : tasks[t].status = "gone" <=> \E d \in DeadId : dlq[d].orig = t

(* No task is dead-lettered before MaxRetries - 1 failures are on record,   *)
(* even by a worker whose copy of the task is out of date.                  *)
NoEarlyDeath ==
  \A d \in DeadId : dlq[d] # NoEntry => dlq[d].attempts >= MaxRetries - 1

(* The instances that may recover what others left are elected as in       *)
(* Succession: one at a time, and one more for every failure, of which the *)
(* lost sessions are a part; each until its process is told to stop or     *)
(* dies; and while one is up the lead does not stay vacant.                *)
Elections == INSTANCE Succession WITH standing <- {i \in Instance : Up(i)},
                                      leading  <- {i \in Instance : Leader(i)},
                                      lost     <- faults

RecoveryIsSuccession == Elections!FairSpec

-----------------------------------------------------------------------------
(* Properties of behaviours without stalls and without PATCH               *)

(* A serving instance that works on a task has its row: it is locked by    *)
(* that instance, with the attempt count the worker read.                  *)
LiveHolderOwnsRow ==
  \A i \in Instance, p \in Place :
    LET j == jobs[i][p] IN
    (Up(i) /\ j.phase # "idle")
      => /\ LockedRunning(tasks[j.task], i)
         /\ tasks[j.task].attempts = j.attempts

(* No two serving workers, of one or of several instances, have the same   *)
(* task.                                                                   *)
OneHolder ==
  \A i, k \in Instance, p, q \in Place :
    (/\ Up(i) /\ jobs[i][p].phase # "idle"
     /\ Up(k) /\ jobs[k][q].phase # "idle"
     /\ jobs[i][p].task = jobs[k][q].task) => i = k /\ p = q

(* A completed or failed task is never touched again: nobody runs it a     *)
(* second time, and no late worker puts it back in the queue.              *)
SettledIsFinal ==
  [][\A t \in Task : tasks[t].status \in {"completed", "failed"}
                        => tasks'[t] = tasks[t]]_vars

(* Recovery by heartbeat and by lock age, together or one after the other, *)
(* never costs a task an attempt: what is queued or running has one left,  *)
(* and what is dead-lettered failed MaxRetries - 1 times before.           *)
RetryBudget ==
  /\ \A t \in Task : tasks[t].status \in {"pending", "running"}
                       => tasks[t].attempts < MaxRetries
  /\ \A d \in DeadId : dlq[d].attempts < MaxRetries

(* A task has one dead-letter entry at most.                               *)
DeadLetteredOnce ==
  \A d, e \in DeadId : (dlq[d] # NoEntry /\ dlq[d].orig = dlq[e].orig) => d = e

-----------------------------------------------------------------------------
(* What a test says of recovery, and stalls refute *)

(* Startup recovery and the instance monitor touch no task of an instance   *)
(* whose heartbeat is fresh when its tasks are recovered.                   *)
RecoverySparesLive ==
  [][\A i, j \in Instance : (SweepRecover(i, j) /\ registry[j] = "fresh")
                              => UNCHANGED tasks]_vars

-----------------------------------------------------------------------------
(* Liveness *)

(* While one instance stays up, every task that is ever inserted is in the *)
(* end completed, failed or dead-lettered, and stays so: whatever crashed  *)
(* or lost its database while holding it, and whichever zombie comes back. *)
Drains ==
  (\E i \in Instance : <>[]Up(i))
    => \A t \in Task : \/ []<>(tasks[t].status = "unborn")
                       \/ <>[](tasks[t].status \in {"completed", "failed", "gone"})
=============================================================================
