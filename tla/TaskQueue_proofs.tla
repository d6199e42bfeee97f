-------------------------- MODULE TaskQueue_proofs --------------------------
(* Invariants of TaskQueue, for all values of its constants. *)
EXTENDS TaskQueue, FiniteSetTheorems, TLAPS

USE InstanceAssumption, RetriesAssumption, TaskAssumption, PatchAssumption, BoundAssumption

-----------------------------------------------------------------------------
(* What the statements make of a row *)

(* The rows that statements insert and delete are rows.                    *)
LEMMA EmptyRowsType == Unborn \in Row /\ Deleted \in Row /\ NewRow \in Row
  BY DEF Unborn, Deleted, NewRow, EmptyRow, Row, Status

(* Every statement on a row, claim, settlement, recovery, PATCH or passing *)
(* of time, leaves a row.                                                  *)
LEMMA RowsType ==
  \A r \in Row :
    /\ r.attempts \in Nat /\ r.status \in Status \cup {"unborn", "gone"}
    /\ \A i \in Instance : Claimed(r, i) \in Row
    /\ Completed(r) \in Row
    /\ FailedForRetry(r) \in Row
    /\ FailedForGood(r) \in Row
    /\ Released(r) \in Row
    /\ \A s \in Status : StatusSet(r, s) \in Row
    /\ [r EXCEPT !.lockedAt = "stale"] \in Row
    /\ [r EXCEPT !.nextRetryAt = "due"] \in Row
<1> SUFFICES ASSUME NEW r \in Row PROVE RowsType!(r)
  OBVIOUS
<1>1. Unlocked(r) \in Row
  BY DEF Row, Unlocked
<1>2. \A i \in Instance : Claimed(r, i) \in Row
  BY DEF Row, Status, Claimed
<1>3. Completed(r) \in Row /\ Released(r) \in Row
  BY <1>1 DEF Row, Status, Completed, Released
<1>4. r.attempts \in Nat /\ r.status \in Status \cup {"unborn", "gone"}
  BY DEF Row
<1>9. r.attempts + 1 \in Nat
  BY <1>4
<1>5. FailedForRetry(r) \in Row
  BY <1>1, <1>9 DEF Row, Status, FailedForRetry
<1>6. FailedForGood(r) \in Row
  BY <1>1, <1>9 DEF Row, Status, FailedForGood
<1>7. \A s \in Status : StatusSet(r, s) \in Row
  BY DEF Row, Status, StatusSet
<1>8. [r EXCEPT !.lockedAt = "stale"] \in Row /\ [r EXCEPT !.nextRetryAt = "due"] \in Row
  BY DEF Row
<1> QED
  BY <1>2, <1>3, <1>4, <1>5, <1>6, <1>7, <1>8

(* What each statement leaves in the columns the invariants speak of: the  *)
(* lock, the attempts and the retry time.                                  *)
LEMMA RowsFields ==
  ASSUME NEW r \in Row
  PROVE  /\ \A i \in Instance :
              /\ Claimed(r, i).status = "running" /\ Claimed(r, i).lockedBy = i
              /\ Claimed(r, i).lockedAt = "fresh" /\ Claimed(r, i).attempts = r.attempts
              /\ Claimed(r, i).nextRetryAt = r.nextRetryAt
         /\ Completed(r).status = "completed" /\ Completed(r).lockedAt = "null"
         /\ Completed(r).nextRetryAt = r.nextRetryAt
         /\ FailedForRetry(r).status = "pending" /\ FailedForRetry(r).lockedAt = "null"
         /\ FailedForRetry(r).attempts = r.attempts + 1
         /\ FailedForGood(r).status = "failed" /\ FailedForGood(r).lockedAt = "null"
         /\ FailedForGood(r).nextRetryAt = r.nextRetryAt
         /\ Released(r).status = "pending" /\ Released(r).lockedAt = "null"
         /\ Released(r).attempts = r.attempts
         /\ LET o == [r EXCEPT !.lockedAt = "stale"] IN
              /\ o.status = r.status /\ o.lockedBy = r.lockedBy /\ o.lockedAt = "stale"
              /\ o.attempts = r.attempts /\ o.nextRetryAt = r.nextRetryAt
         /\ LET o == [r EXCEPT !.nextRetryAt = "due"] IN
              /\ o.status = r.status /\ o.lockedBy = r.lockedBy /\ o.lockedAt = r.lockedAt
              /\ o.attempts = r.attempts /\ o.nextRetryAt = "due"
<1>1. /\ Unlocked(r) \in Row /\ Unlocked(r).lockedAt = "null"
      /\ Unlocked(r).nextRetryAt = r.nextRetryAt /\ Unlocked(r).attempts = r.attempts
  BY DEF Row, Unlocked
<1>2. \A i \in Instance :
        /\ Claimed(r, i).status = "running" /\ Claimed(r, i).lockedBy = i
        /\ Claimed(r, i).lockedAt = "fresh" /\ Claimed(r, i).attempts = r.attempts
        /\ Claimed(r, i).nextRetryAt = r.nextRetryAt
  BY DEF Row, Claimed
<1>3. /\ Completed(r).status = "completed" /\ Completed(r).lockedAt = "null"
      /\ Completed(r).nextRetryAt = r.nextRetryAt
  BY <1>1 DEF Row, Completed
<1>4. /\ FailedForRetry(r).status = "pending" /\ FailedForRetry(r).lockedAt = "null"
      /\ FailedForRetry(r).attempts = r.attempts + 1
  BY <1>1 DEF Row, FailedForRetry
<1>5. /\ FailedForGood(r).status = "failed" /\ FailedForGood(r).lockedAt = "null"
      /\ FailedForGood(r).nextRetryAt = r.nextRetryAt
  BY <1>1 DEF Row, FailedForGood
<1>6. /\ Released(r).status = "pending" /\ Released(r).lockedAt = "null"
      /\ Released(r).attempts = r.attempts
  BY <1>1 DEF Row, Released
<1> QED
  BY <1>2, <1>3, <1>4, <1>5, <1>6 DEF Row

(* An UPDATE by id writes one row, if it is there, and no other.           *)
LEMMA UpdateType ==
  ASSUME tasks \in [Task -> Row], NEW t \in Task, NEW row \in Row, Update(t, row)
  PROVE  /\ tasks' \in [Task -> Row]
         /\ \A u \in Task : tasks'[u] = IF u = t /\ Present(tasks[t]) THEN row ELSE tasks[u]
  BY DEF Update

(* What a place holds while a task is executed, and while it is moved to   *)
(* the dead letters.                                                       *)
LEMMA JobsType == 
  /\ NoJob \in Job /\ NoJob.phase = "idle"
  /\ \A t \in Task, n \in Nat :
       /\ HeldJob(t, n) \in Job /\ Moving(t, n) \in Job
       /\ HeldJob(t, n).phase = "held" /\ Moving(t, n).phase = "moving"
       /\ HeldJob(t, n).task = t /\ Moving(t, n).task = t
       /\ HeldJob(t, n).attempts = n /\ Moving(t, n).attempts = n
  BY DEF NoJob, HeldJob, Moving, Job

(* A place that is not idle has a task and the attempts its worker read.   *)
LEMMA ActiveJob ==
  ASSUME jobs \in [Instance -> [Place -> Job]],
         NEW i \in Instance, NEW p \in Place, jobs[i][p].phase # "idle"
  PROVE  /\ jobs[i][p].task \in Task
         /\ jobs[i][p].attempts \in Nat
         /\ jobs[i][p].phase \in {"held", "moving"}
  BY DEF Job, NoJob

(* A worker that starts or ends a job changes its own place only.          *)
LEMMA SetJobType ==
  ASSUME jobs \in [Instance -> [Place -> Job]],
         NEW i \in Instance, NEW p \in Place, NEW job \in Job, SetJob(i, p, job)
  PROVE  /\ jobs' \in [Instance -> [Place -> Job]]
         /\ \A k \in Instance, q \in Place :
              jobs'[k][q] = IF k = i /\ q = p THEN job ELSE jobs[k][q]
  BY DEF SetJob

(* A claim writes the rows it takes and gives them, as they were read, to  *)
(* idle places.                                                            *)
LEMMA TakeType ==
  ASSUME TypeOK, NEW i \in Instance, NEW P \in SUBSET Place, NEW f \in [P -> Task],
         Take(i, f)
  PROVE  /\ tasks' \in [Task -> Row]
         /\ \A t \in Task : tasks'[t] = IF \E p \in P : f[p] = t THEN Claimed(tasks[t], i)
                                                               ELSE tasks[t]
         /\ jobs' \in [Instance -> [Place -> Job]]
         /\ \A k \in Instance, q \in Place :
              jobs'[k][q] = IF k = i /\ q \in P THEN HeldJob(f[q], tasks[f[q]].attempts)
                                                ELSE jobs[k][q]
<1>1. DOMAIN f = P /\ \A p \in P : f[p] \in Task
  OBVIOUS
<1>2. tasks \in [Task -> Row] /\ jobs \in [Instance -> [Place -> Job]]
  BY DEF TypeOK
<1>3. \A t \in Task : Claimed(tasks[t], i) \in Row
  BY <1>2, RowsType DEF Status
<1>4. \A p \in P : HeldJob(f[p], tasks[f[p]].attempts) \in Job
  BY <1>1, <1>2, JobsType DEF Row
<1>5. [q \in Place |-> IF q \in P THEN HeldJob(f[q], tasks[f[q]].attempts) ELSE jobs[i][q]]
        \in [Place -> Job]
  BY <1>2, <1>4
<1>6. /\ jobs' \in [Instance -> [Place -> Job]]
      /\ \A k \in Instance, q \in Place :
           jobs'[k][q] = IF k = i /\ q \in P THEN HeldJob(f[q], tasks[f[q]].attempts)
                                             ELSE jobs[k][q]
  BY <1>1, <1>2, <1>5 DEF Take
<1> QED
  BY <1>1, <1>2, <1>3, <1>6 DEF Take

-----------------------------------------------------------------------------
(* Type correctness *)

(* The empty tables have their types.                                      *)
LEMMA InitTypeOK == Init => TypeOK
  BY EmptyRowsType, JobsType DEF Init, TypeOK, NoEntry, DeadLetter, NoSweep

(* Every action of clients, workers, main, recovery and time keeps every   *)
(* variable in its type.                                                   *)
LEMMA NextTypeOK == TypeOK /\ [Next]_vars => TypeOK'
<1> SUFFICES ASSUME TypeOK, [Next]_vars PROVE TypeOK'
  OBVIOUS
<1> USE DEF TypeOK
<1>1. ASSUME NEW t \in Task, Create(t) PROVE TypeOK'
  BY <1>1, EmptyRowsType DEF Create, local, bounds
<1>2. ASSUME NEW t \in Task, NEW s \in PatchStatuses, UpdateStatus(t, s) PROVE TypeOK'
  BY <1>2, RowsType DEF UpdateStatus, local, bounds
<1>3. ASSUME NEW d \in DeadId, NEW t \in Task, Retry(d, t) PROVE TypeOK'
  <2>1. [dlq[d] EXCEPT !.retried = TRUE] \in DeadLetter
    <3>1. dlq[d] \in DeadLetter
      OBVIOUS
    <3>2. \A e \in DeadLetter : [e EXCEPT !.retried = TRUE] \in DeadLetter
      BY DEF DeadLetter
    <3> QED
      BY <3>1, <3>2
  <2>2. dlq' = [dlq EXCEPT ![d] = [dlq[d] EXCEPT !.retried = TRUE]]
    BY <1>3 DEF Retry
  <2>4. dlq' \in [DeadId -> DeadLetter]
    BY <2>1, <2>2
  <2>3. tasks' \in [Task -> Row]
    BY <1>3, EmptyRowsType DEF Retry
  <2> QED
    BY <1>3, <2>3, <2>4 DEF Retry, local, bounds
<1>4. ASSUME NEW i \in Instance, ClaimTasks(i) PROVE TypeOK'
  <2>1. PICK P \in SUBSET IdlePlaces(i) : \E f \in [P -> ClaimableTasks] : Take(i, f)
    BY <1>4 DEF ClaimTasks
  <2>3. PICK f \in [P -> ClaimableTasks] : Take(i, f)
    BY <2>1
  <2>2. P \in SUBSET Place /\ f \in [P -> Task]
    BY <2>1 DEF IdlePlaces, ClaimableTasks
  <2> QED
    <3>1. tasks' \in [Task -> Row] /\ jobs' \in [Instance -> [Place -> Job]]
      BY <2>3, <2>2, TakeType
    <3> QED
      BY <2>3, <3>1 DEF Take, bounds
<1>5. ASSUME NEW i \in Instance, NEW p \in Place, NEW t \in Task, ClaimTask(i, p, t) PROVE TypeOK'
  <2>1. {p} \in SUBSET Place /\ [q \in {p} |-> t] \in [{p} -> Task]
    OBVIOUS
  <2>2. Take(i, [q \in {p} |-> t])
    BY <1>5 DEF ClaimTask
  <2>3. tasks' \in [Task -> Row] /\ jobs' \in [Instance -> [Place -> Job]]
    BY <2>1, <2>2, TakeType
  <2> QED
    BY <2>2, <2>3 DEF Take, bounds
<1>6. ASSUME NEW i \in Instance, NEW batch \in SUBSET ClaimableTasks, LoseClaim(i, batch)
      PROVE  TypeOK'
  <2>1. tasks' \in [Task -> Row]
    BY <1>6, RowsType DEF LoseClaim
  <2> QED
    BY <1>6, <2>1 DEF LoseClaim, local, Fault
<1>7. ASSUME NEW i \in Instance, NEW p \in Place, CompleteTask(i, p) PROVE TypeOK'
  <2>1. jobs[i][p].task \in Task
    BY <1>7, ActiveJob DEF CompleteTask
  <2> QED
    BY <1>7, <2>1, RowsType, UpdateType, JobsType, SetJobType DEF CompleteTask, bounds
<1>8. ASSUME NEW i \in Instance, NEW p \in Place, FailForRetry(i, p) PROVE TypeOK'
  <2>1. jobs[i][p].task \in Task
    BY <1>8, ActiveJob DEF FailForRetry
  <2> QED
    BY <1>8, <2>1, RowsType, UpdateType, JobsType, SetJobType DEF FailForRetry, bounds
<1>9. ASSUME NEW i \in Instance, NEW p \in Place, RejectPayload(i, p) PROVE TypeOK'
  <2>1. jobs[i][p].task \in Task
    BY <1>9, ActiveJob DEF RejectPayload
  <2> QED
    BY <1>9, <2>1, RowsType, UpdateType, JobsType, SetJobType DEF RejectPayload, bounds
<1>10. ASSUME NEW i \in Instance, NEW p \in Place, SelectForDLQ(i, p) PROVE TypeOK'
  <2>1. jobs[i][p].task \in Task /\ tasks[jobs[i][p].task].attempts \in Nat
    BY <1>10, ActiveJob DEF SelectForDLQ, Row
  <2> QED
    BY <1>10, <2>1, JobsType, SetJobType DEF SelectForDLQ, bounds
<1>11. ASSUME NEW i \in Instance, NEW p \in Place, CommitToDLQ(i, p) PROVE TypeOK'
  <2>1. jobs[i][p].task \in Task /\ jobs[i][p].attempts \in Nat
    BY <1>11, ActiveJob DEF CommitToDLQ
  <2>2. Entry(jobs[i][p].task, jobs[i][p].attempts) \in DeadLetter
    BY <2>1 DEF Entry, DeadLetter
  <2> QED
    BY <1>11, <2>1, <2>2, EmptyRowsType, UpdateType, JobsType, SetJobType DEF CommitToDLQ, bounds
<1>12. ASSUME NEW i \in Instance, NEW p \in Place, FinishFails(i, p) PROVE TypeOK'
  BY <1>12, JobsType, SetJobType DEF FinishFails, Fault
<1>13. ASSUME NEW i \in Instance, NEW p \in Place, Abandon(i, p) PROVE TypeOK'
  BY <1>13, JobsType, SetJobType DEF Abandon, bounds
<1>14. ASSUME NEW i \in Instance, Boot(i) PROVE TypeOK'
  BY <1>14 DEF Boot, local, bounds, StaleInstances
<1>15. ASSUME NEW i \in Instance, Register(i) PROVE TypeOK'
  BY <1>15 DEF Register, bounds
<1>16. ASSUME NEW i \in Instance, RegisterFails(i) PROVE TypeOK'
  BY <1>16 DEF RegisterFails, Fault
<1>17. ASSUME NEW i \in Instance, Shutdown(i) PROVE TypeOK'
  BY <1>17 DEF Shutdown, bounds, NoSweep
<1>18. ASSUME NEW i \in Instance, ReleaseLeader(i) \/ Exit(i) PROVE TypeOK'
  <2>1. CASE ReleaseLeader(i)
    BY <2>1 DEF ReleaseLeader, Fault
  <2>2. CASE Exit(i)
    BY <2>2 DEF Exit, Fault
  <2> QED
    BY <1>18, <2>1, <2>2
<1>19. ASSUME NEW i \in Instance, Crash(i) PROVE TypeOK'
  BY <1>19, JobsType DEF Crash, bounds, NoSweep
<1>20. ASSUME NEW i \in Instance, Heartbeat(i) PROVE TypeOK'
  BY <1>20 DEF Heartbeat, local, bounds
<1>21. ASSUME NEW i \in Instance, TryAcquireLeader(i) PROVE TypeOK'
  BY <1>21 DEF TryAcquireLeader, bounds
<1>22. ASSUME NEW i \in Instance, MonitorScan(i) PROVE TypeOK'
  BY <1>22 DEF MonitorScan, bounds, StaleInstances
<1>23. ASSUME NEW i \in Instance, SweepDeregister(i) PROVE TypeOK'
  BY <1>23 DEF SweepDeregister, bounds
<1>24. ASSUME NEW i \in Instance, SweepFails(i) PROVE TypeOK'
  <2>1. sweep' \in [Instance -> [todo : SUBSET Instance, cur : Instance \cup {NoInstance}]]
    BY <1>24 DEF SweepFails
  <2> QED
    BY <1>24, <2>1 DEF SweepFails, Fault
<1>25. ASSUME NEW i \in Instance, NEW j \in Instance, SweepRecover(i, j) PROVE TypeOK'
  BY <1>25, RowsType DEF SweepRecover, bounds
<1>26. ASSUME NEW i \in Instance, UnlockStaleTasks(i) PROVE TypeOK'
  BY <1>26, RowsType DEF UnlockStaleTasks, local, bounds
<1>27. ASSUME SessionEnds PROVE TypeOK'
  BY <1>27 DEF SessionEnds, Fault, local
<1>28. ASSUME NEW t \in Task, LockAges(t) PROVE TypeOK'
  <2>1. tasks' \in [Task -> Row]
    BY <1>28, RowsType DEF LockAges
  <2>2. stalls' \in 0..MaxStalls
    BY <1>28 DEF LockAges, Stall
  <2> QED
    BY <1>28, <2>1, <2>2 DEF LockAges, local
<1>29. ASSUME NEW t \in Task, RetryDue(t) PROVE TypeOK'
  BY <1>29, RowsType DEF RetryDue, local, bounds
<1>30. ASSUME NEW i \in Instance, HeartbeatAges(i) PROVE TypeOK'
  BY <1>30 DEF HeartbeatAges, Stall, local
<1>31. ASSUME UNCHANGED vars PROVE TypeOK'
  BY <1>31 DEF vars
<1> QED
  BY <1>1, <1>2, <1>3, <1>4, <1>5, <1>6, <1>7, <1>8, <1>9, <1>10, <1>11, <1>12, <1>13, <1>14, <1>15, <1>16, <1>17, <1>18, <1>19, <1>20, <1>21, <1>22, <1>23, <1>24, <1>25, <1>26, <1>27, <1>28, <1>29, <1>30, <1>31
  DEF Next, ClientNext, ClaimNext, ExecuteNext, Finish, MainNext, RecoveryNext, Sweep, TimeNext

(* TypeOK holds in every behaviour. *)
THEOREM TypeCorrect == Spec => []TypeOK
  BY InitTypeOK, NextTypeOK, PTL DEF Spec

-----------------------------------------------------------------------------
(* What a step may do to a row, and what follows *)

\* From r to s, for the row of task t, by anything but a PATCH ...
OwnStep(t, r, s) ==
  \/ s = r
  \/ r.status = "unborn" /\ s = NewRow
  \/ Claimable(r) /\ \E i \in Instance : s = Claimed(r, i)
  \/ /\ Present(r)
     /\ \E i \in Instance, p \in Place :
          /\ Up(i) /\ Held(i, p, t)
          /\ \/ s \in {Completed(r), FailedForGood(r), Deleted}
             \/ s = FailedForRetry(r) /\ ~ LastAttempt(jobs[i][p].attempts)
  \/ r.status = "running" /\ s = Released(r)
  \/ r.lockedAt = "fresh" /\ s = [r EXCEPT !.lockedAt = "stale"]
  \/ r.nextRetryAt = "future" /\ s = [r EXCEPT !.nextRetryAt = "due"]

\* ... and by anything.
RowStep(t, r, s) ==
  \/ OwnStep(t, r, s)
  \/ Present(r) /\ \E st \in PatchStatuses : s = StatusSet(r, st)

(* What any step but a PATCH does to any row is one of the statements of   *)
(* the repository, on that row.                                            *)
LEMMA OwnSteps ==
  ASSUME TypeOK, [Next]_vars, NEW t \in Task
  PROVE  \/ OwnStep(t, tasks[t], tasks'[t])
         \/ \E st \in PatchStatuses : UpdateStatus(t, st)
<1> DEFINE Goal == \/ OwnStep(t, tasks[t], tasks'[t])
                   \/ \E st \in PatchStatuses : UpdateStatus(t, st)
<1> tasks \in [Task -> Row] /\ jobs \in [Instance -> [Place -> Job]]
  BY DEF TypeOK
<1>1. CASE UNCHANGED tasks
  BY <1>1 DEF OwnStep
<1>2. ASSUME NEW u \in Task, Create(u) PROVE Goal
  BY <1>2 DEF Create, OwnStep
<1>3. ASSUME NEW u \in Task, NEW st \in PatchStatuses, UpdateStatus(u, st) PROVE Goal
  BY <1>3 DEF UpdateStatus, OwnStep
<1>4. ASSUME NEW d \in DeadId, NEW u \in Task, Retry(d, u) PROVE Goal
  BY <1>4 DEF Retry, OwnStep
<1>5. ASSUME NEW i \in Instance, NEW P \in SUBSET Place, NEW f \in [P -> ClaimableTasks],
             Take(i, f)
      PROVE  Goal
  <2>1. f \in [P -> Task] /\ \A p \in P : Claimable(tasks[f[p]])
    BY DEF ClaimableTasks
  <2>2. tasks'[t] = IF \E p \in P : f[p] = t THEN Claimed(tasks[t], i) ELSE tasks[t]
    BY <1>5, <2>1 DEF Take
  <2> QED
    BY <2>1, <2>2 DEF OwnStep
<1>6. ASSUME NEW i \in Instance, ClaimTasks(i) PROVE Goal
  <2>1. PICK P \in SUBSET IdlePlaces(i) : \E f \in [P -> ClaimableTasks] : Take(i, f)
    BY <1>6 DEF ClaimTasks
  <2>2. P \in SUBSET Place
    BY DEF IdlePlaces
  <2> QED
    BY <1>5, <2>1, <2>2
<1>7. ASSUME NEW i \in Instance, NEW p \in Place, NEW u \in Task, ClaimTask(i, p, u) PROVE Goal
  <2>1. Take(i, [q \in {p} |-> u]) /\ {p} \in SUBSET Place
    BY <1>7 DEF ClaimTask
  <2>2. [q \in {p} |-> u] \in [{p} -> ClaimableTasks]
    BY <1>7 DEF ClaimTask
  <2> QED
    BY <1>5, <2>1, <2>2
<1>8. ASSUME NEW i \in Instance, NEW batch \in SUBSET ClaimableTasks, LoseClaim(i, batch)
      PROVE  Goal
  BY <1>8 DEF LoseClaim, ClaimableTasks, OwnStep
<1>9. ASSUME NEW i \in Instance, NEW p \in Place, NEW row \in Row,
             Up(i), jobs[i][p].phase # "idle",
             Update(jobs[i][p].task, row),
             LET r == tasks[jobs[i][p].task] IN
               \/ row \in {Completed(r), FailedForGood(r), Deleted}
               \/ row = FailedForRetry(r) /\ ~ LastAttempt(jobs[i][p].attempts)
      PROVE  Goal
  <2>1. jobs[i][p].task \in Task
    BY <1>9, ActiveJob
  <2>2. tasks'[t] = IF t = jobs[i][p].task /\ Present(tasks[t]) THEN row ELSE tasks[t]
    BY <1>9, <2>1, UpdateType
  <2> QED
    BY <1>9, <2>1, <2>2 DEF OwnStep, Held
<1>10. ASSUME NEW i \in Instance, NEW p \in Place, Finish(i, p) PROVE Goal
  <2>1. CASE SelectForDLQ(i, p)
    BY <1>1, <2>1 DEF SelectForDLQ
  <2>2. CASE ~ SelectForDLQ(i, p)
    <3>1. Up(i) /\ jobs[i][p].phase # "idle"
      BY <1>10 DEF Finish, CompleteTask, FailForRetry, RejectPayload, SelectForDLQ, CommitToDLQ
    <3>2. tasks[jobs[i][p].task] \in Row
      BY <3>1, ActiveJob
    <3> QED
      BY <1>9, <1>10, <2>2, <3>1, <3>2, RowsType, EmptyRowsType
      DEF Finish, CompleteTask, FailForRetry, RejectPayload, CommitToDLQ
  <2> QED
    BY <2>1, <2>2
<1>11. ASSUME NEW i \in Instance, NEW j \in Instance, SweepRecover(i, j) PROVE Goal
  BY <1>11 DEF SweepRecover, LockedRunning, OwnStep
<1>12. ASSUME NEW i \in Instance, UnlockStaleTasks(i) PROVE Goal
  BY <1>12 DEF UnlockStaleTasks, StaleLock, OwnStep
<1>13. ASSUME NEW u \in Task, LockAges(u) PROVE Goal
  BY <1>13 DEF LockAges, OwnStep
<1>14. ASSUME NEW u \in Task, RetryDue(u) PROVE Goal
  BY <1>14 DEF RetryDue, OwnStep
<1>15. ASSUME NEW i \in Instance,
              \/ \E p \in Place : FinishFails(i, p) \/ Abandon(i, p)
              \/ MainNext(i)
              \/ Heartbeat(i) \/ TryAcquireLeader(i) \/ MonitorScan(i)
              \/ SweepDeregister(i) \/ SweepFails(i) \/ HeartbeatAges(i)
       PROVE  Goal
  BY <1>1, <1>15 DEF FinishFails, Abandon, MainNext, Boot, Register, RegisterFails, Shutdown,
     ReleaseLeader, Exit, Crash, Heartbeat, TryAcquireLeader, MonitorScan, SweepDeregister, SweepFails,
     HeartbeatAges
<1>16. CASE SessionEnds
  BY <1>1, <1>16 DEF SessionEnds
<1>17. CASE UNCHANGED vars
  BY <1>1, <1>17 DEF vars
<1> QED
  BY <1>2, <1>3, <1>4, <1>6, <1>7, <1>8, <1>10, <1>11, <1>12, <1>13, <1>14, <1>15, <1>16, <1>17
  DEF Next, ClientNext, ClaimNext, ExecuteNext, RecoveryNext, Sweep, TimeNext

(* What any step does to any row is one of the statements of the           *)
(* repository, on that row.                                                *)
LEMMA RowSteps ==
  ASSUME TypeOK, [Next]_vars, NEW t \in Task
  PROVE  RowStep(t, tasks[t], tasks'[t])
<1>1. ASSUME NEW st \in PatchStatuses, UpdateStatus(t, st)
      PROVE  Present(tasks[t]) /\ tasks'[t] = StatusSet(tasks[t], st)
  BY <1>1 DEF UpdateStatus, TypeOK
<1> QED
  BY <1>1, OwnSteps DEF RowStep

(* No statement lowers the attempts of a row, counts a failure without an  *)
(* error, or brings back a deleted row.                                    *)
LEMMA RowStepFacts ==
  ASSUME NEW t, NEW r \in Row, NEW s, RowStep(t, r, s)
  PROVE  /\ r.status # "unborn" => s.status # "unborn"
         /\ r.status = "gone" => s.status = "gone"
         /\ Present(r) /\ Present(s) => s.attempts >= r.attempts
         /\ (r.attempts > 0 => r.lastError) => (s.attempts > 0 => s.lastError)
<1> DEFINE Facts(x) ==
             /\ r.status # "unborn" => x.status # "unborn"
             /\ r.status = "gone" => x.status = "gone"
             /\ Present(r) /\ Present(x) => x.attempts >= r.attempts
             /\ (r.attempts > 0 => r.lastError) => (x.attempts > 0 => x.lastError)
<1>1. r.attempts \in Nat /\ Facts(r)
  BY DEF Row
<1>2. r.status = "unborn" => Facts(NewRow)
  BY DEF NewRow, EmptyRow, Present, Status
<1>3. Present(r) => \A st \in Status : Facts(StatusSet(r, st))
  BY <1>1 DEF StatusSet, Row, Present, Status
<1>4. Claimable(r) => \A i \in Instance : Facts(Claimed(r, i))
  BY <1>1 DEF Claimable, Claimed, Row, Present, Status
<1>5. Present(r) => Facts(Completed(r)) /\ Facts(Deleted)
  BY <1>1 DEF Completed, Unlocked, Deleted, EmptyRow, Row, Present, Status
<1>6. Present(r) => Facts(FailedForRetry(r)) /\ Facts(FailedForGood(r))
  BY <1>1 DEF FailedForRetry, FailedForGood, Unlocked, Row, Present, Status
<1>7. r.status = "running" => Facts(Released(r))
  BY <1>1 DEF Released, Unlocked, Row, Present, Status
<1>8. Facts([r EXCEPT !.lockedAt = "stale"]) /\ Facts([r EXCEPT !.nextRetryAt = "due"])
  BY <1>1 DEF Row, Present, Status
<1>9. Facts(s)
  <2> HIDE DEF Facts
  <2> QED
    BY <1>1, <1>2, <1>3, <1>4, <1>5, <1>6, <1>7, <1>8 DEF RowStep, OwnStep
<1> QED
  BY <1>9

-----------------------------------------------------------------------------
(* Rows in reach of claims and recovery *)

(* Every statement but a PATCH leaves a row within reach of the claim or   *)
(* of the recovery.                                                        *)
LEMMA OwnStaysInReach ==
  ASSUME NEW t, NEW r \in Row, NEW s, OwnStep(t, r, s), InReach(r)
  PROVE  InReach(s)
<1>1. CASE s = r
  BY <1>1
<1>2. CASE s = NewRow
  BY <1>2 DEF NewRow, EmptyRow, InReach
<1>4. ASSUME NEW i \in Instance, s = Claimed(r, i) PROVE InReach(s)
  BY <1>4 DEF Claimed, Row, InReach
<1>5. Unlocked(r) \in Row /\ Unlocked(r).lockedBy = NoInstance /\ Unlocked(r).lockedAt = "null"
  BY DEF Unlocked, Row
<1>6. CASE s \in {Completed(r), Released(r)}
  BY <1>5, <1>6 DEF Completed, Released, Row, InReach
<1>7. CASE s \in {FailedForGood(r), FailedForRetry(r)}
  BY <1>5, <1>7 DEF FailedForGood, FailedForRetry, Row, InReach
<1>8. CASE s = Deleted
  BY <1>8 DEF Deleted, EmptyRow, InReach
<1>9. CASE r.lockedAt = "fresh" /\ s = [r EXCEPT !.lockedAt = "stale"]
  BY <1>9 DEF Row, InReach
<1>10. CASE s = [r EXCEPT !.nextRetryAt = "due"]
  BY <1>10 DEF Row, InReach
<1> QED
  BY <1>1, <1>2, <1>4, <1>6, <1>7, <1>8, <1>9, <1>10 DEF OwnStep

(* A PATCH leaves it there, too, if it settles the task.                   *)
LEMMA StaysInReach ==
  ASSUME PatchStatuses \subseteq {"completed", "failed"},
         NEW t, NEW r \in Row, NEW s, RowStep(t, r, s), InReach(r)
  PROVE  InReach(s)
<1>1. ASSUME NEW st \in PatchStatuses, s = StatusSet(r, st) PROVE InReach(s)
  BY <1>1 DEF StatusSet, Row, InReach
<1> QED
  BY <1>1, OwnStaysInReach DEF RowStep

(* As long as PATCH only settles tasks, no pending row is locked and no      *)
(* running row unlocked, whatever else happens.                              *)
THEOREM NoneInLimbo ==
  ASSUME PatchStatuses \subseteq {"completed", "failed"}
  PROVE  Spec => []NoLimbo
<1>1. Init => NoLimbo
  BY DEF Init, NoLimbo, InReach, Unborn, EmptyRow
<1>2. ASSUME TypeOK, TypeOK', NoLimbo, [Next]_vars PROVE NoLimbo'
  <2>1. ASSUME NEW t \in Task PROVE InReach(tasks'[t])
    <3>1. tasks[t] \in Row /\ InReach(tasks[t])
      BY <1>2 DEF TypeOK, NoLimbo, InReach
    <3>2. RowStep(t, tasks[t], tasks'[t])
      BY <1>2, RowSteps
    <3> QED
      BY <3>1, <3>2, StaysInReach
  <2> QED
    BY <2>1 DEF NoLimbo, InReach
<1> QED
  BY <1>1, <1>2, TypeCorrect, PTL DEF Spec

(* Whatever clients PATCH tasks to, nothing but a PATCH puts a row out of    *)
(* reach of the claim and of the recovery.                                   *)
THEOREM OnlyPatchesStrand == Spec => OnlyPatchStrands
<1>1. ASSUME TypeOK, [Next]_vars
      PROVE  [\A t \in Task : (InReach(tasks[t]) /\ ~ InReach(tasks'[t]))
                               => \E s \in PatchStatuses : UpdateStatus(t, s)]_vars
  <2>1. ASSUME NEW t \in Task, InReach(tasks[t]), ~ InReach(tasks'[t])
        PROVE  \E s \in PatchStatuses : UpdateStatus(t, s)
    <3>1. tasks[t] \in Row
      BY <1>1 DEF TypeOK
    <3>2. ~ OwnStep(t, tasks[t], tasks'[t])
      BY <2>1, <3>1, OwnStaysInReach
    <3> QED
      BY <1>1, <3>2, OwnSteps
  <2> QED
    BY <2>1
<1> QED
  BY <1>1, TypeCorrect, PTL DEF Spec, OnlyPatchStrands

-----------------------------------------------------------------------------
(* What a step may do to a place, and to the dead letters *)

JobStep(i, p) ==
  LET j == jobs[i][p]
      k == jobs'[i][p]
  IN \/ k = j
     \/ k = NoJob
     \/ \E t \in ClaimableTasks : k = HeldJob(t, tasks[t].attempts)
     \/ /\ j.phase = "held"
        /\ LastAttempt(j.attempts)
        /\ Present(tasks[j.task])
        /\ k = Moving(j.task, tasks[j.task].attempts)

(* What any step does to a place: nothing, an end, a claim, or the SELECT  *)
(* of MoveToDLQ.                                                           *)
LEMMA JobSteps ==
  ASSUME TypeOK, [Next]_vars, NEW i \in Instance, NEW p \in Place
  PROVE  JobStep(i, p)
<1> DEFINE Goal == JobStep(i, p)
<1> tasks \in [Task -> Row] /\ jobs \in [Instance -> [Place -> Job]]
  BY DEF TypeOK
<1>1. CASE UNCHANGED jobs
  BY <1>1 DEF JobStep
<1>2. ASSUME NEW k \in Instance, NEW P \in SUBSET Place, NEW f \in [P -> ClaimableTasks],
             Take(k, f)
      PROVE  Goal
  <2>1. \A q \in P : f[q] \in ClaimableTasks
    OBVIOUS
  <2>2. jobs'[i][p] = IF i = k /\ p \in P THEN HeldJob(f[p], tasks[f[p]].attempts)
                                         ELSE jobs[i][p]
    BY <1>2 DEF Take
  <2> QED
    BY <2>1, <2>2 DEF JobStep
<1>3. ASSUME NEW k \in Instance, ClaimTasks(k) PROVE Goal
  <2>1. PICK P \in SUBSET IdlePlaces(k) : \E f \in [P -> ClaimableTasks] : Take(k, f)
    BY <1>3 DEF ClaimTasks
  <2>2. P \in SUBSET Place
    BY DEF IdlePlaces
  <2> QED
    BY <1>2, <2>1, <2>2
<1>4. ASSUME NEW k \in Instance, NEW q \in Place, NEW t \in Task, ClaimTask(k, q, t) PROVE Goal
  <2>1. Take(k, [x \in {q} |-> t]) /\ {q} \in SUBSET Place
    BY <1>4 DEF ClaimTask
  <2>2. [x \in {q} |-> t] \in [{q} -> ClaimableTasks]
    BY <1>4 DEF ClaimTask
  <2> QED
    BY <1>2, <2>1, <2>2
<1>5. ASSUME NEW k \in Instance, NEW q \in Place, SetJob(k, q, NoJob) PROVE Goal
  BY <1>5, SetJobType, JobsType DEF JobStep
<1>6. ASSUME NEW k \in Instance, NEW q \in Place, SelectForDLQ(k, q) PROVE Goal
  <2> DEFINE t == jobs[k][q].task
  <2>1. jobs[k][q].phase = "held" /\ LastAttempt(jobs[k][q].attempts) /\ t \in Task
    BY <1>6, ActiveJob DEF SelectForDLQ
  <2>2. CASE Present(tasks[t]) /\ tasks[t].lastError
    <3>1. Moving(t, tasks[t].attempts) \in Job
      BY <2>1, RowsType, JobsType
    <3>2. SetJob(k, q, Moving(t, tasks[t].attempts))
      BY <1>6, <2>2 DEF SelectForDLQ
    <3>3. jobs'[i][p] = IF i = k /\ p = q THEN Moving(t, tasks[t].attempts) ELSE jobs[i][p]
      BY <3>1, <3>2, SetJobType
    <3> QED
      BY <2>1, <2>2, <3>3 DEF JobStep
  <2>3. CASE ~ (Present(tasks[t]) /\ tasks[t].lastError)
    BY <1>5, <1>6, <2>3 DEF SelectForDLQ
  <2> QED
    BY <2>2, <2>3
<1>7. ASSUME NEW k \in Instance, NEW q \in Place,
             Finish(k, q) \/ FinishFails(k, q) \/ Abandon(k, q)
      PROVE  Goal
  BY <1>5, <1>6, <1>7 DEF Finish, CompleteTask, FailForRetry, RejectPayload, CommitToDLQ,
     FinishFails, Abandon
<1>8. ASSUME NEW k \in Instance, Crash(k) PROVE Goal
  BY <1>8 DEF Crash, JobStep
<1>9. ASSUME NEW k \in Instance,
             \/ Boot(k) \/ Register(k) \/ RegisterFails(k) \/ Shutdown(k)
             \/ ReleaseLeader(k) \/ Exit(k)
             \/ RecoveryNext(k)
      PROVE  Goal
  BY <1>1, <1>9 DEF Boot, Register, RegisterFails, Shutdown, ReleaseLeader, Exit, RecoveryNext, Heartbeat,
     TryAcquireLeader, MonitorScan, Sweep, SweepRecover, SweepDeregister, SweepFails,
     UnlockStaleTasks, local
<1>10. CASE ClientNext \/ SessionEnds \/ TimeNext
  BY <1>1, <1>10 DEF ClientNext, Create, UpdateStatus, Retry, SessionEnds, TimeNext, LockAges,
     HeartbeatAges, RetryDue, local
<1>11. ASSUME NEW k \in Instance, NEW batch \in SUBSET ClaimableTasks, LoseClaim(k, batch)
       PROVE  Goal
  BY <1>1, <1>11 DEF LoseClaim, local
<1>12. CASE UNCHANGED vars
  BY <1>1, <1>12 DEF vars
<1> QED
  BY <1>3, <1>4, <1>7, <1>8, <1>9, <1>10, <1>11, <1>12 DEF Next, ClaimNext, ExecuteNext, MainNext

\* Entries keep their task and count, and no row is deleted.
SameLetters ==
  /\ \A d \in DeadId : /\ dlq'[d].orig = dlq[d].orig /\ dlq'[d].attempts = dlq[d].attempts
                       /\ dlq'[d] # NoEntry => dlq[d] # NoEntry
  /\ \A t \in Task : tasks'[t].status = "gone" => tasks[t].status = "gone"

(* What any step does to the dead letters: at most one entry more, with the*)
(* delete of its task's row.                                               *)
LEMMA DeadLetterSteps ==
  ASSUME TypeOK, [Next]_vars
  PROVE  SameLetters \/ \E i \in Instance, p \in Place : CommitToDLQ(i, p)
<1> tasks \in [Task -> Row] /\ jobs \in [Instance -> [Place -> Job]] /\ dlq \in [DeadId -> DeadLetter]
  BY DEF TypeOK
<1> DEFINE NoneGone == \A t \in Task : tasks'[t].status = "gone" => tasks[t].status = "gone"
<1>1. CASE UNCHANGED dlq /\ NoneGone
  BY <1>1 DEF SameLetters
<1>2. CASE UNCHANGED dlq /\ UNCHANGED tasks
  BY <1>2 DEF SameLetters
<1>3. ASSUME NEW t \in Task, Create(t) PROVE NoneGone
  BY <1>3 DEF Create, NewRow, EmptyRow
<1>4. ASSUME NEW t \in Task, NEW s \in PatchStatuses, UpdateStatus(t, s) PROVE NoneGone
  BY <1>4 DEF UpdateStatus, StatusSet, Status, Row
<1>5. ASSUME NEW d \in DeadId, NEW t \in Task, Retry(d, t) PROVE SameLetters
  <2>1. NoneGone
    BY <1>5 DEF Retry, NewRow, EmptyRow
  <2>2. dlq[d] \in DeadLetter
    OBVIOUS
  <2>3. dlq' = [dlq EXCEPT ![d] = [dlq[d] EXCEPT !.retried = TRUE]] /\ dlq[d] # NoEntry
    BY <1>5 DEF Retry
  <2> QED
    BY <2>1, <2>2, <2>3 DEF SameLetters, DeadLetter
<1>6. ASSUME NEW i \in Instance, ClaimNext(i) PROVE NoneGone
  <2>1. \A t \in Task : tasks'[t] \in {tasks[t], Claimed(tasks[t], i)}
    BY <1>6 DEF ClaimNext, ClaimTasks, ClaimTask, LoseClaim, Take
  <2> QED
    BY <2>1, RowsFields
<1>7. ASSUME NEW i \in Instance, NEW p \in Place,
             CompleteTask(i, p) \/ FailForRetry(i, p) \/ RejectPayload(i, p)
      PROVE  NoneGone
  <2> DEFINE r == tasks[jobs[i][p].task]
  <2>1. jobs[i][p].task \in Task
    BY <1>7, ActiveJob DEF CompleteTask, FailForRetry, RejectPayload
  <2>2. r \in Row
    BY <2>1
  <2>3. \A t \in Task : tasks'[t] \in {tasks[t], Completed(tasks[t]), FailedForRetry(tasks[t]),
                                       FailedForGood(tasks[t])}
    BY <1>7, <2>1 DEF CompleteTask, FailForRetry, RejectPayload, Update
  <2> QED
    BY <2>3, RowsFields
<1>8. ASSUME NEW i \in Instance, NEW j \in Instance, SweepRecover(i, j) PROVE NoneGone
  BY <1>8 DEF SweepRecover, Released, Unlocked, Row
<1>9. ASSUME NEW i \in Instance, UnlockStaleTasks(i) PROVE NoneGone
  BY <1>9 DEF UnlockStaleTasks, Released, Unlocked, Row
<1>10. ASSUME NEW t \in Task, LockAges(t) \/ RetryDue(t) PROVE NoneGone
  <2>1. \A u \in Task : \/ tasks'[u] = tasks[u]
                       \/ tasks'[u] = [tasks[u] EXCEPT !.lockedAt = "stale"]
                       \/ tasks'[u] = [tasks[u] EXCEPT !.nextRetryAt = "due"]
    BY <1>10 DEF LockAges, RetryDue
  <2>2. \A r \in Row : /\ [r EXCEPT !.lockedAt = "stale"].status = r.status
                      /\ [r EXCEPT !.nextRetryAt = "due"].status = r.status
    BY DEF Row
  <2>3. \A u \in Task : tasks[u] \in Row
    OBVIOUS
  <2> QED
    BY <2>1, <2>2, <2>3
<1>11. ASSUME NEW i \in Instance,
              \/ \E p \in Place : SelectForDLQ(i, p) \/ FinishFails(i, p) \/ Abandon(i, p)
              \/ MainNext(i)
              \/ Heartbeat(i) \/ TryAcquireLeader(i) \/ MonitorScan(i)
              \/ SweepDeregister(i) \/ SweepFails(i) \/ HeartbeatAges(i)
       PROVE  UNCHANGED dlq /\ UNCHANGED tasks
  BY <1>11 DEF SelectForDLQ, FinishFails, Abandon, MainNext, Boot, Register, RegisterFails,
     Shutdown, ReleaseLeader, Exit, Crash, Heartbeat, TryAcquireLeader, MonitorScan, SweepDeregister, SweepFails,
     HeartbeatAges
<1>12. CASE SessionEnds \/ UNCHANGED vars
  BY <1>2, <1>12 DEF SessionEnds, vars
<1>13. ASSUME NEW i \in Instance, Next,
              \/ ClaimNext(i)
              \/ \E p \in Place : CompleteTask(i, p) \/ FailForRetry(i, p) \/ RejectPayload(i, p)
              \/ \E j \in Instance : SweepRecover(i, j)
              \/ UnlockStaleTasks(i)
       PROVE  UNCHANGED dlq
  BY <1>13 DEF ClaimNext, ClaimTasks, ClaimTask, LoseClaim, Take, CompleteTask, FailForRetry,
     RejectPayload, SweepRecover, UnlockStaleTasks
<1>14. ASSUME NEW t \in Task,
              \/ Create(t) \/ LockAges(t) \/ RetryDue(t)
              \/ \E s \in PatchStatuses : UpdateStatus(t, s)
       PROVE  UNCHANGED dlq
  BY <1>14 DEF Create, LockAges, RetryDue, UpdateStatus
<1> HIDE DEF NoneGone
<1> QED
  BY <1>1, <1>2, <1>3, <1>4, <1>5, <1>6, <1>7, <1>8, <1>9, <1>10, <1>11, <1>12, <1>13, <1>14
  DEF Next, ClientNext, ExecuteNext, Finish, RecoveryNext, Sweep, TimeNext

-----------------------------------------------------------------------------
(* Invariants of every behaviour: the strengthening. *)

\* A row with a failed attempt has its error.
AttemptsHaveErrors ==
  \A t \in Task : tasks[t].attempts > 0 => tasks[t].lastError

\* A worker's copy is of a task that was inserted, and never ahead of the row;
\* one that moves its task read the last count.
CopiesBehindRows ==
  \A i \in Instance, p \in Place :
    LET j == jobs[i][p] IN
    j.phase # "idle" =>
      /\ tasks[j.task].status # "unborn"
      /\ Present(tasks[j.task]) => j.attempts <= tasks[j.task].attempts
      /\ j.phase = "moving" => j.attempts >= MaxRetries - 1

AsyncInv == TypeOK /\ AttemptsHaveErrors /\ CopiesBehindRows /\ NoTaskLost /\ NoEarlyDeath

(* The asynchronous invariant holds of the empty tables.                   *)
LEMMA InitAsync == Init => AsyncInv
<1> SUFFICES ASSUME Init PROVE AsyncInv
  OBVIOUS
<1>1. TypeOK
  BY InitTypeOK
<1>2. \A t \in Task : tasks[t].attempts = 0 /\ tasks[t].status = "unborn"
  BY DEF Init, Unborn, EmptyRow
<1>3. \A i \in Instance, p \in Place : jobs[i][p].phase = "idle"
  BY JobsType DEF Init
<1>4. \A d \in DeadId : dlq[d] = NoEntry /\ dlq[d].orig = NoTask
  BY DEF Init, NoEntry
<1> QED
  BY <1>1, <1>2, <1>3, <1>4 DEF AsyncInv, AttemptsHaveErrors, CopiesBehindRows, NoTaskLost,
     NoEarlyDeath

(* The asynchronous invariant survives every step, those of zombie workers *)
(* and failed calls included.                                              *)
LEMMA NextAsync == AsyncInv /\ [Next]_vars => AsyncInv'
<1> SUFFICES ASSUME AsyncInv, [Next]_vars PROVE AsyncInv'
  OBVIOUS
<1> tasks \in [Task -> Row] /\ jobs \in [Instance -> [Place -> Job]] /\ dlq \in [DeadId -> DeadLetter]
  BY DEF AsyncInv, TypeOK
<1>1. TypeOK /\ TypeOK'
  BY NextTypeOK DEF AsyncInv
<1>2. ASSUME NEW t \in Task
      PROVE  /\ tasks[t] \in Row /\ tasks'[t] \in Row
             /\ tasks[t].attempts \in Nat /\ tasks'[t].attempts \in Nat
             /\ tasks[t].status # "unborn" => tasks'[t].status # "unborn"
             /\ tasks[t].status = "gone" => tasks'[t].status = "gone"
             /\ Present(tasks[t]) /\ Present(tasks'[t]) => tasks'[t].attempts >= tasks[t].attempts
             /\ (tasks[t].attempts > 0 => tasks[t].lastError)
                  => (tasks'[t].attempts > 0 => tasks'[t].lastError)
  <2>1. tasks[t] \in Row /\ tasks'[t] \in Row
    BY <1>1 DEF TypeOK
  <2>2. RowStep(t, tasks[t], tasks'[t])
    BY <1>1, RowSteps
  <2> QED
    BY <2>1, <2>2, RowStepFacts, RowsType
<1>3. AttemptsHaveErrors'
  BY <1>2 DEF AsyncInv, AttemptsHaveErrors
<1>4. CopiesBehindRows'
  <2> SUFFICES ASSUME NEW i \in Instance, NEW p \in Place, jobs'[i][p].phase # "idle"
               PROVE  /\ tasks'[jobs'[i][p].task].status # "unborn"
                      /\ Present(tasks'[jobs'[i][p].task])
                           => jobs'[i][p].attempts <= tasks'[jobs'[i][p].task].attempts
                      /\ jobs'[i][p].phase = "moving" => jobs'[i][p].attempts >= MaxRetries - 1
    BY DEF CopiesBehindRows
  <2> DEFINE j == jobs[i][p]
             k == jobs'[i][p]
  <2>1. JobStep(i, p)
    BY <1>1, JobSteps
  <2>2. k # NoJob
    BY JobsType
  <2>3. CASE k = j
    <3>1. j.phase # "idle" /\ j.task \in Task /\ j.attempts \in Nat
      BY <2>3, ActiveJob
    <3>2. /\ tasks[j.task].status # "unborn"
          /\ Present(tasks[j.task]) => j.attempts <= tasks[j.task].attempts
          /\ j.phase = "moving" => j.attempts >= MaxRetries - 1
      BY <3>1 DEF AsyncInv, CopiesBehindRows
    <3>3. tasks[j.task].status \in Status \cup {"unborn", "gone"}
      BY <3>1, RowsType
    <3>4. Present(tasks'[j.task]) => Present(tasks[j.task])
      BY <1>2, <3>1, <3>2, <3>3 DEF Present, Status
    <3> QED
      BY <1>2, <2>3, <3>1, <3>2, <3>4
  <2>4. ASSUME NEW t \in ClaimableTasks, k = HeldJob(t, tasks[t].attempts)
        PROVE  /\ tasks'[k.task].status # "unborn"
               /\ Present(tasks'[k.task]) => k.attempts <= tasks'[k.task].attempts
               /\ k.phase # "moving"
    <3>1. t \in Task /\ Present(tasks[t]) /\ tasks[t].status # "unborn"
      BY DEF ClaimableTasks, Claimable, Present, Status
    <3>2. k.task = t /\ k.attempts = tasks[t].attempts /\ k.phase = "held"
      BY <1>2, <2>4, <3>1, JobsType
    <3> QED
      BY <1>2, <3>1, <3>2
  <2>5. ASSUME j.phase = "held", LastAttempt(j.attempts), Present(tasks[j.task]),
               k = Moving(j.task, tasks[j.task].attempts)
        PROVE  /\ tasks'[k.task].status # "unborn"
               /\ Present(tasks'[k.task]) => k.attempts <= tasks'[k.task].attempts
               /\ k.attempts >= MaxRetries - 1
    <3>1. j.task \in Task /\ j.attempts \in Nat /\ tasks[j.task].status # "unborn"
      BY <2>5, ActiveJob DEF Present, Status
    <3>2. k.task = j.task /\ k.attempts = tasks[j.task].attempts
      BY <1>2, <2>5, <3>1, JobsType
    <3>3. tasks[j.task].attempts >= MaxRetries - 1
      BY <1>2, <2>5, <3>1 DEF AsyncInv, CopiesBehindRows, LastAttempt
    <3> QED
      BY <1>2, <2>5, <3>1, <3>2, <3>3
  <2> QED
    BY <2>1, <2>2, <2>3, <2>4, <2>5 DEF JobStep
<1>5. NoTaskLost' /\ NoEarlyDeath'
  <2>1. CASE SameLetters
    <3>1. NoTaskLost'
      BY <1>2, <2>1 DEF AsyncInv, NoTaskLost, SameLetters
    <3>2. NoEarlyDeath'
      BY <2>1 DEF AsyncInv, NoEarlyDeath, SameLetters
    <3> QED
      BY <3>1, <3>2
  <2>2. ASSUME NEW i \in Instance, NEW p \in Place, CommitToDLQ(i, p)
        PROVE  NoTaskLost' /\ NoEarlyDeath'
    <3> DEFINE t == jobs[i][p].task
               n == jobs[i][p].attempts
    <3>1. t \in Task /\ n \in Nat /\ jobs[i][p].phase = "moving"
      BY <2>2, ActiveJob DEF CommitToDLQ
    <3>2. PICK d \in DeadId : dlq[d] = NoEntry /\ dlq' = [dlq EXCEPT ![d] = Entry(t, n)]
      BY <2>2 DEF CommitToDLQ
    <3>3. /\ Entry(t, n).orig = t /\ Entry(t, n).attempts = n
          /\ NoEntry.orig = NoTask /\ t # NoTask
      BY <3>1 DEF Entry, NoEntry
    <3>4. \A u \in Task : tasks'[u] = IF u = t /\ Present(tasks[t]) THEN Deleted ELSE tasks[u]
      BY <2>2, <3>1, EmptyRowsType, UpdateType DEF CommitToDLQ
    <3>5. tasks'[t].status = "gone"
      <4>1. tasks[t].status # "unborn"
        BY <3>1 DEF AsyncInv, CopiesBehindRows
      <4>2. tasks[t].status \in Status \cup {"unborn", "gone"}
        BY <3>1, RowsType
      <4> QED
        BY <3>1, <3>4, <4>1, <4>2 DEF Present, Deleted, EmptyRow
    <3>6. NoTaskLost'
      BY <3>1, <3>2, <3>3, <3>4, <3>5 DEF AsyncInv, NoTaskLost
    <3>7. n >= MaxRetries - 1
      BY <3>1 DEF AsyncInv, CopiesBehindRows
    <3>8. NoEarlyDeath'
      BY <3>2, <3>3, <3>7 DEF AsyncInv, NoEarlyDeath
    <3> QED
      BY <3>6, <3>8
  <2> QED
    BY <1>1, <2>1, <2>2, DeadLetterSteps
<1> QED
  BY <1>1, <1>3, <1>4, <1>5 DEF AsyncInv

(* Whatever is late, crashes or fails, the rows, the workers' copies of    *)
(* them and the dead letters agree as AsyncInv says.                       *)
THEOREM AsyncInvariant == Spec => []AsyncInv
  BY InitAsync, NextAsync, PTL DEF Spec

(* No worker, crash or failed call loses a task between `tasks` and          *)
(* `dead_letter_tasks`.                                                      *)
THEOREM NothingLost == Spec => []NoTaskLost
<1>1. AsyncInv => NoTaskLost
  BY DEF AsyncInv
<1> QED
  BY <1>1, AsyncInvariant, PTL

(* No dead-letter entry records fewer than MaxRetries - 1 failures.          *)
THEOREM NoneDiesEarly == Spec => []NoEarlyDeath
<1>1. AsyncInv => NoEarlyDeath
  BY DEF AsyncInv
<1> QED
  BY <1>1, AsyncInvariant, PTL

(* The INSERT of MoveToDLQ finds the NOT NULL last_error it needs.           *)
THEOREM ErrorIsRecorded == Spec => []LastErrorOnRecord
<1>1. AsyncInv => LastErrorOnRecord
  <2> SUFFICES ASSUME AsyncInv, NEW i \in Instance, NEW p \in Place,
                      jobs[i][p].phase = "held", LastAttempt(jobs[i][p].attempts),
                      Present(tasks[jobs[i][p].task])
               PROVE  tasks[jobs[i][p].task].lastError
    BY DEF LastErrorOnRecord
  <2>1. jobs[i][p].task \in Task /\ jobs[i][p].attempts \in Nat
    BY ActiveJob DEF AsyncInv, TypeOK
  <2>2. tasks[jobs[i][p].task].attempts \in Nat
    BY <2>1, RowsType DEF AsyncInv, TypeOK
  <2>3. jobs[i][p].attempts <= tasks[jobs[i][p].task].attempts
    BY DEF AsyncInv, CopiesBehindRows
  <2>4. tasks[jobs[i][p].task].attempts > 0
    BY <2>1, <2>2, <2>3 DEF LastAttempt
  <2> QED
    BY <2>1, <2>4 DEF AsyncInv, AttemptsHaveErrors
<1> QED
  BY <1>1, AsyncInvariant, PTL

-----------------------------------------------------------------------------
(* The election *)

\* Who leads runs; and those who lead without the lock lost it to a failure.
ElectionInv ==
  /\ TypeOK
  /\ \A i \in leaders : proc[i] \in {"up", "draining"}
  /\ IsFiniteSet(leaders)
  /\ Cardinality(leaders \ {advisoryLock}) <= faults

serving == {i \in Instance : Up(i)}
leading == {i \in Instance : Leader(i)}

\* A call of this step may have failed.
MayFail == faults' \in {faults, faults + 1}

(* What a step means for the election.  Startup, shutdown, release and     *)
(* crash of an instance, acquisition and loss of the lock are the steps    *)
(* that concern it; a call may fail in any of the others.                  *)
LEMMA ElectionSteps ==
  ASSUME TypeOK, [Next]_vars
  PROVE  \/ UNCHANGED <<proc, leaders, advisoryLock>> /\ MayFail
         \/ SessionEnds
         \/ \E i \in Instance : \/ Boot(i) \/ Register(i) \/ RegisterFails(i) \/ Shutdown(i)
                                \/ ReleaseLeader(i) \/ Exit(i) \/ Crash(i)
                                \/ TryAcquireLeader(i)
<1> DEFINE Rest == UNCHANGED <<proc, leaders, advisoryLock>> /\ MayFail
<1> USE DEF MayFail
<1>1. CASE ClientNext
  BY <1>1 DEF ClientNext, Create, UpdateStatus, Retry, local, bounds
<1>2. ASSUME NEW i \in Instance, ClaimNext(i) PROVE Rest
  BY <1>2 DEF ClaimNext, ClaimTasks, LoseClaim, ClaimTask, Take, Fault, local, bounds
<1>3. ASSUME NEW i \in Instance, NEW p \in Place,
             Finish(i, p) \/ FinishFails(i, p) \/ Abandon(i, p)
      PROVE  Rest
  BY <1>3 DEF Finish, CompleteTask, FailForRetry, RejectPayload, SelectForDLQ, CommitToDLQ,
     FinishFails, Abandon, Fault, bounds
<1>4. ASSUME NEW i \in Instance,
             \/ Heartbeat(i) \/ MonitorScan(i) \/ Sweep(i) \/ SweepFails(i) \/ UnlockStaleTasks(i)
      PROVE  Rest
  BY <1>4 DEF Heartbeat, MonitorScan, Sweep, SweepDeregister, SweepRecover, SweepFails,
     UnlockStaleTasks, Fault, local, bounds
<1>5. CASE TimeNext
  BY <1>5 DEF TimeNext, LockAges, RetryDue, HeartbeatAges, local, bounds
<1>6. CASE UNCHANGED vars
  BY <1>6 DEF vars
<1> HIDE DEF MayFail
<1> QED
  BY <1>1, <1>2, <1>3, <1>4, <1>5, <1>6 DEF Next, ExecuteNext, MainNext, RecoveryNext

(* Fewer leaders without the lock, or one more for a failure.              *)
LEMMA FewerDeposed ==
  ASSUME ElectionInv, faults' \in Nat,
         \/ leaders' \ {advisoryLock'} \in SUBSET (leaders \ {advisoryLock}) /\ faults' >= faults
         \/ \E i : /\ leaders' \ {advisoryLock'} \in SUBSET ((leaders \ {advisoryLock}) \cup {i})
                   /\ faults' = faults + 1
  PROVE  Cardinality(leaders' \ {advisoryLock'}) <= faults'
<1> DEFINE deposed == leaders \ {advisoryLock}
           next    == leaders' \ {advisoryLock'}
<1>1. /\ IsFiniteSet(deposed) /\ Cardinality(deposed) \in Nat
      /\ Cardinality(deposed) <= faults /\ faults \in Nat
  <2>1. deposed \in SUBSET leaders /\ IsFiniteSet(leaders)
    BY DEF ElectionInv
  <2>2. IsFiniteSet(deposed)
    BY <2>1, FS_Subset
  <2> QED
    BY <2>2, FS_CardinalityType DEF ElectionInv, TypeOK
<1> HIDE DEF deposed, next
<1>2. CASE next \in SUBSET deposed /\ faults' >= faults
  <2>1. Cardinality(next) \in Nat /\ Cardinality(next) <= Cardinality(deposed)
    BY <1>1, <1>2, FS_Subset, FS_CardinalityType
  <2> QED
    BY <1>1, <1>2, <2>1 DEF next
<1>3. CASE \E i : next \in SUBSET (deposed \cup {i}) /\ faults' = faults + 1
  <2>1. PICK i : next \in SUBSET (deposed \cup {i}) /\ faults' = faults + 1
    BY <1>3
  <2>2. /\ IsFiniteSet(deposed \cup {i})
        /\ \/ Cardinality(deposed \cup {i}) = Cardinality(deposed)
           \/ Cardinality(deposed \cup {i}) = Cardinality(deposed) + 1
    BY <1>1, FS_AddElement
  <2>3. Cardinality(next) \in Nat /\ Cardinality(next) <= Cardinality(deposed \cup {i})
    BY <2>1, <2>2, FS_Subset, FS_CardinalityType
  <2> QED
    BY <1>1, <2>1, <2>2, <2>3 DEF next
<1> QED
  BY <1>2, <1>3 DEF deposed, next

(* A leader that does not hold the lock lost it to a failure: nobody else  *)
(* releases it, and the dead do not lead.                                  *)
LEMMA NextElection == ElectionInv /\ [Next]_vars => ElectionInv'
<1> SUFFICES ASSUME ElectionInv, [Next]_vars PROVE ElectionInv'
  OBVIOUS
<1>1. TypeOK /\ TypeOK'
  BY NextTypeOK DEF ElectionInv
<1>2. faults \in Nat /\ faults' \in Nat
  BY <1>1 DEF TypeOK
<1> DEFINE Goal == /\ \A i \in leaders' : proc'[i] \in {"up", "draining"}
                   /\ \E i : leaders' \in SUBSET (leaders \cup {i})
                   /\ \/ /\ leaders' \ {advisoryLock'} \in SUBSET (leaders \ {advisoryLock})
                         /\ faults' >= faults
                      \/ \E i : /\ leaders' \ {advisoryLock'}
                                     \in SUBSET ((leaders \ {advisoryLock}) \cup {i})
                                /\ faults' = faults + 1
<1>3. Goal
  <2> USE <1>1, <1>2 DEF ElectionInv, TypeOK
  <2>1. CASE UNCHANGED <<proc, leaders, advisoryLock>> /\ MayFail
    BY <2>1 DEF MayFail
  <2>2. CASE SessionEnds
    <3>1. /\ leaders' = leaders /\ proc' = proc /\ advisoryLock' = NoInstance
          /\ advisoryLock \in leaders => faults' = faults + 1
          /\ faults' = faults \/ faults' = faults + 1
      BY <2>2 DEF SessionEnds, Fault, local
    <3>2. CASE advisoryLock \in leaders
      BY <3>1, <3>2
    <3>3. CASE advisoryLock \notin leaders
      BY <3>1, <3>3
    <3> QED
      BY <3>2, <3>3
  <2>3. ASSUME NEW i \in Instance, Boot(i) \/ Register(i) \/ RegisterFails(i) \/ Shutdown(i)
        PROVE  Goal
    <3>1. /\ leaders' = leaders /\ advisoryLock' = advisoryLock /\ faults' >= faults
          /\ \A k \in Instance : k # i => proc'[k] = proc[k]
          /\ proc[i] \in {"up", "draining"} => proc'[i] = "draining"
      BY <2>3 DEF Boot, Register, RegisterFails, Shutdown, Up, Fault, bounds
    <3> QED
      BY <3>1
  <2>4. ASSUME NEW i \in Instance, ReleaseLeader(i) \/ Crash(i) PROVE Goal
    <3>1. /\ leaders' = leaders \ {i} /\ advisoryLock' \in {advisoryLock, NoInstance}
          /\ advisoryLock' # advisoryLock => advisoryLock = i
          /\ faults' >= faults
          /\ \A k \in Instance : k # i => proc'[k] = proc[k]
      BY <2>4 DEF ReleaseLeader, Crash, Fault, bounds
    <3> QED
      BY <3>1
  <2>5. ASSUME NEW i \in Instance, Exit(i) PROVE Goal
    <3>1. /\ leaders' = leaders /\ advisoryLock' = advisoryLock /\ faults' >= faults
          /\ i \notin leaders
          /\ \A k \in Instance : k # i => proc'[k] = proc[k]
      BY <2>5 DEF Exit, Fault
    <3> QED
      BY <3>1
  <2>6. ASSUME NEW i \in Instance, TryAcquireLeader(i) PROVE Goal
    <3>1. /\ leaders' = leaders \cup {i} /\ advisoryLock = NoInstance /\ advisoryLock' = i
          /\ proc' = proc /\ proc[i] = "up" /\ faults' = faults
      BY <2>6 DEF TryAcquireLeader, Up, bounds
    <3> QED
      BY <3>1
  <2> HIDE DEF Goal
  <2> QED
    BY <2>1, <2>2, <2>3, <2>4, <2>5, <2>6, ElectionSteps
<1>4. IsFiniteSet(leaders')
  <2>1. PICK i : leaders' \in SUBSET (leaders \cup {i})
    BY <1>3
  <2>2. IsFiniteSet(leaders \cup {i})
    BY FS_AddElement DEF ElectionInv
  <2> QED
    BY <2>1, <2>2, FS_Subset
<1>5. Cardinality(leaders' \ {advisoryLock'}) <= faults'
  BY <1>2, <1>3, FewerDeposed
<1> QED
  BY <1>1, <1>3, <1>4, <1>5 DEF ElectionInv

(* Every step of the queue is one of the succession, or none: who acquires *)
(* the lock finds only leaders that have lost it.                          *)
LEMMA ElectionStep ==
  ASSUME ElectionInv, [Next]_vars
  PROVE  Elections!Next \/ UNCHANGED <<serving, leading, faults>>
<1> DEFINE Goal == Elections!Next \/ UNCHANGED <<serving, leading, faults>>
<1> USE DEF ElectionInv, TypeOK, serving, leading, Leader, Up
<1>0. leading \in SUBSET leaders /\ faults \in Nat
  OBVIOUS
<1>1. CASE UNCHANGED <<proc, leaders, advisoryLock>> /\ MayFail
  BY <1>1 DEF MayFail, Elections!Next, Elections!LoseTitle, Elections!Lose
<1>2. CASE SessionEnds
  <2>1. serving' = serving /\ leading' = leading /\ faults' \in {faults, faults + 1}
    BY <1>2 DEF SessionEnds, Fault, local
  <2> QED
    BY <2>1 DEF Elections!Next, Elections!LoseTitle, Elections!Lose
<1>3. ASSUME NEW i \in Instance, Boot(i) \/ ReleaseLeader(i) \/ Exit(i) PROVE Goal
  <2>1. serving' = serving /\ leading' = leading /\ faults' \in {faults, faults + 1}
    BY <1>3 DEF Boot, ReleaseLeader, Exit, Fault, bounds
  <2> QED
    BY <2>1 DEF Elections!Next, Elections!LoseTitle, Elections!Lose
<1>4. ASSUME NEW i \in Instance, Register(i) \/ RegisterFails(i) PROVE Goal
  <2>1. /\ i \notin serving /\ serving' = serving \cup {i} /\ leading' = leading
        /\ faults' \in {faults, faults + 1}
    BY <1>4 DEF Register, RegisterFails, Fault, bounds
  <2>2. Elections!Stand(i)
    BY <2>1 DEF Elections!Stand, Elections!Lose
  <2> QED
    BY <2>2 DEF Elections!Next
<1>5. ASSUME NEW i \in Instance, Shutdown(i) \/ Crash(i) PROVE Goal
  <2>1. CASE i \in serving
    <3>1. serving' = serving \ {i} /\ leading' = leading \ {i} /\ faults' = faults
      BY <1>5, <2>1 DEF Shutdown, Crash, bounds
    <3>2. Elections!Leave(i)
      BY <2>1, <3>1 DEF Elections!Leave, Elections!Lose
    <3> QED
      BY <3>2 DEF Elections!Next
  <2>2. CASE i \notin serving
    <3>1. serving' = serving /\ leading' = leading /\ faults' = faults
      BY <1>5, <2>2 DEF Shutdown, Crash, bounds
    <3> QED
      BY <3>1
  <2> QED
    BY <2>1, <2>2
<1>6. ASSUME NEW i \in Instance, TryAcquireLeader(i) PROVE Goal
  <2>1. /\ i \in serving \ leading /\ serving' = serving /\ leading' = leading \cup {i}
        /\ faults' = faults /\ advisoryLock = NoInstance
    BY <1>6 DEF TryAcquireLeader, bounds
  <2>2. Cardinality(leading) <= faults
    <3>1. leaders \ {advisoryLock} = leaders
      <4>1. advisoryLock \notin leaders
        BY <2>1, InstanceAssumption
      <4> HIDE DEF ElectionInv, TypeOK, serving, leading, Leader, Up
      <4> QED
        BY <4>1
    <3>2. Cardinality(leading) <= Cardinality(leaders) /\ IsFiniteSet(leading)
      BY <1>0, FS_Subset
    <3>3. Cardinality(leading) \in Nat /\ Cardinality(leaders) \in Nat
      BY <3>2, FS_CardinalityType
    <3>4. Cardinality(leaders \ {advisoryLock}) <= faults
      OBVIOUS
    <3> HIDE DEF ElectionInv, TypeOK, serving, leading, Leader, Up
    <3> QED
      BY <1>0, <3>1, <3>2, <3>3, <3>4
  <2>3. Elections!Cardinality(leading) = Cardinality(leading)
    BY DEF Cardinality, Elections!Cardinality
  <2>4. Elections!Elect(i)
    BY <2>1, <2>2, <2>3 DEF Elections!Elect, Elections!Lose
  <2> QED
    BY <2>4 DEF Elections!Next
<1> HIDE DEF Goal, ElectionInv, TypeOK, serving, leading, Leader, Up
<1> QED
  BY <1>1, <1>2, <1>3, <1>4, <1>5, <1>6, ElectionSteps DEF Goal, ElectionInv

(* The safety part of RecoveryIsSuccession: among the serving instances    *)
(* one may recover tasks, and one more for every failed call, lost         *)
(* sessions included, whatever crashes or restarts.                        *)
THEOREM RecoverersAreElected == Spec => Elections!Spec
<1>1. Init => ElectionInv
  <2> SUFFICES ASSUME Init PROVE ElectionInv
    OBVIOUS
  <2>1. leaders = {} /\ leaders \ {advisoryLock} = {} /\ faults = 0
    BY DEF Init
  <2> QED
    BY <2>1, InitTypeOK, FS_EmptySet DEF ElectionInv
<1>2. Init => Elections!Init
  BY DEF Init, Elections!Init, Up, Leader
<1>3. ElectionInv /\ [Next]_vars => [Elections!Next]_(Elections!vars)
  BY ElectionStep DEF Elections!vars, serving, leading
<1> QED
  BY <1>1, <1>2, <1>3, NextElection, PTL DEF Spec, Elections!Spec

-----------------------------------------------------------------------------
(* Behaviours without stalls and without PATCH: the strengthening *)

Timely == MaxStalls = 0 /\ PatchStatuses = {}

\* Only a stopped instance has an old heartbeat or is swept, only a serving or
\* draining one has jobs.
Stopped(i) == proc[i] \in {"draining", "down"}

LateMeansStopped ==
  \A i \in Instance :
    /\ registry[i] = "stale" => Stopped(i)
    /\ proc[i] \in {"off", "starting"} => registry[i] = "none"
    /\ \A k \in Instance : (i \in sweep[k].todo \/ i = sweep[k].cur) => Stopped(i)
    /\ proc[i] \notin {"up", "draining"} => \A p \in Place : jobs[i][p].phase = "idle"

\* LiveHolderOwnsRow, and the lock is young.
Ownership ==
  /\ \A i \in Instance, p \in Place :
       LET j == jobs[i][p] IN
       (Up(i) /\ j.phase # "idle")
         => /\ LockedRunning(tasks[j.task], i)
            /\ tasks[j.task].lockedAt = "fresh"
            /\ tasks[j.task].attempts = j.attempts
  /\ OneHolder

\* Time has no hold on a row that is not waiting for it.
NoPendingTimers ==
  \A t \in Task :
    /\ tasks[t].status \in {"completed", "failed"} => tasks[t].lockedAt = "null"
    /\ tasks[t].status \in {"running", "completed", "failed"} => tasks[t].nextRetryAt # "future"

TimelyInv == /\ AsyncInv
             /\ LateMeansStopped
             /\ Ownership
             /\ NoPendingTimers
             /\ RetryBudget
             /\ DeadLetteredOnce

(* The invariant of timely behaviours holds of the empty tables.           *)
LEMMA InitTimely == Init => TimelyInv
<1> SUFFICES ASSUME Init PROVE TimelyInv
  OBVIOUS
<1>1. \A t \in Task : tasks[t].status = "unborn"
  BY DEF Init, Unborn, EmptyRow
<1>2. \A i \in Instance, p \in Place : jobs[i][p].phase = "idle"
  BY JobsType DEF Init
<1>3. \A d \in DeadId : dlq[d] = NoEntry /\ dlq[d].attempts = 0
  BY DEF Init, NoEntry
<1>4. \A i \in Instance : registry[i] = "none" /\ sweep[i].todo = {} /\ sweep[i].cur = NoInstance
  BY DEF Init, NoSweep
<1> QED
  BY <1>1, <1>2, <1>3, <1>4, InitAsync DEF TimelyInv, LateMeansStopped, Ownership, OneHolder,
     NoPendingTimers, RetryBudget, DeadLetteredOnce, Stopped

(* On time, only the locks and heartbeats of instances that no longer serve*)
(* grow old.                                                               *)
LEMMA NextLate ==
  ASSUME Timely, TypeOK, LateMeansStopped, [Next]_vars
  PROVE  LateMeansStopped'
<1> jobs \in [Instance -> [Place -> Job]]
  BY DEF TypeOK
<1> USE DEF TypeOK, LateMeansStopped, Stopped
<1>1. CASE UNCHANGED <<registry, proc, sweep, jobs>>
  BY <1>1
<1>2. ASSUME NEW i \in Instance, Up(i), UNCHANGED <<registry, proc, sweep>>,
             \A k \in Instance : k # i => jobs'[k] = jobs[k]
      PROVE  LateMeansStopped'
  BY <1>2 DEF Up
<1>3. ASSUME NEW i \in Instance, ClaimNext(i) PROVE LateMeansStopped'
  BY <1>1, <1>2, <1>3 DEF ClaimNext, ClaimTasks, ClaimTask, LoseClaim, Take, local
<1>4. ASSUME NEW i \in Instance, NEW p \in Place, Finish(i, p) \/ FinishFails(i, p)
      PROVE  LateMeansStopped'
  BY <1>2, <1>4 DEF Finish, CompleteTask, FailForRetry, RejectPayload, SelectForDLQ, CommitToDLQ,
     FinishFails, SetJob
<1>5. ASSUME NEW i \in Instance, NEW p \in Place, Abandon(i, p) PROVE LateMeansStopped'
  BY <1>5 DEF Abandon, SetJob
<1>6. ASSUME NEW i \in Instance, Boot(i) PROVE LateMeansStopped'
  BY <1>6 DEF Boot, StaleInstances
<1>7. ASSUME NEW i \in Instance, Register(i) \/ RegisterFails(i) PROVE LateMeansStopped'
  BY <1>7 DEF Register, RegisterFails
<1>8. ASSUME NEW i \in Instance, Shutdown(i) PROVE LateMeansStopped'
  BY <1>8 DEF Shutdown, Up, NoSweep
<1>9. ASSUME NEW i \in Instance, Exit(i) PROVE LateMeansStopped'
  BY <1>9 DEF Exit, IdlePlaces
<1>10. ASSUME NEW i \in Instance, Crash(i) PROVE LateMeansStopped'
  BY <1>10, JobsType DEF Crash, NoSweep
<1>11. ASSUME NEW i \in Instance, Heartbeat(i) PROVE LateMeansStopped'
  BY <1>11 DEF Heartbeat, Up, local
<1>12. ASSUME NEW i \in Instance, MonitorScan(i) PROVE LateMeansStopped'
  BY <1>12 DEF MonitorScan, StaleInstances
<1>13. ASSUME NEW i \in Instance, NEW j \in Instance, SweepRecover(i, j) PROVE LateMeansStopped'
  BY <1>13 DEF SweepRecover
<1>14. ASSUME NEW i \in Instance, SweepDeregister(i) PROVE LateMeansStopped'
  BY <1>14 DEF SweepDeregister
<1>15. ASSUME NEW i \in Instance, SweepFails(i) PROVE LateMeansStopped'
  <2>1. UNCHANGED <<registry, proc, jobs>>
    BY <1>15 DEF SweepFails
  <2>2. \A k \in Instance : /\ sweep'[k].todo \subseteq sweep[k].todo
                           /\ sweep'[k].cur \in {sweep[k].cur, NoInstance}
    BY <1>15 DEF SweepFails
  <2> QED
    BY <2>1, <2>2
<1>16. ASSUME NEW i \in Instance, HeartbeatAges(i) PROVE LateMeansStopped'
  BY <1>16 DEF HeartbeatAges, Stall, Up, Timely, local
<1>17. ASSUME NEW i \in Instance, TryAcquireLeader(i) \/ ReleaseLeader(i) \/ UnlockStaleTasks(i)
       PROVE  LateMeansStopped'
  BY <1>1, <1>17 DEF TryAcquireLeader, ReleaseLeader, UnlockStaleTasks, local
<1>18. ASSUME NEW t \in Task, LockAges(t) \/ RetryDue(t) PROVE LateMeansStopped'
  BY <1>1, <1>18 DEF LockAges, RetryDue, local
<1>19. CASE ClientNext \/ SessionEnds \/ UNCHANGED vars
  BY <1>1, <1>19 DEF ClientNext, Create, UpdateStatus, Retry, SessionEnds, local, vars
<1> QED
  BY <1>3, <1>4, <1>5, <1>6, <1>7, <1>8, <1>9, <1>10, <1>11, <1>12, <1>13, <1>14, <1>15, <1>16,
     <1>17, <1>18, <1>19
  DEF Next, ExecuteNext, MainNext, RecoveryNext, Sweep, TimeNext

\* What a step leaves of a serving worker's job was there before, on the same row.
Keeps(i, p) ==
  (Up(i)' /\ jobs'[i][p].phase # "idle") =>
    /\ Up(i) /\ jobs[i][p].phase # "idle"
    /\ jobs'[i][p].task = jobs[i][p].task
    /\ jobs'[i][p].attempts \in {jobs[i][p].attempts, tasks[jobs[i][p].task].attempts}
    /\ tasks'[jobs[i][p].task] = tasks[jobs[i][p].task]

(* A step that leaves the serving workers' rows and jobs alone keeps their *)
(* ownership.                                                              *)
LEMMA KeptOwnership ==
  ASSUME TypeOK, Ownership, \A i \in Instance, p \in Place : Keeps(i, p)
  PROVE  Ownership'
<1>1. ASSUME NEW i \in Instance, NEW p \in Place, Up(i)', jobs'[i][p].phase # "idle"
      PROVE  /\ LockedRunning(tasks'[jobs'[i][p].task], i)
             /\ tasks'[jobs'[i][p].task].lockedAt = "fresh"
             /\ tasks'[jobs'[i][p].task].attempts = jobs'[i][p].attempts
  BY <1>1 DEF Keeps, Ownership, LockedRunning
<1>2. OneHolder'
  BY DEF Keeps, Ownership, OneHolder
<1> QED
  BY <1>1, <1>2 DEF Ownership, LockedRunning

(* A claim takes rows that no serving worker owns.                         *)
LEMMA TakenOwnership ==
  ASSUME TypeOK, TypeOK', Ownership, NEW i \in Instance, Up(i),
         NEW P \in SUBSET IdlePlaces(i), NEW f \in [P -> ClaimableTasks],
         \A p, q \in P : f[p] = f[q] => p = q,
         Take(i, f)
  PROVE  Ownership'
<1>1. /\ P \subseteq Place
      /\ \A p \in P : jobs[i][p].phase = "idle"
      /\ \A p \in P : f[p] \in Task /\ tasks[f[p]].status = "pending"
  BY DEF IdlePlaces, ClaimableTasks, Claimable
<1>2. DOMAIN f = P /\ proc' = proc
  BY DEF Take
<1>3. \A t \in Task : tasks'[t] = IF \E p \in P : f[p] = t THEN Claimed(tasks[t], i) ELSE tasks[t]
  BY <1>2 DEF Take
<1>4. \A k \in Instance, q \in Place :
        jobs'[k][q] = IF k = i /\ q \in P THEN HeldJob(f[q], tasks[f[q]].attempts) ELSE jobs[k][q]
  BY <1>2 DEF Take, TypeOK
<1>5. ASSUME NEW q \in P
      PROVE  /\ jobs'[i][q].task = f[q] /\ jobs'[i][q].attempts = tasks[f[q]].attempts
             /\ tasks'[f[q]].status = "running" /\ tasks'[f[q]].lockedBy = i
             /\ tasks'[f[q]].lockedAt = "fresh" /\ tasks'[f[q]].attempts = tasks[f[q]].attempts
  <2>1. tasks[f[q]] \in Row /\ tasks[f[q]].attempts \in Nat /\ f[q] \in Task
    BY <1>1, RowsType DEF TypeOK
  <2>2. tasks'[f[q]] = Claimed(tasks[f[q]], i) /\ jobs'[i][q] = HeldJob(f[q], tasks[f[q]].attempts)
    BY <1>1, <1>3, <1>4
  <2> QED
    BY <2>1, <2>2, RowsFields, JobsType
<1>6. ASSUME NEW k \in Instance, NEW q \in Place, ~ (k = i /\ q \in P),
             Up(k)', jobs'[k][q].phase # "idle"
      PROVE  /\ Up(k) /\ jobs'[k][q] = jobs[k][q] /\ jobs[k][q].task \in Task
             /\ tasks'[jobs[k][q].task] = tasks[jobs[k][q].task]
             /\ \A p \in P : f[p] # jobs[k][q].task
  <2>1. Up(k) /\ jobs'[k][q] = jobs[k][q] /\ jobs[k][q].phase # "idle"
    BY <1>2, <1>4, <1>6 DEF Up
  <2>2. jobs[k][q].task \in Task
    BY <2>1, ActiveJob DEF TypeOK
  <2>3. tasks[jobs[k][q].task].status = "running"
    BY <2>1 DEF Ownership, LockedRunning
  <2>4. \A p \in P : f[p] # jobs[k][q].task
    BY <1>1, <2>3
  <2> QED
    BY <1>3, <2>1, <2>2, <2>4
<1>7. ASSUME NEW k \in Instance, NEW q \in Place, Up(k)', jobs'[k][q].phase # "idle"
      PROVE  /\ LockedRunning(tasks'[jobs'[k][q].task], k)
             /\ tasks'[jobs'[k][q].task].lockedAt = "fresh"
             /\ tasks'[jobs'[k][q].task].attempts = jobs'[k][q].attempts
  <2>1. CASE k = i /\ q \in P
    BY <1>5, <2>1 DEF LockedRunning
  <2>2. CASE ~ (k = i /\ q \in P)
    BY <1>6, <1>7, <2>2 DEF Ownership, LockedRunning
  <2> QED
    BY <2>1, <2>2
<1>8. ASSUME NEW k \in Instance, NEW l \in Instance, NEW p \in Place, NEW q \in Place,
             Up(k)', jobs'[k][p].phase # "idle", Up(l)', jobs'[l][q].phase # "idle",
             jobs'[k][p].task = jobs'[l][q].task
      PROVE  k = l /\ p = q
  <2>1. CASE k = i /\ p \in P /\ l = i /\ q \in P
    BY <1>5, <1>8, <2>1
  <2>2. CASE k = i /\ p \in P /\ ~ (l = i /\ q \in P)
    BY <1>5, <1>6, <1>8, <2>2
  <2>3. CASE ~ (k = i /\ p \in P) /\ l = i /\ q \in P
    BY <1>5, <1>6, <1>8, <2>3
  <2>4. CASE ~ (k = i /\ p \in P) /\ ~ (l = i /\ q \in P)
    BY <1>6, <1>8, <2>4 DEF Ownership, OneHolder
  <2> QED
    BY <2>1, <2>2, <2>3, <2>4
<1> QED
  BY <1>7, <1>8 DEF Ownership, OneHolder, LockedRunning

(* On time, no step of another instance or of the recovery takes a row from*)
(* a serving worker.                                                       *)
LEMMA NextOwnership ==
  ASSUME Timely, TypeOK, TypeOK', LateMeansStopped, Ownership, NoPendingTimers, [Next]_vars
  PROVE  Ownership'
<1> tasks \in [Task -> Row] /\ jobs \in [Instance -> [Place -> Job]]
  BY DEF TypeOK
<1> DEFINE AllKept == \A i \in Instance, p \in Place : Keeps(i, p)
<1>1. ASSUME NEW i \in Instance, NEW p \in Place, Up(i), jobs[i][p].phase # "idle"
      PROVE  /\ jobs[i][p].task \in Task
             /\ LockedRunning(tasks[jobs[i][p].task], i)
             /\ tasks[jobs[i][p].task].lockedAt = "fresh"
             /\ tasks[jobs[i][p].task].nextRetryAt # "future"
  BY <1>1, ActiveJob DEF Ownership, LockedRunning, NoPendingTimers
\* A step of the table that leaves the rows of serving workers alone.
<1>2. ASSUME UNCHANGED <<proc, jobs>>,
             \A i \in Instance, p \in Place :
               (Up(i) /\ jobs[i][p].phase # "idle")
                 => tasks'[jobs[i][p].task] = tasks[jobs[i][p].task]
      PROVE  AllKept
  BY <1>2 DEF Keeps, Up
\* A step that touches no row: instances stop to serve, jobs end.
<1>3. ASSUME UNCHANGED tasks,
             \A i \in Instance, p \in Place :
               (Up(i)' /\ jobs'[i][p].phase # "idle") => Up(i) /\ jobs'[i][p] = jobs[i][p]
      PROVE  AllKept
  BY <1>3 DEF Keeps
<1>4. ASSUME NEW t \in Task, Create(t) \/ \E d \in DeadId : Retry(d, t) PROVE AllKept
  <2>1. tasks[t].status = "unborn" /\ tasks' = [tasks EXCEPT ![t] = NewRow]
    BY <1>4 DEF Create, Retry
  <2>2. UNCHANGED <<proc, jobs>>
    BY <1>4 DEF Create, Retry, local
  <2> QED
    BY <1>1, <1>2, <2>1, <2>2 DEF LockedRunning
<1>5. ASSUME NEW i \in Instance, ClaimTasks(i) PROVE Ownership'
  <2>1. Up(i)
    BY <1>5 DEF ClaimTasks
  <2>2. PICK P \in SUBSET IdlePlaces(i) :
          \E f \in [P -> ClaimableTasks] : (\A p, q \in P : f[p] = f[q] => p = q) /\ Take(i, f)
    BY <1>5 DEF ClaimTasks
  <2> QED
    BY <2>1, <2>2, TakenOwnership
<1>6. ASSUME NEW i \in Instance, NEW p \in Place, NEW t \in Task, ClaimTask(i, p, t)
      PROVE  Ownership'
  <2> DEFINE f == [q \in {p} |-> t]
  <2>1. Up(i) /\ {p} \in SUBSET IdlePlaces(i) /\ t \in ClaimableTasks /\ Take(i, f)
    BY <1>6 DEF ClaimTask
  <2>2. f \in [{p} -> ClaimableTasks] /\ \A q, r \in {p} : f[q] = f[r] => q = r
    BY <2>1
  <2> HIDE DEF f
  <2> QED
    BY <2>1, <2>2, TakenOwnership
<1>7. ASSUME NEW i \in Instance, NEW batch \in SUBSET ClaimableTasks, LoseClaim(i, batch)
      PROVE  AllKept
  <2>1. \A t \in Task : tasks[t].status # "pending" => tasks'[t] = tasks[t]
    BY <1>7 DEF LoseClaim, ClaimableTasks, Claimable
  <2>2. UNCHANGED <<proc, jobs>>
    BY <1>7 DEF LoseClaim, local
  <2> QED
    BY <1>1, <1>2, <2>1, <2>2 DEF LockedRunning
<1>8. ASSUME NEW i \in Instance, NEW p \in Place,
             CompleteTask(i, p) \/ FailForRetry(i, p) \/ RejectPayload(i, p) \/ CommitToDLQ(i, p)
      PROVE  AllKept
  <2>1. /\ Up(i) /\ jobs[i][p].phase # "idle" /\ SetJob(i, p, NoJob) /\ UNCHANGED proc
        /\ \A t \in Task : t # jobs[i][p].task => tasks'[t] = tasks[t]
    BY <1>8 DEF CompleteTask, FailForRetry, RejectPayload, CommitToDLQ, Update
  <2>2. \A k \in Instance, q \in Place :
          jobs'[k][q] = IF k = i /\ q = p THEN NoJob ELSE jobs[k][q]
    BY <2>1, SetJobType, JobsType
  <2>3. ASSUME NEW k \in Instance, NEW q \in Place, Up(k)', jobs'[k][q].phase # "idle"
        PROVE  /\ Up(k) /\ jobs'[k][q] = jobs[k][q]
               /\ tasks'[jobs[k][q].task] = tasks[jobs[k][q].task]
    <3>1. Up(k) /\ ~ (k = i /\ q = p) /\ jobs'[k][q] = jobs[k][q]
      BY <2>1, <2>2, <2>3, JobsType DEF Up
    <3>2. jobs[k][q].task # jobs[i][p].task
      BY <2>1, <2>3, <3>1 DEF Ownership, OneHolder
    <3> QED
      BY <1>1, <2>1, <2>3, <3>1, <3>2
  <2> QED
    BY <2>3 DEF Keeps
<1>9. ASSUME NEW i \in Instance, NEW p \in Place, SelectForDLQ(i, p) PROVE AllKept
  <2> DEFINE t == jobs[i][p].task
  <2>1. /\ UNCHANGED <<tasks, proc>> /\ t \in Task /\ tasks[t].attempts \in Nat
        /\ jobs[i][p].phase # "idle"
    BY <1>9, ActiveJob, RowsType DEF SelectForDLQ
  <2>2. PICK job \in {Moving(t, tasks[t].attempts), NoJob} : SetJob(i, p, job)
    BY <1>9 DEF SelectForDLQ
  <2>3. job \in Job /\ (job.phase # "idle" => job.task = t /\ job.attempts = tasks[t].attempts)
    BY <2>1, <2>2, JobsType
  <2>4. \A k \in Instance, q \in Place :
          jobs'[k][q] = IF k = i /\ q = p THEN job ELSE jobs[k][q]
    BY <2>2, <2>3, SetJobType
  <2> QED
    BY <2>1, <2>3, <2>4 DEF Keeps, Up
<1>10. ASSUME NEW i \in Instance, NEW p \in Place, FinishFails(i, p) \/ Abandon(i, p)
       PROVE  AllKept
  <2>1. SetJob(i, p, NoJob) /\ UNCHANGED <<tasks, proc>>
    BY <1>10 DEF FinishFails, Abandon
  <2>2. \A k \in Instance, q \in Place :
          jobs'[k][q] = IF k = i /\ q = p THEN NoJob ELSE jobs[k][q]
    BY <2>1, SetJobType, JobsType
  <2> QED
    BY <1>3, <2>1, <2>2, JobsType DEF Up
<1>11. ASSUME NEW i \in Instance, MainNext(i) PROVE AllKept
  <2>1. UNCHANGED tasks
    BY <1>11 DEF MainNext, Boot, Register, RegisterFails, Shutdown, ReleaseLeader, Exit, Crash
  <2>2. ASSUME NEW k \in Instance, NEW q \in Place, Up(k)', jobs'[k][q].phase # "idle"
        PROVE  jobs'[k][q] = jobs[k][q]
    BY <1>11, <2>2, JobsType DEF MainNext, Boot, Register, RegisterFails, Shutdown, ReleaseLeader, Exit, Crash
  <2>3. ASSUME NEW k \in Instance, NEW q \in Place, Up(k)', jobs'[k][q].phase # "idle"
        PROVE  Up(k)
    <3>1. jobs[k][q].phase # "idle"
      BY <2>2, <2>3
    <3>2. proc[k] # "starting"
      BY <3>1 DEF LateMeansStopped
    <3> QED
      BY <1>11, <2>3, <3>2 DEF MainNext, Boot, Register, RegisterFails, Shutdown, ReleaseLeader, Exit, Crash, Up,
         TypeOK
  <2> QED
    BY <1>3, <2>1, <2>2, <2>3
<1>12. ASSUME NEW i \in Instance, NEW j \in Instance, SweepRecover(i, j) PROVE AllKept
  <2>1. Stopped(j) /\ UNCHANGED <<proc, jobs>>
    BY <1>12 DEF SweepRecover, LateMeansStopped
  <2>2. \A t \in Task : ~ LockedRunning(tasks[t], j) => tasks'[t] = tasks[t]
    BY <1>12 DEF SweepRecover
  <2> QED
    BY <1>1, <1>2, <2>1, <2>2 DEF Stopped, Up, LockedRunning
<1>13. ASSUME NEW i \in Instance, UnlockStaleTasks(i) PROVE AllKept
  <2>1. \A t \in Task : tasks[t].lockedAt = "fresh" => tasks'[t] = tasks[t]
    BY <1>13 DEF UnlockStaleTasks, StaleLock
  <2>2. UNCHANGED <<proc, jobs>>
    BY <1>13 DEF UnlockStaleTasks, local
  <2> QED
    BY <1>1, <1>2, <2>1, <2>2
<1>14. ASSUME NEW t \in Task, LockAges(t) PROVE AllKept
  <2>1. \A i \in Instance, p \in Place : ~ (Up(i) /\ Held(i, p, t))
    BY <1>14 DEF LockAges, Stall, Timely, TypeOK
  <2>2. \A u \in Task : u # t => tasks'[u] = tasks[u]
    BY <1>14 DEF LockAges
  <2>3. UNCHANGED <<proc, jobs>>
    BY <1>14 DEF LockAges, local
  <2> QED
    BY <1>1, <1>2, <2>1, <2>2, <2>3 DEF Held
<1>15. ASSUME NEW t \in Task, RetryDue(t) PROVE AllKept
  <2>1. tasks[t].nextRetryAt = "future" /\ \A u \in Task : u # t => tasks'[u] = tasks[u]
    BY <1>15 DEF RetryDue
  <2>2. UNCHANGED <<proc, jobs>>
    BY <1>15 DEF RetryDue, local
  <2> QED
    BY <1>1, <1>2, <2>1, <2>2
<1>16. ASSUME UNCHANGED <<tasks, proc, jobs>> PROVE AllKept
  BY <1>16 DEF Keeps, Up
<1>17. ASSUME NEW i \in Instance,
              \/ Heartbeat(i) \/ TryAcquireLeader(i) \/ MonitorScan(i) \/ SweepDeregister(i)
              \/ SweepFails(i) \/ HeartbeatAges(i)
       PROVE  AllKept
  <2>1. UNCHANGED <<tasks, proc, jobs>>
    BY <1>17 DEF Heartbeat, TryAcquireLeader, MonitorScan, SweepDeregister, SweepFails,
       HeartbeatAges, local
  <2> QED
    BY <1>16, <2>1
<1>18. ASSUME SessionEnds \/ UNCHANGED vars PROVE AllKept
  BY <1>16, <1>18 DEF SessionEnds, local, vars
<1>19. AllKept \/ Ownership'
  <2> HIDE DEF AllKept
  <2>1. CASE ClientNext
    BY <1>4, <2>1 DEF ClientNext, Timely
  <2>2. ASSUME NEW i \in Instance, ClaimNext(i) PROVE AllKept \/ Ownership'
    BY <1>5, <1>6, <1>7, <2>2 DEF ClaimNext
  <2>3. ASSUME NEW i \in Instance, ExecuteNext(i) PROVE AllKept
    BY <1>8, <1>9, <1>10, <2>3 DEF ExecuteNext, Finish
  <2>4. ASSUME NEW i \in Instance, RecoveryNext(i) PROVE AllKept
    BY <1>12, <1>13, <1>17, <2>4 DEF RecoveryNext, Sweep
  <2>5. CASE TimeNext
    BY <1>14, <1>15, <1>17, <2>5 DEF TimeNext
  <2> QED
    BY <1>11, <1>18, <2>1, <2>2, <2>3, <2>4, <2>5 DEF Next
<1> QED
  BY <1>19, KeptOwnership

\* RowStep, when a serving worker owns the row of its task.
TimelyRowStep(r, s) ==
  \/ s = r
  \/ r.status = "unborn" /\ s = NewRow
  \/ Claimable(r) /\ \E i \in Instance : s = Claimed(r, i)
  \/ r.status = "running" /\ s \in {Completed(r), FailedForGood(r), Deleted, Released(r)}
  \/ r.status = "running" /\ s = FailedForRetry(r) /\ ~ LastAttempt(r.attempts)
  \/ r.lockedAt = "fresh" /\ s = [r EXCEPT !.lockedAt = "stale"]
  \/ r.nextRetryAt = "future" /\ s = [r EXCEPT !.nextRetryAt = "due"]

(* On time, a statement that settles a row finds it running, and locked by *)
(* its own worker.                                                         *)
LEMMA TimelyRowSteps ==
  ASSUME Timely, TypeOK, Ownership, [Next]_vars, NEW t \in Task
  PROVE  TimelyRowStep(tasks[t], tasks'[t])
<1>1. RowStep(t, tasks[t], tasks'[t])
  BY RowSteps
<1>2. \A i \in Instance, p \in Place :
        Up(i) /\ Held(i, p, t) => /\ tasks[t].status = "running"
                                 /\ tasks[t].attempts = jobs[i][p].attempts
  BY DEF Ownership, LockedRunning, Held
<1> QED
  BY <1>1, <1>2 DEF RowStep, OwnStep, TimelyRowStep, Timely

(* On time, a settled row stays as it is, waits for no time, and a queued  *)
(* one has an attempt left.                                                *)
LEMMA TimelyRowFacts ==
  ASSUME NEW r \in Row, NEW s \in Row, TimelyRowStep(r, s),
         r.status \in {"completed", "failed"} => r.lockedAt = "null",
         r.status \in {"running", "completed", "failed"} => r.nextRetryAt # "future",
         r.status \in {"pending", "running"} => r.attempts < MaxRetries
  PROVE  /\ r.status \in {"completed", "failed"} => s = r
         /\ s.status \in {"completed", "failed"} => s.lockedAt = "null"
         /\ s.status \in {"running", "completed", "failed"} => s.nextRetryAt # "future"
         /\ s.status \in {"pending", "running"} => s.attempts < MaxRetries
<1> r.attempts \in Nat /\ s.attempts \in Nat
  BY RowsType
<1>1. CASE s = r
  BY <1>1
<1>2. CASE r.status = "unborn" /\ s = NewRow
  BY <1>2 DEF NewRow, EmptyRow
<1>3. CASE Claimable(r) /\ \E i \in Instance : s = Claimed(r, i)
  BY <1>3, RowsFields DEF Claimable
<1>4. CASE r.status = "running" /\ s \in {Completed(r), FailedForGood(r), Deleted, Released(r)}
  <2>1. Deleted.status = "gone"
    BY DEF Deleted, EmptyRow
  <2> QED
    BY <1>4, <2>1, RowsFields
<1>5. CASE r.status = "running" /\ s = FailedForRetry(r) /\ ~ LastAttempt(r.attempts)
  BY <1>5, RowsFields DEF LastAttempt
<1>6. CASE r.lockedAt = "fresh" /\ s = [r EXCEPT !.lockedAt = "stale"]
  BY <1>6 DEF Row
<1>7. CASE r.nextRetryAt = "future" /\ s = [r EXCEPT !.nextRetryAt = "due"]
  BY <1>7 DEF Row
<1> QED
  BY <1>1, <1>2, <1>3, <1>4, <1>5, <1>6, <1>7 DEF TimelyRowStep

(* The invariant of timely behaviours survives every step.                 *)
LEMMA NextTimely ==
  ASSUME Timely, TimelyInv, [Next]_vars
  PROVE  TimelyInv' /\ \A t \in Task : tasks[t].status \in {"completed", "failed"}
                                        => tasks'[t] = tasks[t]
<1>1. /\ AsyncInv /\ TypeOK /\ LateMeansStopped /\ Ownership /\ NoPendingTimers
      /\ RetryBudget /\ DeadLetteredOnce /\ NoTaskLost
  BY DEF TimelyInv, AsyncInv
<1>2. AsyncInv' /\ TypeOK'
  BY <1>1, NextAsync DEF AsyncInv
<1>3. LateMeansStopped' /\ Ownership'
  BY <1>1, <1>2, NextLate, NextOwnership
<1>4. ASSUME NEW t \in Task
      PROVE  LET r == tasks[t]
                 s == tasks'[t]
             IN /\ r.status \in {"completed", "failed"} => s = r
                /\ s.status \in {"completed", "failed"} => s.lockedAt = "null"
                /\ s.status \in {"running", "completed", "failed"} => s.nextRetryAt # "future"
                /\ s.status \in {"pending", "running"} => s.attempts < MaxRetries
  <2>1. TimelyRowStep(tasks[t], tasks'[t])
    BY <1>1, TimelyRowSteps
  <2>2. tasks[t] \in Row /\ tasks'[t] \in Row
    BY <1>1, <1>2 DEF TypeOK
  <2>3. /\ tasks[t].status \in {"completed", "failed"} => tasks[t].lockedAt = "null"
        /\ tasks[t].status \in {"running", "completed", "failed"} => tasks[t].nextRetryAt # "future"
        /\ tasks[t].status \in {"pending", "running"} => tasks[t].attempts < MaxRetries
    BY <1>1 DEF NoPendingTimers, RetryBudget
  <2> QED
    BY <2>1, <2>2, <2>3, TimelyRowFacts
<1>5. NoPendingTimers'
  BY <1>4 DEF NoPendingTimers
<1>6. /\ \A d \in DeadId : dlq'[d].attempts < MaxRetries
      /\ DeadLetteredOnce'
  <2>1. CASE SameLetters
    BY <1>1, <2>1 DEF SameLetters, RetryBudget, DeadLetteredOnce
  <2>2. ASSUME NEW i \in Instance, NEW p \in Place, CommitToDLQ(i, p)
        PROVE  (\A d \in DeadId : dlq'[d].attempts < MaxRetries) /\ DeadLetteredOnce'
    <3> DEFINE t == jobs[i][p].task
               n == jobs[i][p].attempts
    <3>1. t \in Task /\ tasks[t].status = "running" /\ n = tasks[t].attempts
      BY <1>1, <2>2, ActiveJob DEF CommitToDLQ, Ownership, LockedRunning, TypeOK
    <3>2. n < MaxRetries /\ \A d \in DeadId : dlq[d].orig # t
      BY <1>1, <3>1 DEF RetryBudget, NoTaskLost
    <3>3. PICK d \in DeadId : dlq[d] = NoEntry /\ dlq' = [dlq EXCEPT ![d] = Entry(t, n)]
      BY <2>2 DEF CommitToDLQ
    <3>4. Entry(t, n).orig = t /\ Entry(t, n).attempts = n
      BY DEF Entry
    <3>5. dlq \in [DeadId -> DeadLetter]
      BY <1>1 DEF TypeOK
    <3>6. \A e \in DeadId : dlq'[e] = IF e = d THEN Entry(t, n) ELSE dlq[e]
      BY <3>3, <3>5
    <3> HIDE DEF t, n
    <3> QED
      BY <1>1, <3>2, <3>4, <3>6 DEF RetryBudget, DeadLetteredOnce
  <2> QED
    BY <1>1, <2>1, <2>2, DeadLetterSteps
<1>7. RetryBudget'
  BY <1>4, <1>6 DEF RetryBudget
<1> QED
  BY <1>2, <1>3, <1>4, <1>5, <1>6, <1>7 DEF TimelyInv

(* On time and without PATCH, rows, workers, registry and dead letters     *)
(* agree as TimelyInv says.                                                *)
THEOREM TimelyInvariant == ASSUME Timely PROVE Spec => []TimelyInv
<1>1. TimelyInv /\ [Next]_vars => TimelyInv'
  BY NextTimely
<1> QED
  BY <1>1, InitTimely, PTL DEF Spec

(* On time and without PATCH, a serving worker owns the row of its task.     *)
THEOREM HoldersOwn == ASSUME Timely PROVE Spec => []LiveHolderOwnsRow
<1>1. TimelyInv => LiveHolderOwnsRow
  BY DEF TimelyInv, Ownership, LiveHolderOwnsRow
<1> QED
  BY <1>1, TimelyInvariant, PTL

(* On time and without PATCH, no two serving workers have the same task.     *)
THEOREM HoldersAreUnique == ASSUME Timely PROVE Spec => []OneHolder
<1>1. TimelyInv => OneHolder
  BY DEF TimelyInv, Ownership
<1> QED
  BY <1>1, TimelyInvariant, PTL

(* On time and without PATCH, a settled task stays as it is.                 *)
THEOREM SettledStays == ASSUME Timely PROVE Spec => SettledIsFinal
<1>1. ASSUME TimelyInv, [Next]_vars
      PROVE  [\A t \in Task : tasks[t].status \in {"completed", "failed"}
                              => tasks'[t] = tasks[t]]_vars
  BY <1>1, NextTimely
<1> QED
  BY <1>1, TimelyInvariant, PTL DEF Spec, SettledIsFinal

(* On time and without PATCH, recoveries cost a task none of its attempts.   *)
THEOREM BudgetKept == ASSUME Timely PROVE Spec => []RetryBudget
<1>1. TimelyInv => RetryBudget
  BY DEF TimelyInv
<1> QED
  BY <1>1, TimelyInvariant, PTL

(* On time and without PATCH, no task has two dead-letter entries.           *)
THEOREM DiesOnce == ASSUME Timely PROVE Spec => []DeadLetteredOnce
<1>1. TimelyInv => DeadLetteredOnce
  BY DEF TimelyInv
<1> QED
  BY <1>1, TimelyInvariant, PTL
=============================================================================
