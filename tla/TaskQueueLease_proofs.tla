----------------------- MODULE TaskQueueLease_proofs -----------------------
(***************************************************************************)
(* On time and without PATCH, every step of TaskQueue is a step of the     *)
(* leases or leaves them alone.  AtWork, which maps the workers, is        *)
(* followed through the steps that change jobs or processes; TimelyInv     *)
(* says that whoever is at work owns the row.                              *)
(***************************************************************************)
EXTENDS TaskQueueLease, TaskQueue_proofs

\* TaskLease!TaskNext and Keep, on a task's rows r, s and workers W, V, before
\* and after the step.
LeaseStep(r, s, W, V) ==
  \/ s.status = r.status /\ s.attempts = r.attempts /\ V = W
  \/ /\ r.status = "unborn" /\ s.status = "pending"
     /\ s.attempts = r.attempts
     /\ W = {} /\ V = {}
  \/ /\ r.status = "pending" /\ s.status = "running"
     /\ s.attempts = r.attempts
     /\ W = {}
     /\ V = {} \/ \E w \in Instance \X Place : V = {w}
  \/ /\ r.status = "running"
     /\ \E w \in Instance \X Place : W = {w}
     /\ V = {}
     /\ \/ s.status \in {"completed", "failed"} /\ s.attempts \in {r.attempts, r.attempts + 1}
        \/ s.status = "pending" /\ s.attempts = r.attempts + 1 /\ r.attempts + 1 < MaxRetries
        \/ s.status = "gone" /\ s.attempts = 0 /\ r.attempts + 1 >= MaxRetries
        \/ s.status = "running" /\ s.attempts = r.attempts
  \/ /\ r.status = "running" /\ s.status = "pending"
     /\ s.attempts = r.attempts
     /\ W = {} /\ V = {}

(* The statuses of rows, as the leases call them.                          *)
LEMMA LeaseStates ==
  /\ LeaseState["unborn"] = "new" /\ LeaseState["pending"] = "free"
  /\ LeaseState["running"] = "leased" /\ LeaseState["gone"] = "dead"
  /\ LeaseState["completed"] = "settled" /\ LeaseState["failed"] = "settled"
  BY DEF LeaseState

(* LeaseStep is what TaskLease allows a task.                              *)
LEMMA Bridge ==
  ASSUME NEW t \in Task, LeaseStep(tasks[t], tasks'[t], AtWork(t), AtWork(t)')
  PROVE  Leases!TaskNext(t) \/ Leases!Keep(t)
<1> DEFINE state    == [u \in Task |-> LeaseState[tasks[u].status]]
           workers  == [u \in Task |-> AtWork(u)]
           failures == [u \in Task |-> tasks[u].attempts]
<1>1. /\ state[t] = LeaseState[tasks[t].status]
      /\ state'[t] = LeaseState[tasks'[t].status]
      /\ workers[t] = AtWork(t) /\ workers'[t] = AtWork(t)'
      /\ failures[t] = tasks[t].attempts /\ failures'[t] = tasks'[t].attempts
  OBVIOUS
<1> HIDE DEF state, workers, failures
<1> QED
  BY <1>1, LeaseStates
  DEF LeaseStep, state, workers, failures, Leases!TaskNext, Leases!Keep, Leases!Submit,
      Leases!Lease, Leases!Ends, Leases!Settle, Leases!GiveBack, Leases!Bury, Leases!Drop,
      Leases!Revoke

(* Who is at work on a task owns its row, alone.                           *)
LEMMA Working ==
  ASSUME TypeOK, Ownership, NEW t \in Task, NEW w \in AtWork(t)
  PROVE  /\ w \in Instance \X Place
         /\ AtWork(t) = {w}
         /\ tasks[t].status = "running" /\ tasks[t].lockedBy = w[1]
         /\ tasks[t].lockedAt = "fresh"
         /\ Up(w[1]) /\ Held(w[1], w[2], t)
<1>1. \A v \in AtWork(t) : /\ v = <<v[1], v[2]>> /\ v[1] \in Instance /\ v[2] \in Place
                           /\ Up(v[1]) /\ Held(v[1], v[2], t)
  BY DEF AtWork
<1>2. \A v \in AtWork(t) : v = w
  BY <1>1 DEF Ownership, OneHolder, Held
<1>3. /\ tasks[t].status = "running" /\ tasks[t].lockedBy = w[1]
      /\ tasks[t].lockedAt = "fresh"
  BY <1>1 DEF Ownership, LockedRunning, Held
<1> QED
  BY <1>1, <1>2, <1>3

(* Nobody is at work on a row that is not running, or whose lock is old.   *)
LEMMA Unattended ==
  ASSUME TypeOK, Ownership, NEW t \in Task,
         tasks[t].status # "running" \/ tasks[t].lockedAt = "stale" \/ ~ Up(tasks[t].lockedBy)
  PROVE  AtWork(t) = {}
  BY Working

(* A step that touches neither jobs nor processes moves no worker.         *)
LEMMA SameWork ==
  ASSUME NEW t \in Task, UNCHANGED <<jobs, proc>> PROVE AtWork(t)' = AtWork(t)
  BY DEF AtWork, Up, Held

(* A job that ends takes its worker off its task, and off no other.        *)
LEMMA JobEnds ==
  ASSUME TypeOK, Ownership, NEW i \in Instance, NEW p \in Place,
         Up(i), jobs[i][p].phase # "idle", SetJob(i, p, NoJob), proc' = proc,
         NEW t \in Task
  PROVE  IF t = jobs[i][p].task THEN AtWork(t) = {<<i, p>>} /\ AtWork(t)' = {}
                                ELSE AtWork(t)' = AtWork(t)
<1>1. \A k \in Instance, q \in Place :
        jobs'[k][q] = IF k = i /\ q = p THEN NoJob ELSE jobs[k][q]
  BY JobsType, SetJobType DEF TypeOK
<1>2. NoJob.phase = "idle"
  BY JobsType
<1>3. AtWork(t)' = AtWork(t) \ {<<i, p>>}
  BY <1>1, <1>2 DEF AtWork, Up, Held
<1>4. <<i, p>> \in AtWork(t) <=> t = jobs[i][p].task
  BY DEF AtWork, Held
<1>5. CASE t = jobs[i][p].task
  <2>1. AtWork(t) = {<<i, p>>}
    BY <1>4, <1>5, Working
  <2> QED
    BY <1>3, <1>5, <2>1
<1>6. CASE t # jobs[i][p].task
  BY <1>3, <1>4, <1>6
<1> QED
  BY <1>5, <1>6

(* What the statements that no job makes do to a row is allowed by the     *)
(* lease of its task.                                                      *)
LEMMA RowStepsAlone ==
  ASSUME TypeOK, Ownership, NEW t \in Task, UNCHANGED <<jobs, proc>>,
         LET r == tasks[t]
             s == tasks'[t]
         IN \/ s = r
            \/ r.status = "unborn" /\ s = NewRow /\ r.attempts = 0
            \/ r.status = "pending" /\ \E i \in Instance : s = Claimed(r, i)
            \/ r.status = "running" /\ s = Released(r) /\ AtWork(t) = {}
            \/ s = [r EXCEPT !.lockedAt = "stale"]
            \/ s = [r EXCEPT !.nextRetryAt = "due"]
  PROVE  LeaseStep(tasks[t], tasks'[t], AtWork(t), AtWork(t)')
<1>1. AtWork(t)' = AtWork(t)
  BY SameWork
<1>2. tasks[t].status # "running" => AtWork(t) = {}
  BY Unattended
<1>3. tasks[t] \in Row
  BY DEF TypeOK
<1>4. NewRow.status = "pending" /\ NewRow.attempts = 0
  BY DEF NewRow, EmptyRow
<1>5. /\ Released(tasks[t]).status = "pending"
      /\ Released(tasks[t]).attempts = tasks[t].attempts
      /\ \A i \in Instance : /\ Claimed(tasks[t], i).status = "running"
                             /\ Claimed(tasks[t], i).attempts = tasks[t].attempts
  BY <1>3, RowsFields
<1>6. LET s == [tasks[t] EXCEPT !.lockedAt = "stale"]
          u == [tasks[t] EXCEPT !.nextRetryAt = "due"]
      IN /\ s.status = tasks[t].status /\ s.attempts = tasks[t].attempts
         /\ u.status = tasks[t].status /\ u.attempts = tasks[t].attempts
  BY <1>3 DEF Row
<1> QED
  BY <1>1, <1>2, <1>4, <1>5, <1>6 DEF LeaseStep

\* A row that was never inserted counts no failures.
UnbornIsClean == \A t \in Task : tasks[t].status = "unborn" => tasks[t].attempts = 0

LeaseInv == TimelyInv /\ UnbornIsClean

(* The invariant of the refinement holds of the empty tables.              *)
LEMMA InitLease == Init => LeaseInv
  BY InitTimely DEF Init, LeaseInv, UnbornIsClean, Unborn, EmptyRow

(* It survives every step on time.                                         *)
LEMMA NextLeaseInv ==
  ASSUME Timely, LeaseInv, [Next]_vars
  PROVE  LeaseInv'
<1>1. TimelyInv /\ TypeOK /\ Ownership /\ UnbornIsClean
  BY DEF LeaseInv, TimelyInv, AsyncInv
<1>2. TimelyInv'
  BY <1>1, NextTimely
<1>3. ASSUME NEW t \in Task, tasks'[t].status = "unborn" PROVE tasks'[t].attempts = 0
  <2>1. tasks[t] \in Row
    BY <1>1 DEF TypeOK
  <2>2. TimelyRowStep(tasks[t], tasks'[t])
    BY <1>1, TimelyRowSteps
  <2>3. NewRow.status = "pending" /\ Deleted.status = "gone"
    BY DEF NewRow, Deleted, EmptyRow
  <2>4. tasks[t].status = "unborn" => tasks[t].attempts = 0
    BY <1>1 DEF UnbornIsClean
  <2>5. /\ \A i \in Instance : Claimed(tasks[t], i).status = "running"
        /\ Completed(tasks[t]).status = "completed" /\ FailedForGood(tasks[t]).status = "failed"
        /\ FailedForRetry(tasks[t]).status = "pending" /\ Released(tasks[t]).status = "pending"
    BY <2>1, RowsFields
  <2>6. CASE tasks'[t] \in {tasks[t], [tasks[t] EXCEPT !.lockedAt = "stale"],
                            [tasks[t] EXCEPT !.nextRetryAt = "due"]}
    BY <1>3, <2>1, <2>4, <2>6 DEF Row
  <2> QED
    BY <1>3, <2>2, <2>3, <2>5, <2>6 DEF TimelyRowStep
<1> QED
  BY <1>2, <1>3 DEF LeaseInv, UnbornIsClean

(* The places at work on a task.                                           *)
LEMMA AtWorkPlaces ==
  ASSUME NEW t \in Task, NEW k \in Instance, NEW q \in Place
  PROVE  <<k, q>> \in AtWork(t) <=> Up(k) /\ Held(k, q, t)
  BY DEF AtWork

(* A claim leases what it takes to one place, and nothing else.            *)
LEMMA TakeLeases ==
  ASSUME TypeOK, Ownership, NEW i \in Instance, Up(i),
         NEW P \in SUBSET IdlePlaces(i), NEW f \in [P -> ClaimableTasks],
         \A p, q \in P : f[p] = f[q] => p = q,
         Take(i, f), NEW t \in Task
  PROVE  LeaseStep(tasks[t], tasks'[t], AtWork(t), AtWork(t)')
<1>1. /\ P \in SUBSET Place
      /\ \A p \in P : jobs[i][p].phase = "idle"
      /\ \A p \in P : f[p] \in Task /\ tasks[f[p]].status = "pending"
  BY DEF IdlePlaces, ClaimableTasks, Claimable
<1>2. f \in [P -> Task] /\ tasks[t] \in Row /\ proc' = proc
  BY <1>1 DEF TypeOK, Take
<1>3. /\ tasks'[t] = IF \E p \in P : f[p] = t THEN Claimed(tasks[t], i) ELSE tasks[t]
      /\ \A k \in Instance, q \in Place :
           jobs'[k][q] = IF k = i /\ q \in P THEN HeldJob(f[q], tasks[f[q]].attempts)
                                             ELSE jobs[k][q]
  <2>1. DOMAIN f = P
    OBVIOUS
  <2>2. tasks'[t] = IF \E p \in P : f[p] = t THEN Claimed(tasks[t], i) ELSE tasks[t]
    BY <2>1 DEF Take
  <2>3. \A k \in Instance, q \in Place :
          jobs'[k][q] = IF k = i /\ q \in P THEN HeldJob(f[q], tasks[f[q]].attempts)
                                            ELSE jobs[k][q]
    BY <2>1 DEF Take, TypeOK
  <2> QED
    BY <2>2, <2>3
<1>4. \A q \in P : tasks[f[q]].attempts \in Nat
  BY <1>1, RowsType DEF TypeOK
<1>5. \A q \in P : jobs'[i][q].phase = "held" /\ jobs'[i][q].task = f[q]
  BY <1>1, <1>3, <1>4, JobsType
<1>6. CASE \E p \in P : f[p] = t
  <2>1. PICK p \in P : f[p] = t
    BY <1>6
  <2>2. tasks[t].status = "pending" /\ AtWork(t) = {}
    BY <1>1, <2>1, Unattended
  <2>3. \A k \in Instance, q \in Place : Up(k) => ~ Held(k, q, t)
    BY <2>2, AtWorkPlaces
  <2>4. \A k \in Instance, q \in Place : Up(k)' /\ Held(k, q, t)' <=> k = i /\ q = p
    BY <1>1, <1>2, <1>3, <1>5, <2>1, <2>3 DEF Held, Up
  <2>5. AtWork(t)' = {<<i, p>>}
    BY <1>1, <2>4 DEF AtWork
  <2>6. tasks'[t].status = "running" /\ tasks'[t].attempts = tasks[t].attempts
    BY <1>2, <1>3, <1>6, RowsFields
  <2> QED
    BY <1>1, <2>2, <2>5, <2>6 DEF LeaseStep
<1>7. CASE ~ \E p \in P : f[p] = t
  <2>1. tasks'[t] = tasks[t]
    BY <1>3, <1>7
  <2>2. \A k \in Instance, q \in Place : Up(k)' /\ Held(k, q, t)' <=> Up(k) /\ Held(k, q, t)
    BY <1>1, <1>2, <1>3, <1>5, <1>7 DEF Held, Up
  <2>3. AtWork(t)' = AtWork(t)
    BY <2>2 DEF AtWork
  <2> QED
    BY <2>1, <2>3 DEF LeaseStep
<1> QED
  BY <1>6, <1>7

(* The last call of a job settles, requeues or buries its task, or leaves  *)
(* the row behind; it touches no other task.                               *)
LEMMA FinishLeases ==
  ASSUME LeaseInv, NEW i \in Instance, NEW p \in Place,
         Finish(i, p) \/ FinishFails(i, p), NEW t \in Task
  PROVE  LeaseStep(tasks[t], tasks'[t], AtWork(t), AtWork(t)')
<1> DEFINE u == jobs[i][p].task
<1>1. TypeOK /\ Ownership /\ RetryBudget
  BY DEF LeaseInv, TimelyInv, AsyncInv
<1>2. Up(i) /\ jobs[i][p].phase # "idle" /\ proc' = proc
  BY DEF Finish, CompleteTask, FailForRetry, RejectPayload, SelectForDLQ, CommitToDLQ, FinishFails
<1>3. /\ u \in Task /\ tasks[u] \in Row /\ jobs[i][p].attempts \in Nat
      /\ tasks[u].status = "running" /\ tasks[u].attempts = jobs[i][p].attempts
  BY <1>1, <1>2, ActiveJob DEF TypeOK, Ownership, LockedRunning
<1>4. tasks[u].attempts \in Nat
  BY <1>3, RowsType
<1>5. Present(tasks[u])
  BY <1>3 DEF Present, Status
<1>6. CASE SetJob(i, p, NoJob)
  <2>1. IF t = u THEN AtWork(t) = {<<i, p>>} /\ AtWork(t)' = {} ELSE AtWork(t)' = AtWork(t)
    BY <1>1, <1>2, <1>6, JobEnds
  <2>2. CASE UNCHANGED tasks
    BY <1>3, <2>1, <2>2 DEF LeaseStep
  <2>3. ASSUME NEW row \in Row, Update(u, row),
               \/ row \in {Completed(tasks[u]), FailedForGood(tasks[u])}
               \/ row = FailedForRetry(tasks[u]) /\ ~ LastAttempt(jobs[i][p].attempts)
               \/ row = Deleted /\ jobs[i][p].attempts + 1 >= MaxRetries
        PROVE  LeaseStep(tasks[t], tasks'[t], AtWork(t), AtWork(t)')
    <3>1. tasks'[t] = IF t = u THEN row ELSE tasks[t]
      BY <1>1, <1>3, <1>5, <2>3, UpdateType DEF TypeOK
    <3>2. /\ Completed(tasks[u]).attempts = tasks[u].attempts
          /\ FailedForGood(tasks[u]).attempts = tasks[u].attempts + 1
      BY <1>3 DEF Completed, FailedForGood, Unlocked, Row
    <3>3. Deleted.status = "gone" /\ Deleted.attempts = 0
      BY DEF Deleted, EmptyRow
    <3>4. /\ Completed(tasks[u]).status = "completed" /\ FailedForGood(tasks[u]).status = "failed"
          /\ FailedForRetry(tasks[u]).status = "pending"
          /\ FailedForRetry(tasks[u]).attempts = tasks[u].attempts + 1
      BY <1>3, RowsFields
    <3>5. CASE t # u
      BY <2>1, <3>1, <3>5 DEF LeaseStep
    <3>6. CASE t = u
      <4>1. AtWork(t) = {<<i, p>>} /\ AtWork(t)' = {} /\ <<i, p>> \in Instance \X Place
        BY <2>1, <3>6
      <4>2. tasks'[t] = row
        BY <3>1, <3>6
      <4>3. \/ row.status \in {"completed", "failed"}
               /\ row.attempts \in {tasks[u].attempts, tasks[u].attempts + 1}
            \/ /\ row.status = "pending" /\ row.attempts = tasks[u].attempts + 1
               /\ tasks[u].attempts + 1 < MaxRetries
            \/ row.status = "gone" /\ row.attempts = 0 /\ tasks[u].attempts + 1 >= MaxRetries
        BY <1>3, <1>4, <2>3, <3>2, <3>3, <3>4, RetriesAssumption DEF LastAttempt
      <4> QED
        BY <1>3, <3>6, <4>1, <4>2, <4>3 DEF LeaseStep
    <3> QED
      BY <3>5, <3>6
  <2>4. /\ Completed(tasks[u]) \in Row /\ FailedForGood(tasks[u]) \in Row
        /\ FailedForRetry(tasks[u]) \in Row /\ Deleted \in Row
    BY <1>3, RowsType, EmptyRowsType
  <2>5. CommitToDLQ(i, p) => jobs[i][p].attempts + 1 >= MaxRetries
    <3>1. CommitToDLQ(i, p) => jobs[i][p].attempts >= MaxRetries - 1
      BY <1>2 DEF CommitToDLQ, LeaseInv, TimelyInv, AsyncInv, CopiesBehindRows
    <3> QED
      BY <1>3, <3>1, RetriesAssumption
  <2> QED
    BY <2>2, <2>3, <2>4, <2>5
    DEF Finish, CompleteTask, FailForRetry, RejectPayload, SelectForDLQ, CommitToDLQ, FinishFails
<1>7. CASE ~ SetJob(i, p, NoJob)
  <2>1. /\ tasks' = tasks
        /\ SetJob(i, p, Moving(u, tasks[u].attempts))
    BY <1>7 DEF Finish, CompleteTask, FailForRetry, RejectPayload, SelectForDLQ, CommitToDLQ,
       FinishFails
  <2>2. \A k \in Instance, q \in Place :
          jobs'[k][q] = IF k = i /\ q = p THEN Moving(u, tasks[u].attempts) ELSE jobs[k][q]
    BY <1>1, <1>3, <1>4, <2>1, JobsType, SetJobType DEF TypeOK
  <2>3. Moving(u, tasks[u].attempts).phase = "moving" /\ Moving(u, tasks[u].attempts).task = u
    BY <1>3, <1>4, JobsType
  <2>4. \A k \in Instance, q \in Place : Up(k)' /\ Held(k, q, t)' <=> Up(k) /\ Held(k, q, t)
    BY <1>2, <2>2, <2>3 DEF Held, Up
  <2>5. AtWork(t)' = AtWork(t)
    BY <2>4 DEF AtWork
  <2> QED
    BY <2>1, <2>5 DEF LeaseStep
<1> QED
  BY <1>6, <1>7

(* An end of serving, orderly or not, takes all workers of an instance off. *)
LEMMA StopsServing ==
  ASSUME TypeOK, TypeOK', Ownership, NEW i \in Instance, ~ Up(i)', UNCHANGED tasks,
         \A k \in Instance : k # i => /\ Up(k)' <=> Up(k)
                                     /\ jobs'[k] = jobs[k],
         NEW t \in Task
  PROVE  LeaseStep(tasks[t], tasks'[t], AtWork(t), AtWork(t)')
<1>1. AtWork(t)' = {w \in AtWork(t) : w[1] # i}
  BY DEF AtWork, Held
<1>2. CASE \E w \in AtWork(t) : w[1] = i
  <2>1. PICK w \in AtWork(t) : w[1] = i
    BY <1>2
  <2>2. /\ AtWork(t) = {w} /\ w \in Instance \X Place
        /\ tasks[t].status = "running"
    BY <2>1, Working
  <2>3. AtWork(t)' = {}
    BY <1>1, <2>1, <2>2
  <2> QED
    BY <2>2, <2>3 DEF LeaseStep
<1>3. CASE ~ \E w \in AtWork(t) : w[1] = i
  <2>1. AtWork(t)' = AtWork(t)
    BY <1>1, <1>3
  <2> QED
    BY <2>1 DEF LeaseStep
<1> QED
  BY <1>2, <1>3

(* Every step is, for every task, a step of its lease or none.             *)
LEMMA NextLeaseStep ==
  ASSUME Timely, LeaseInv, [Next]_vars, NEW t \in Task
  PROVE  LeaseStep(tasks[t], tasks'[t], AtWork(t), AtWork(t)')
<1> DEFINE Goal == LeaseStep(tasks[t], tasks'[t], AtWork(t), AtWork(t)')
<1>1. TypeOK /\ Ownership /\ LateMeansStopped /\ UnbornIsClean
  BY DEF LeaseInv, TimelyInv, AsyncInv
<1>2. TypeOK'
  BY <1>1, NextTypeOK
<1>3. tasks \in [Task -> Row] /\ jobs \in [Instance -> [Place -> Job]]
  BY <1>1 DEF TypeOK
<1>4. CASE UNCHANGED <<tasks, jobs, proc>>
  BY <1>1, <1>4, RowStepsAlone
<1>5. ASSUME NEW u \in Task, Create(u) \/ \E d \in DeadId : Retry(d, u) PROVE Goal
  <2>1. /\ UNCHANGED <<jobs, proc>> /\ tasks[u].status = "unborn"
        /\ tasks' = [tasks EXCEPT ![u] = NewRow]
    BY <1>5 DEF Create, Retry, local
  <2> QED
    BY <1>1, <1>3, <2>1, RowStepsAlone DEF UnbornIsClean
<1>6. ASSUME NEW i \in Instance, ClaimTasks(i) PROVE Goal
  <2>1. PICK P \in SUBSET IdlePlaces(i) :
               \E f \in [P -> ClaimableTasks] :
                 (\A p, q \in P : f[p] = f[q] => p = q) /\ Take(i, f)
    BY <1>6 DEF ClaimTasks
  <2>2. Up(i)
    BY <1>6 DEF ClaimTasks
  <2> QED
    BY <1>1, <2>1, <2>2, TakeLeases
<1>7. ASSUME NEW i \in Instance, NEW p \in Place, NEW u \in Task, ClaimTask(i, p, u) PROVE Goal
  <2>1. /\ Up(i) /\ Take(i, [q \in {p} |-> u]) /\ {p} \in SUBSET IdlePlaces(i)
        /\ [q \in {p} |-> u] \in [{p} -> ClaimableTasks]
        /\ \A q, r \in {p} : q = r
    BY <1>7 DEF ClaimTask
  <2> QED
    BY <1>1, <2>1, TakeLeases
<1>8. ASSUME NEW i \in Instance, NEW batch \in SUBSET ClaimableTasks, LoseClaim(i, batch)
      PROVE  Goal
  <2>1. /\ UNCHANGED <<jobs, proc>>
        /\ \/ tasks'[t] = tasks[t]
           \/ tasks[t].status = "pending" /\ tasks'[t] = Claimed(tasks[t], i)
    BY <1>8 DEF LoseClaim, ClaimableTasks, Claimable, local
  <2> QED
    BY <1>1, <1>3, <2>1, RowStepsAlone
<1>9. ASSUME NEW i \in Instance, NEW p \in Place, Finish(i, p) \/ FinishFails(i, p) PROVE Goal
  BY <1>9, FinishLeases
<1>10. ASSUME NEW i \in Instance, Shutdown(i) \/ Crash(i) PROVE Goal
  <2>1. ~ Up(i)' /\ UNCHANGED tasks
    BY <1>1, <1>10 DEF Shutdown, Crash, Up, TypeOK
  <2>2. \A k \in Instance : k # i => (Up(k)' <=> Up(k)) /\ jobs'[k] = jobs[k]
    BY <1>1, <1>10 DEF Shutdown, Crash, Up, TypeOK
  <2> QED
    BY <1>1, <1>2, <2>1, <2>2, StopsServing
<1>11. ASSUME NEW i \in Instance,
              \/ Boot(i) \/ Register(i) \/ RegisterFails(i) \/ Exit(i)
              \/ \E p \in Place : Abandon(i, p)
       PROVE  Goal
  <2>1. UNCHANGED tasks /\ ~ Up(i)
    BY <1>11 DEF Boot, Register, RegisterFails, Exit, Abandon, Up
  <2>2. \A k \in Instance, q \in Place : Up(k)' /\ Held(k, q, t)' <=> Up(k) /\ Held(k, q, t)
    <3>1. CASE \E p \in Place : Abandon(i, p)
      BY <1>3, <2>1, <3>1 DEF Abandon, SetJob, Up, Held
    <3>2. CASE Exit(i)
      BY <1>1, <2>1, <3>2 DEF Exit, Up, Held, TypeOK
    <3>3. CASE Boot(i) \/ Register(i) \/ RegisterFails(i)
      <4>1. \A q \in Place : jobs[i][q].phase = "idle"
        BY <1>1, <3>3 DEF LateMeansStopped, Boot, Register, RegisterFails
      <4>2. UNCHANGED jobs /\ \A k \in Instance : k # i => proc'[k] = proc[k]
        BY <1>1, <3>3 DEF Boot, Register, RegisterFails, TypeOK
      <4> QED
        BY <4>1, <4>2 DEF Up, Held
    <3> QED
      BY <1>11, <3>1, <3>2, <3>3
  <2>3. AtWork(t)' = AtWork(t)
    BY <2>2 DEF AtWork
  <2> QED
    BY <2>1, <2>3 DEF LeaseStep
<1>12. ASSUME NEW i \in Instance, NEW j \in Instance, SweepRecover(i, j) PROVE Goal
  <2>1. ~ Up(j)
    BY <1>1, <1>12 DEF SweepRecover, LateMeansStopped, Stopped, Up
  <2>2. UNCHANGED <<jobs, proc>>
    BY <1>12 DEF SweepRecover
  <2>3. CASE LockedRunning(tasks[t], j)
    <3>1. tasks[t].status = "running" /\ AtWork(t) = {}
      BY <1>1, <2>1, <2>3, Unattended DEF LockedRunning
    <3>2. tasks'[t] = Released(tasks[t])
      BY <1>12, <2>3 DEF SweepRecover
    <3> QED
      BY <1>1, <2>2, <3>1, <3>2, RowStepsAlone
  <2>4. CASE ~ LockedRunning(tasks[t], j)
    BY <1>1, <1>12, <2>2, <2>4, RowStepsAlone DEF SweepRecover
  <2> QED
    BY <2>3, <2>4
<1>13. ASSUME NEW i \in Instance, UnlockStaleTasks(i) PROVE Goal
  <2>1. UNCHANGED <<jobs, proc>>
    BY <1>13 DEF UnlockStaleTasks, local
  <2>2. CASE StaleLock(tasks[t])
    <3>1. tasks[t].status = "running" /\ AtWork(t) = {}
      BY <1>1, <2>2, Unattended DEF StaleLock
    <3>2. tasks'[t] = Released(tasks[t])
      BY <1>13, <2>2 DEF UnlockStaleTasks
    <3> QED
      BY <1>1, <2>1, <3>1, <3>2, RowStepsAlone
  <2>3. CASE ~ StaleLock(tasks[t])
    BY <1>1, <1>13, <2>1, <2>3, RowStepsAlone DEF UnlockStaleTasks
  <2> QED
    BY <2>2, <2>3
<1>14. ASSUME NEW u \in Task, LockAges(u) \/ RetryDue(u) PROVE Goal
  <2>1. UNCHANGED <<jobs, proc>>
    BY <1>14 DEF LockAges, RetryDue, local
  <2>2. \/ tasks'[t] = tasks[t]
        \/ tasks'[t] = [tasks[t] EXCEPT !.lockedAt = "stale"]
        \/ tasks'[t] = [tasks[t] EXCEPT !.nextRetryAt = "due"]
    BY <1>3, <1>14 DEF LockAges, RetryDue
  <2> QED
    BY <1>1, <2>1, <2>2, RowStepsAlone
<1>15. ASSUME NEW i \in Instance,
              \/ ReleaseLeader(i) \/ Heartbeat(i) \/ TryAcquireLeader(i) \/ MonitorScan(i)
              \/ SweepDeregister(i) \/ SweepFails(i) \/ HeartbeatAges(i)
       PROVE  Goal
  BY <1>4, <1>15 DEF ReleaseLeader, Heartbeat, TryAcquireLeader, MonitorScan, SweepDeregister,
     SweepFails, HeartbeatAges, local
<1>16. ASSUME SessionEnds \/ UNCHANGED vars PROVE Goal
  BY <1>4, <1>16 DEF SessionEnds, local, vars
<1>17. Goal
  <2> HIDE DEF Goal
  <2>1. ASSUME NEW i \in Instance, ClaimNext(i) PROVE Goal
    BY <1>6, <1>7, <1>8, <2>1 DEF ClaimNext
  <2>2. ASSUME NEW i \in Instance, ExecuteNext(i) PROVE Goal
    BY <1>9, <1>11, <2>2 DEF ExecuteNext
  <2>3. ASSUME NEW i \in Instance, MainNext(i) PROVE Goal
    <3>1. CASE ReleaseLeader(i)
      BY <1>15, <3>1
    <3>2. CASE Shutdown(i) \/ Crash(i)
      BY <1>10, <3>2
    <3>3. CASE Boot(i) \/ Register(i) \/ RegisterFails(i) \/ Exit(i)
      BY <1>11, <3>3
    <3> QED
      BY <2>3, <3>1, <3>2, <3>3 DEF MainNext
  <2>4. ASSUME NEW i \in Instance, RecoveryNext(i) PROVE Goal
    BY <1>12, <1>13, <1>15, <2>4 DEF RecoveryNext, Sweep
  <2>5. CASE TimeNext
    BY <1>14, <1>15, <2>5 DEF TimeNext
  <2>6. CASE ClientNext
    BY <1>5, <2>6 DEF ClientNext, Timely
  <2> QED
    BY <1>16, <2>1, <2>2, <2>3, <2>4, <2>5, <2>6 DEF Next
<1> QED
  BY <1>17

(* On time and without PATCH, the queue implements the leases, for any     *)
(* instances, tasks and places.                                            *)
THEOREM QueueLeases == ASSUME Timely PROVE Spec => IsLease
<1>1. Init => Leases!Init
  <2> SUFFICES ASSUME Init PROVE Leases!Init
    OBVIOUS
  <2>1. ASSUME NEW t \in Task
        PROVE  /\ LeaseState[tasks[t].status] = "new"
               /\ AtWork(t) = {}
               /\ tasks[t].attempts = 0
    <3>1. tasks[t] = Unborn
      BY DEF Init
    <3>2. \A i \in Instance : ~ Up(i)
      BY DEF Init, Up
    <3> QED
      BY <3>1, <3>2, LeaseStates DEF AtWork, Unborn, EmptyRow
  <2> QED
    BY <2>1 DEF Leases!Init
<1>2. LeaseInv /\ [Next]_vars => [Leases!Next]_(Leases!vars)
  <2> SUFFICES ASSUME LeaseInv, [Next]_vars PROVE Leases!Next
    OBVIOUS
  <2> QED
    BY NextLeaseStep, Bridge DEF Leases!Next
<1>3. LeaseInv /\ [Next]_vars => LeaseInv'
  BY NextLeaseInv
<1> QED
  BY <1>1, <1>2, <1>3, InitLease, PTL DEF Spec, IsLease, Leases!Spec
=============================================================================
