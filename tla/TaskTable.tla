----------------------------- MODULE TaskTable -----------------------------
(***************************************************************************)
(* Rows of the tables `tasks` and `dead_letter_tasks`, and the effect on   *)
(* one row of each SQL statement of internal/repository.  An absent row    *)
(* (not yet inserted, or deleted) is a row of status "unborn" or "gone".   *)
(* A timestamp is abstracted to what the statements compare it with:       *)
(* locked_at to older than the stale duration or not, next_retry_at to     *)
(* past or not.                                                            *)
(***************************************************************************)
EXTENDS Naturals

CONSTANTS Instance,      \* workerIDs: one per process start, never reused
          NoInstance,    \* locked_by IS NULL
          MaxRetries     \* max_retries of every row: no statement sets it

ASSUME InstanceAssumption == NoInstance \notin Instance
ASSUME RetriesAssumption  == MaxRetries \in Nat /\ MaxRetries >= 2

Status == {"pending", "running", "completed", "failed"}

Row == [status      : Status \cup {"unborn", "gone"},
        lockedBy    : Instance \cup {NoInstance},
        lockedAt    : {"null", "fresh", "stale"},
        attempts    : Nat,
        lastError   : BOOLEAN,                    \* last_error IS NOT NULL
        nextRetryAt : {"null", "future", "due"}]

EmptyRow(status) == [status      |-> status,
                     lockedBy    |-> NoInstance,
                     lockedAt    |-> "null",
                     attempts    |-> 0,
                     lastError   |-> FALSE,
                     nextRetryAt |-> "null"]

Unborn  == EmptyRow("unborn")
Deleted == EmptyRow("gone")
NewRow  == EmptyRow("pending")

Present(r) == r.status \in Status

Unlocked(r) == [r EXCEPT !.lockedBy = NoInstance, !.lockedAt = "null"]

-----------------------------------------------------------------------------
(* TaskRepository *)

\* Mutation: without status = 'pending'.
Claimable_AnyStatus(r) == r.lockedBy = NoInstance /\ Present(r) /\ r.nextRetryAt # "future"

Claimable(r) == /\ r.status = "pending"
                /\ r.lockedBy = NoInstance
                /\ r.nextRetryAt # "future"

Claimed(r, i) == [r EXCEPT !.status   = "running",
                           !.lockedBy = i,
                           !.lockedAt = "fresh"]

\* Mutation: a status the other statements do not know.
Completed_Misspelt(r) == [Unlocked(r) EXCEPT !.status = "done"]

Completed(r) == [Unlocked(r) EXCEPT !.status = "completed"]

\* Mutation: the lock columns are left as they are.
FailedForRetry_KeepsLock(r) == [r EXCEPT !.status      = "pending",
                                         !.attempts    = r.attempts + 1,
                                         !.lastError   = TRUE,
                                         !.nextRetryAt = "future"]

\* Mutation: last_error is not written.
FailedForRetry_NoError(r) == [Unlocked(r) EXCEPT !.status      = "pending",
                                                 !.attempts    = r.attempts + 1,
                                                 !.nextRetryAt = "future"]

FailedForRetry(r) == [Unlocked(r) EXCEPT !.status      = "pending",
                                         !.attempts    = r.attempts + 1,
                                         !.lastError   = TRUE,
                                         !.nextRetryAt = "future"]

FailedForGood(r) == [Unlocked(r) EXCEPT !.status    = "failed",
                                        !.attempts  = r.attempts + 1,
                                        !.lastError = TRUE]

StatusSet(r, status) == [r EXCEPT !.status = status]

\* Mutation: without the comparison of locked_at.
StaleLock_AnyAge(r) == r.status = "running"

StaleLock(r) == r.status = "running" /\ r.lockedAt = "stale"

\* Mutation: without locked_by.
LockedRunning_Anyone(r, i) == r.status = "running"

LockedRunning(r, i) == r.status = "running" /\ r.lockedBy = i

\* Mutation: recovery gives the task all its attempts back.
Released_Restarted(r) == [Unlocked(r) EXCEPT !.status = "pending", !.attempts = 0]

\* Mutation: recovery leaves the lock of the dead instance.
Released_KeepsLock(r) == [r EXCEPT !.status = "pending"]

Released(r) == [Unlocked(r) EXCEPT !.status = "pending"]

-----------------------------------------------------------------------------
(* The decision of Executor.Execute after a handler error, on the task as  *)
(* it was read by the claim.                                               *)
\* Mutation: one attempt too many.
LastAttempt_Late(attempts) == attempts >= MaxRetries

LastAttempt(attempts) == attempts + 1 >= MaxRetries
=============================================================================
