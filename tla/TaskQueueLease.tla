--------------------------- MODULE TaskQueueLease ---------------------------
(* TaskQueue, when it is on time, implements TaskLease. *)
EXTENDS TaskQueue

\* The rows' statuses, as TaskLease calls them.
LeaseState == [unborn    |-> "new",
               pending   |-> "free",
               running   |-> "leased",
               completed |-> "settled",
               failed    |-> "settled",
               gone      |-> "dead"]

AtWork(t) == {w \in Instance \X Place : Up(w[1]) /\ Held(w[1], w[2], t)}

Leases == INSTANCE TaskLease WITH
            Worker   <- Instance \X Place,
            state    <- [t \in Task |-> LeaseState[tasks[t].status]],
            workers  <- [t \in Task |-> AtWork(t)],
            failures <- [t \in Task |-> tasks[t].attempts]

(* Without stalls and PATCH the queue hands out leases: every statement    *)
(* that settles, requeues, recovers or deletes a row, from whichever       *)
(* instance it comes, is one that the lease of the task allows.            *)
IsLease == Leases!Spec
=============================================================================
