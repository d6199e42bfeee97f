---------------------------- MODULE MCTaskQueue ----------------------------
(* Instances of TaskQueue for TLC. *)
EXTENDS TaskQueueLease, TLC

\* Instances, places and dead-letter ids are interchangeable; so are tasks,
\* but for those with a bad payload.
Interchangeable == Permutations(Instance) \cup Permutations(Place) \cup Permutations(DeadId)
                   \cup Permutations(Task \ BadPayload)

\* Bound: a bad payload and a failed call do not come in one behaviour.
OneTrouble == faults = 0 \/ \A t \in BadPayload : tasks[t].status = "unborn"
=============================================================================
