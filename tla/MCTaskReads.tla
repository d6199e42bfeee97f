---------------------------- MODULE MCTaskReads ----------------------------
(* Instances of TaskReads for TLC. *)
EXTENDS TaskReads, TLC

Interchangeable == Permutations(Instance) \cup Permutations(Place) \cup Permutations(DeadId)
                   \cup Permutations(Task)
=============================================================================
