---------------------------- MODULE MCWorkerPool ----------------------------
(* Instances of WorkerPool for TLC.  Its run checks liveness, so that there *)
(* is no symmetry to name.                                                 *)
EXTENDS WorkerPool
=============================================================================
