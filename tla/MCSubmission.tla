---------------------------- MODULE MCSubmission ----------------------------
(* Instances of Submission for TLC.  Its runs check liveness, so that there *)
(* is no symmetry to name.                                                 *)
EXTENDS Submission
=============================================================================
