----------------------------- MODULE MCBackoff -----------------------------
(* Constants of Backoff for TLC. *)
EXTENDS Backoff

AllBases == 5..MaxBackOff
=============================================================================
