----------------------------- MODULE MCBarrier -----------------------------
(* Barrier for TLC: a three-bit int, so that iterations wraps within a run. *)
EXTENDS Barrier

MCIntMin == -4
=============================================================================
