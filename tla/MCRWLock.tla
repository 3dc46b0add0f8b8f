------------------------------ MODULE MCRWLock ------------------------------
(* RWLock for TLC. *)
EXTENDS RWLock

MCIntMin == -4
=============================================================================
