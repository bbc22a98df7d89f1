------------------------------ MODULE MCOsqLock ------------------------------
(* OsqLock for TLC: CPUs and locks are model values. *)
EXTENDS OsqLock
==============================================================================
