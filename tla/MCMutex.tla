------------------------------- MODULE MCMutex -------------------------------
(* Mutex for TLC: the tasks are model values. *)
EXTENDS Mutex
==============================================================================
