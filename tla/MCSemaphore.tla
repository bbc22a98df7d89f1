----------------------------- MODULE MCSemaphore -----------------------------
(* Semaphore for TLC: the tasks are model values. *)
EXTENDS Semaphore
==============================================================================
