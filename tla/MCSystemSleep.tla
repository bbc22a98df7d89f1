---------------------------- MODULE MCSystemSleep ----------------------------
(* SystemSleep for TLC: tasks and wakeup sources are model values. *)
EXTENDS SystemSleep
==============================================================================
