---------------------------- MODULE MCCompletion -----------------------------
(* Completion for TLC: waiters and completers are model values. *)
EXTENDS Completion
==============================================================================
