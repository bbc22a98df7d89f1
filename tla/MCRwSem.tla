------------------------------- MODULE MCRwSem -------------------------------
(* RwSem for TLC: the tasks are model values and interchangeable. *)
EXTENDS RwSem, TLC

Symmetry == Permutations(Tasks)
==============================================================================
