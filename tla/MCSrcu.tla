------------------------------- MODULE MCSrcu -------------------------------
(* Srcu for TLC: the readers are model values and interchangeable. *)
EXTENDS Srcu, TLC

Symmetry == Permutations(Readers)
=============================================================================
