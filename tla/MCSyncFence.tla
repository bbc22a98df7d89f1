----------------------------- MODULE MCSyncFence -----------------------------
(* SyncFence for TLC: timelines and points are model values and               *)
(* interchangeable.                                                           *)
EXTENDS SyncFence

Symmetry == Permutations(Timelines) \cup Permutations(Points)
==============================================================================
