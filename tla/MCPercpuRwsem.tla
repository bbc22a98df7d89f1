---------------------------- MODULE MCPercpuRwsem ----------------------------
(* PercpuRwsem for TLC: tasks and CPUs are model values. *)
EXTENDS PercpuRwsem
==============================================================================
