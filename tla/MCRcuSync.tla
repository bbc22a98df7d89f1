------------------------------ MODULE MCRcuSync ------------------------------
(* RcuSync for TLC: updaters and readers are model values. *)
EXTENDS RcuSync
==============================================================================
