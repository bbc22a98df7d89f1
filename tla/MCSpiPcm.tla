------------------------------- MODULE MCSpiPcm -------------------------------
(* SpiPcm for TLC: the configurations give the sizes. *)
EXTENDS SpiPcm
==============================================================================
