------------------------------- MODULE MCSiso -------------------------------
(* The SISO ring on a ring of N blocks, with every payload size that fits. *)
EXTENDS SisoQueue

=============================================================================
