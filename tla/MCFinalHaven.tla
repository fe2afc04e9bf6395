---------------------------- MODULE MCFinalHaven ----------------------------
(* FinalHaven with what TLC needs to check it on small instances.            *)
EXTENDS FinalHaven, TLC
=============================================================================
