------------------------------ MODULE MCRepair ------------------------------
(* Model checking of Repair: the constants are given in the configurations. *)
EXTENDS Repair
=============================================================================
