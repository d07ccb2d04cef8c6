------------------------------- MODULE MCVmkt -------------------------------
(* Model checking of Vmkt. *)
EXTENDS Vmkt
=============================================================================
