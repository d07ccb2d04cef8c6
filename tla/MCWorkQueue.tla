---------------------------- MODULE MCWorkQueue ----------------------------
(* Model checking of WorkQueue. *)
EXTENDS WorkQueue

\* The first DE is mapped to PET 1, the others to PET 2.
MCOwner == [d \in DEs |-> IF d = 1 THEN 1 ELSE 2]
=============================================================================
