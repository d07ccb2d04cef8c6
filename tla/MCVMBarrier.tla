---------------------------- MODULE MCVMBarrier ----------------------------
(* Model checking of VMBarrier: a process of three threads and one of two, *)
(* every program of three barriers.                                        *)
EXTENDS VMBarrier, TLC
MCNThreads == (1 :> 3) @@ (2 :> 2)
=============================================================================
