---------------------------- MODULE MCShmChannel ----------------------------
(* Model checking of ShmChannel: every program of NMsgs operations. *)
EXTENDS ShmChannel
=============================================================================
