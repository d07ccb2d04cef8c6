---------------------------- MODULE MCCompTunnel ----------------------------
(* CompTunnel for TLC. *)
EXTENDS CompTunnel
=============================================================================
