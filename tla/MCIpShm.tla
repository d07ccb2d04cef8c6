------------------------------ MODULE MCIpShm ------------------------------
(* Model checking of IpShm. *)
EXTENDS IpShm
=============================================================================
