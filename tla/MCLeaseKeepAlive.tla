-------------------------- MODULE MCLeaseKeepAlive --------------------------
(* Instances of LeaseKeepAlive for TLC. *)
EXTENDS LeaseKeepAlive

CONSTANT body
=============================================================================
