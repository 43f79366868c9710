-------------------------- MODULE MCStaConnection --------------------------
(* Instances of StaConnection for TLC. *)
EXTENDS StaConnection, TLC
=============================================================================
