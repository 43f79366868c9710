----------------------------- MODULE MCWifiLife -----------------------------
(* The life of the manager as TLC runs it. *)
EXTENDS WifiLife, TLC
=============================================================================
