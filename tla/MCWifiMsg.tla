----------------------------- MODULE MCWifiMsg -----------------------------
(* Instances of WifiMsg for TLC. *)
EXTENDS WifiMsg, TLC
=============================================================================
