---------------------------- MODULE MCDnsServer ----------------------------
(* Instances of DnsServer for TLC. *)
EXTENDS DnsServer, TLC
=============================================================================
