----------------------------- MODULE MCFailover -----------------------------
(* Failover for TLC: the list of endpoints. *)
EXTENDS Failover

CONSTANTS h1, h2

TwoEndpoints == <<h1, h2>>
=============================================================================
