---------------------------- MODULE MCTransports ----------------------------
(* Transports for TLC: one local or cold Run at a time, two at a time over SSH. *)
EXTENDS Transports

MCConcurrency == [k \in Kinds |-> IF k = "ssh" THEN 2 ELSE 1]
=============================================================================
