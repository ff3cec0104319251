----------------------------- MODULE MCWarmPool -----------------------------
(* WarmPool for TLC: sets of interchangeable model values. *)
EXTENDS WarmPool, TLC

Symmetry == Permutations(Runs) \cup Permutations(Conns) \cup Permutations(Execs)
=============================================================================
