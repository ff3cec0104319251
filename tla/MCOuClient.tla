----------------------------- MODULE MCOuClient -----------------------------
(* OuClient for TLC: interchangeable calls and attribute values. *)
EXTENDS OuClient, TLC

Symmetry == Permutations(Calls) \cup Permutations(Names) \cup Permutations(Containers)
            \cup Permutations(Descriptions)
=============================================================================
