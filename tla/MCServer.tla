------------------------------ MODULE MCServer ------------------------------
(* Instances of Server for TLC. *)
EXTENDS Server, TLC

\* Resetters, clients and relay settings are interchangeable.
Symmetry == Permutations(Resetter) \cup Permutations(Client) \cup Permutations(Relays)
=============================================================================
