---------------------------- MODULE MCStaticPool ----------------------------
(* Instances of StaticPool for TLC. *)
EXTENDS StaticPool, TLC

\* Slots and clients are interchangeable: no action orders them.
Symmetry == Permutations(Client)
=============================================================================
