------------------------------- MODULE MCParty -------------------------------
(* Instances of Party for TLC. *)
EXTENDS Party, TLC

Symmetry == Permutations(Players) \cup Permutations(Parties) \cup Permutations(Calls)
=============================================================================
