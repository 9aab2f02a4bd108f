--------------------------- MODULE MCPresenceServer ---------------------------
(* Instances of PresenceServer for TLC. *)
EXTENDS PresenceServer, TLC

Symmetry == Permutations(Conns) \cup Permutations(Players) \cup Permutations(Channels)
=============================================================================
