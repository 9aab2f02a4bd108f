--------------------------- MODULE MCRealtimeStore ---------------------------
(* Instances of RealtimeStore for TLC. *)
EXTENDS RealtimeStore, TLC

(* Connections, tickets and players are interchangeable in the safety runs;*)
(* so are channels, which no function of the store orders here.            *)
Symmetry ==
    Permutations(Conns) \cup Permutations(Tickets)
        \cup Permutations(Players) \cup Permutations(Channels)
=============================================================================
