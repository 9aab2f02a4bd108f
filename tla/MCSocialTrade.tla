---------------------------- MODULE MCSocialTrade ----------------------------
(* Instances of SocialTrade for TLC. *)
EXTENDS SocialTrade, TLC

Symmetry ==
    Permutations(Players) \cup Permutations(Items)
        \cup Permutations(Gifts) \cup Permutations(Trades)
=============================================================================
