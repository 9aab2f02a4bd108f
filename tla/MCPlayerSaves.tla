--------------------------- MODULE MCPlayerSaves ---------------------------
(* Instances of PlayerSaves for TLC. *)
EXTENDS PlayerSaves
=============================================================================
