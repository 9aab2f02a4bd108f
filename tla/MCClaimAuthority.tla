-------------------------- MODULE MCClaimAuthority --------------------------
EXTENDS ClaimAuthority

(* Ana has two receipts to one wallet, one of them of an activity; Bo has  *)
(* one.  Two belong to the epoch.                                          *)
MCEligibilities == {"ana1", "ana2", "bo1"}
MCCore == [e \in MCEligibilities |->
    [player |-> IF e = "bo1" THEN "bo" ELSE "ana",
     wallet |-> IF e = "bo1" THEN "w2" ELSE "w1",
     amount |-> IF e = "ana2" THEN 2 ELSE 1,
     source |-> IF e = "ana1" THEN "event" ELSE "quest",
     active |-> e = "ana2", epoch |-> e # "ana1",
     earliest |-> IF e = "ana2" THEN 1 ELSE 0,
     expires |-> IF e = "ana1" THEN 2 ELSE 3]]
MCCap == [l \in Layers |->
    CASE l = "playerDaily" -> 2 [] l = "walletDaily" -> 2 [] l = "globalDaily" -> 3
      [] l \in {"epoch", "source", "playerWeekly", "globalWeekly"} -> 3
      [] l = "campaign" -> 4 [] OTHER -> 3]
=============================================================================
