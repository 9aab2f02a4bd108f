---------------------------- MODULE ItemExchange ----------------------------
(***************************************************************************)
(* What gifts and trades promise (docs/architecture/phase-8c): a deal      *)
(* moves what the two players own between them in one step, at most once,  *)
(* its receipt says what moved, and neither gives what it does not have.   *)
(* The rest of the game may use items up at any time.                      *)
(***************************************************************************)
EXTENDS Integers

CONSTANTS Players, Items,
          Deals,   \* social_interaction_requests
          MaxQty,  \* the most of one item that an offer may hold (999)
          Stock    \* what every player owns of an item at first

VARIABLES owned,   \* sum of a player's stacks, by player and item
          receipts \* of the completed deals

exchangeVars == <<owned, receipts>>

Bundles == [Items -> 0..MaxQty]

ExchangeInit == owned = [p \in Players |-> [i \in Items |-> Stock]] /\ receipts = {}

Owns(p, b) == \A i \in Items : b[i] <= owned[p][i]

(* What the players own after p gave `give` to q and got `take` for it. *)
Traded(p, q, give, take) ==
    [r \in Players |->
        [i \in Items |-> IF r = p THEN owned[r][i] - give[i] + take[i]
                         ELSE IF r = q THEN owned[r][i] - take[i] + give[i]
                         ELSE owned[r][i]]]

AllReceipts ==
    [deal : Deals, from : Players, to : Players, give : Bundles, take : Bundles]

(* The exchange that r is the receipt of; a gift is one in which nothing   *)
(* comes back.                                                             *)
Exchange(r) ==
    /\ \A s \in receipts : s.deal # r.deal
    /\ r.from # r.to
    /\ Owns(r.from, r.give) /\ Owns(r.to, r.take)
    /\ owned' = Traded(r.from, r.to, r.give, r.take)
    /\ receipts' = receipts \cup {r}

UseUp(p, b) ==
    /\ Owns(p, b)
    /\ owned' = [owned EXCEPT ![p] = [i \in Items |-> owned[p][i] - b[i]]]
    /\ UNCHANGED receipts

ExchangeNext ==
    \/ \E r \in receipts' \ receipts : r \in AllReceipts /\ Exchange(r)
    \/ \E p \in Players, b \in Bundles : UseUp(p, b)

ExchangeSpec == ExchangeInit /\ [][ExchangeNext]_exchangeVars
=============================================================================
