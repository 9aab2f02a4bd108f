----------------------------- MODULE SocialTrade -----------------------------
(***************************************************************************)
(* Gifts and trades between nearby players: the database functions of      *)
(* 20260715120000_nearby_social_interactions, called by the realtime       *)
(* server for the connections of the two players.                          *)
(*                                                                         *)
(* A function locks the request row first and holds it to its commit, and  *)
(* the functions that check or move items lock the inventories, so each is *)
(* one step, with three exceptions.  A creation locks nothing that another *)
(* creation waits for, so its insert and its commit are two steps.  The    *)
(* bootstrap reads the request row and the offer rows in two statements.   *)
(* And now() is the start of a transaction that may have waited for its    *)
(* locks: `N` is the set of deadlines that now() is past, any subset of    *)
(* those really past.                                                      *)
(***************************************************************************)
EXTENDS Integers, FiniteSets, Functions

CONSTANTS Players, Items,
          Gifts, Trades,  \* social_interaction_requests by interaction_type
          MaxQty,         \* the most of one item in an offer (999)
          Stock,          \* what every player owns of an item at first
          MaxRev,         \* bound on the revision of a trade
          MayConsume,     \* does other gameplay use items up?
          MayLeave,       \* do players lose their connection?
          MayBootstrap,   \* or do clients only show what is published?
          MayAge,         \* do answered requests get older than a day?
          NoPlayer, NoDeal

ASSUME TradeAssumption ==
    /\ MaxQty \in Nat \ {0} /\ Stock \in Nat
    /\ MaxRev \in Nat /\ MaxRev >= 2
    /\ {MayConsume, MayLeave, MayBootstrap, MayAge} \subseteq BOOLEAN
    /\ Gifts \cap Trades = {} /\ IsFiniteSet(Trades)
    /\ NoPlayer \notin Players
    /\ NoDeal \notin Gifts \cup Trades

Deals == Gifts \cup Trades

VARIABLES owned,     \* sum of a player's stacks, by player and item
          status,    \* status of a request; "none" before, "inserting" until committed
          from, to,  \* sender_profile_id and target_profile_id
          revision,
          confirmed, \* sender_ and target_confirmed_revision, 0 for null
          offer,     \* player_trade_offer_items, and player_gift_items of the sender
          held,      \* player_inventory_reservations
          paused,    \* reconnect_deadline is not null
          past,      \* the deadlines that have passed
          online,    \* players with an active session heartbeated within 30 s
          seen,      \* the trade a player's client shows
          boot,      \* what a bootstrap has read and not yet answered
          agreed,    \* auxiliary: the offers a player saw when confirming
          aged       \* an idempotency row is due for deletion

offerVars == <<revision, confirmed, offer, agreed>>
lifeVars == <<status, held, paused, past>>
partyVars == <<from, to>>
clientVars == <<online, seen, boot>>
vars == <<owned, offerVars, lifeVars, partyVars, clientVars, aged>>

(* The rows of social_interaction_receipts and their items are what the    *)
(* completed request and its offer rows say.                               *)
Receipts ==
    {[deal |-> d, from |-> from[d], to |-> to[d],
      give |-> offer[d][from[d]], take |-> offer[d][to[d]]] :
        d \in {e \in Deals : status[e] = "completed"}}

Ledger == INSTANCE ItemExchange WITH receipts <- Receipts

Bundles == Ledger!Bundles
Nothing == [i \in Items |-> 0]
NoOffers == [p \in Players |-> Nothing]
Offers == [Players -> Bundles]

Final == {"completed", "declined", "cancelled", "expired", "invalidated", "failed"}
Statuses == {"none", "inserting", "pending", "negotiating"} \cup Final

Deadlines == {"expiry", "grace"}
NoTrade == [deal |-> NoDeal, rev |-> 0, offers |-> NoOffers]
NoBoot == [deal |-> NoDeal, rev |-> 0]

TypeOK ==
    /\ owned \in [Players -> [Items -> Nat]]
    /\ status \in [Deals -> Statuses]
    /\ from \in [Deals -> Players \cup {NoPlayer}]
    /\ to \in [Deals -> Players \cup {NoPlayer}]
    /\ revision \in [Deals -> 0..MaxRev]
    /\ confirmed \in [Deals -> [Players -> 0..MaxRev]]
    /\ offer \in [Deals -> Offers]
    /\ held \in [Deals -> Offers]
    /\ paused \in [Deals -> BOOLEAN]
    /\ past \in SUBSET (Deals \X Deadlines)
    /\ online \in SUBSET Players
    /\ seen \in [Players -> [deal : Deals \cup {NoDeal}, rev : 0..MaxRev, offers : Offers]]
    /\ boot \in [Players -> [deal : Deals \cup {NoDeal}, rev : 0..MaxRev]]
    /\ agreed \in [Deals -> [Players -> Offers]]
    /\ aged \in BOOLEAN

Init ==
    /\ owned = [p \in Players |-> [i \in Items |-> Stock]]
    /\ status = [d \in Deals |-> "none"]
    /\ from = [d \in Deals |-> NoPlayer] /\ to = from
    /\ revision = [d \in Deals |-> 0]
    /\ confirmed = [d \in Deals |-> [p \in Players |-> 0]]
    /\ offer = [d \in Deals |-> NoOffers] /\ held = offer
    /\ paused = [d \in Deals |-> FALSE] /\ past = {}
    /\ online = Players
    /\ seen = [p \in Players |-> NoTrade]
    /\ boot = [p \in Players |-> NoBoot]
    /\ agreed = [d \in Deals |-> [p \in Players |-> NoOffers]]
    /\ aged = FALSE
-----------------------------------------------------------------------------
Participants(d) == {from[d], to[d]}
Other(d, p) == IF p = from[d] THEN to[d] ELSE from[d]

Open(d) == status[d] \in {"pending", "negotiating"}
Negotiating(p) == {d \in Trades : status[d] = "negotiating" /\ p \in Participants(d)}

Expired(d, N) == <<d, "expiry">> \in N
GraceOver(d, N) == paused[d] /\ <<d, "grace">> \in N
Overdue(d, N) == Expired(d, N) \/ GraceOver(d, N)

(* The reservations that are not past their expires_at, which is that of   *)
(* their trade.                                                            *)
Reserved(p, i, S) == SumFunctionOnSet([d \in Trades |-> held[d][p][i]], S)
Live(N) == {d \in Trades : ~Expired(d, N)}

(* Faulty variant: what other trades reserve is not taken off.             *)
AvailableUnreserved(p, b, N, own) == Ledger!Owns(p, b)

Available(p, b, N, own) ==
    \A i \in Items : b[i] > 0 => b[i] + Reserved(p, i, Live(N) \ own) <= owned[p][i]

(* No function takes an ended request for what it was, so what a client    *)
(* still shows of one need not be told apart.                              *)
Forget(S) ==
    /\ seen' = [p \in Players |-> IF seen[p].deal \in S THEN NoTrade ELSE seen[p]]
    /\ UNCHANGED <<online, boot>>

(* A request ends: social_release_reservations and the update of its row.  *)
(* Some functions leave a reconnect_deadline behind, which nobody reads.   *)
End(S, s) ==
    /\ status' = [d \in Deals |-> IF d \in S THEN s ELSE status[d]]
    /\ held' = [d \in Deals |-> IF d \in S THEN NoOffers ELSE held[d]]
    /\ paused' = [d \in Deals |-> paused[d] /\ d \notin S]
    /\ past' = past \ (S \X Deadlines)
    /\ Forget(S)

Ends(S, s) == End(S, s) /\ UNCHANGED <<owned, offerVars, partyVars, aged>>
-----------------------------------------------------------------------------
Insert(d, p, q, b) ==
    /\ status[d] = "none" /\ p # q /\ {p, q} \subseteq online
    /\ status' = [status EXCEPT ![d] = "inserting"]
    /\ from' = [from EXCEPT ![d] = p] /\ to' = [to EXCEPT ![d] = q]
    /\ revision' = [revision EXCEPT ![d] = 1]
    /\ offer' = [offer EXCEPT ![d][p] = b]
    /\ UNCHANGED <<owned, confirmed, agreed, held, paused, past, clientVars, aged>>

(* create_realtime_social_gift: one item, owned and not reserved now.      *)
CreateGift(d, p, q, b, N) ==
    /\ d \in Gifts
    /\ \E i \in Items : b[i] > 0 /\ \A j \in Items \ {i} : b[j] = 0
    /\ Available(p, b, N, {})
    /\ ~ \E e \in Gifts : status[e] = "pending" /\ ~Expired(e, N) /\ from[e] = p /\ to[e] = q
    /\ Insert(d, p, q, b)

(* create_realtime_social_trade: the advisory lock is that of the pair, and*)
(* only the sender must be without another trade.                          *)
CreateTrade(d, p, q, N) ==
    /\ d \in Trades
    /\ ~ \E e \in Trades : status[e] = "inserting" /\ Participants(e) = {p, q}
    /\ ~ \E e \in Trades : Open(e) /\ ~Expired(e, N) /\ p \in Participants(e)
    /\ Insert(d, p, q, Nothing)

CommitCreate(d) ==
    /\ status[d] = "inserting"
    /\ status' = [status EXCEPT ![d] = "pending"]
    /\ UNCHANGED <<owned, offerVars, held, paused, past, partyVars, clientVars, aged>>

(* The items change hands; cozy_remove_item looks once more at what the    *)
(* sender owns.                                                            *)
HandOver(d) ==
    /\ Ledger!Owns(from[d], offer[d][from[d]])
    /\ owned' = Ledger!Traded(from[d], to[d], offer[d][from[d]], offer[d][to[d]])
    /\ End({d}, "completed")
    /\ UNCHANGED <<offerVars, partyVars, aged>>

(* respond_realtime_social_gift, accepted.  Distance, blocks, item policy  *)
(* and capacity may refuse it at any time, which changes nothing.          *)
AcceptGift(d, N) ==
    /\ d \in Gifts /\ status[d] = "pending" /\ to[d] \in online
    /\ IF Expired(d, N)
       THEN Ends({d}, "expired")
       ELSE /\ from[d] \in online
            /\ Available(from[d], offer[d][from[d]], N, {})
            /\ HandOver(d)

Decline(d, N) ==
    /\ status[d] = "pending" /\ to[d] \in online
    /\ Ends({d}, IF Expired(d, N) THEN "expired" ELSE "declined")

OpenTrade(d) ==
    /\ status' = [status EXCEPT ![d] = "negotiating"]
    /\ revision' = [revision EXCEPT ![d] = @ + 1]
    /\ paused' = [paused EXCEPT ![d] = FALSE]
    /\ past' = past \ ({d} \X Deadlines)
    /\ UNCHANGED <<owned, confirmed, offer, agreed, held, partyVars, clientVars, aged>>

(* respond_realtime_social_trade, accepted. *)
AcceptTrade(d, N) ==
    /\ d \in Trades /\ status[d] = "pending" /\ to[d] \in online
    /\ IF Expired(d, N)
       THEN Ends({d}, "expired")
       ELSE from[d] \in online /\ OpenTrade(d)

(* Faulty variant: a trade is cancelled whatever its status is.            *)
CancelAny(d, p) ==
    /\ p \in online /\ p \in Participants(d)
    /\ Ends({d}, "cancelled")

(* cancel_realtime_social_gift, by the sender while it is pending, and     *)
(* cancel_realtime_social_trade, by either player.                         *)
Cancel(d, p) ==
    /\ p \in online
    /\ \/ d \in Gifts /\ status[d] = "pending" /\ p = from[d]
       \/ d \in Trades /\ Open(d) /\ p \in Participants(d)
    /\ Ends({d}, "cancelled")

(* Faulty variant: the offer is replaced under the revision it had.        *)
ReplaceSilently(d, p, b) ==
    /\ confirmed' = [confirmed EXCEPT ![d] = [q \in Players |-> 0]]
    /\ agreed' = [agreed EXCEPT ![d] = [q \in Players |-> NoOffers]]
    /\ offer' = [offer EXCEPT ![d][p] = b]
    /\ held' = [held EXCEPT ![d][p] = b]
    /\ UNCHANGED <<owned, status, revision, paused, past, partyVars, clientVars, aged>>

ReplaceOffer(d, p, b) ==
    /\ revision' = [revision EXCEPT ![d] = @ + 1]
    /\ confirmed' = [confirmed EXCEPT ![d] = [q \in Players |-> 0]]
    /\ agreed' = [agreed EXCEPT ![d] = [q \in Players |-> NoOffers]]
    /\ offer' = [offer EXCEPT ![d][p] = b]
    /\ held' = [held EXCEPT ![d][p] = b]
    /\ UNCHANGED <<owned, status, paused, past, partyVars, clientVars, aged>>

(* update_realtime_social_trade_offer with the current revision: replaces  *)
(* the actor's offer and reservations, clears both confirmations.          *)
UpdateOffer(d, p, b, N) ==
    /\ d \in Negotiating(p) /\ p \in online
    /\ IF Overdue(d, N)
       THEN Ends({d}, "expired")
       ELSE /\ ~paused[d] /\ revision[d] < MaxRev
            /\ Available(p, b, N, {d})
            /\ ReplaceOffer(d, p, b)
-----------------------------------------------------------------------------
(* confirm_realtime_social_trade, called with the revision the player's    *)
(* client shows.                                                           *)
MayConfirm(d, p) ==
    /\ d \in Negotiating(p) /\ p \in online
    /\ seen[p].deal = d /\ seen[p].rev = revision[d]
    /\ ~paused[d]
    /\ \A q \in Participants(d) : offer[d][q] # Nothing

Confirm(d, p) ==
    /\ MayConfirm(d, p)
    /\ confirmed' = [confirmed EXCEPT ![d][p] = revision[d]]
    /\ agreed' = [agreed EXCEPT ![d][p] = seen[p].offers]
    /\ UNCHANGED <<revision, offer, partyVars, aged>>

(* The first confirmation, or a second one that distance, a block, a full  *)
(* inventory or a missing item keeps from settling: the call answers an    *)
(* error and the confirmation stays.                                       *)
RecordConfirmation(d, p) == Confirm(d, p) /\ UNCHANGED <<owned, lifeVars, clientVars>>

(* Both confirmed this revision, both are there, every offered row is      *)
(* still reserved, and the player owns all that is reserved of that item.  *)
MaySettle(d, p, N) ==
    /\ MayConfirm(d, p)
    /\ confirmed[d][Other(d, p)] = revision[d]
    /\ Participants(d) \subseteq online
    /\ ~Expired(d, N)
    /\ \A q \in Participants(d) :
         /\ held[d][q] = offer[d][q]
         /\ \A i \in Items : offer[d][q][i] > 0 => Reserved(q, i, Live(N)) <= owned[q][i]

(* Faulty variant: only the sender's items change hands.                   *)
SettleOneWay(d, p, N) ==
    /\ MaySettle(d, p, N)
    /\ owned' = Ledger!Traded(from[d], to[d], offer[d][from[d]], Nothing)
    /\ End({d}, "completed")
    /\ Confirm(d, p)

(* cozy_remove_item looks once more at what the player owns. *)
Settle(d, p, N) ==
    /\ MaySettle(d, p, N)
    /\ \A q \in Participants(d) : Ledger!Owns(q, offer[d][q])
    /\ owned' = Ledger!Traded(from[d], to[d], offer[d][from[d]], offer[d][to[d]])
    /\ End({d}, "completed")
    /\ Confirm(d, p)

(* An item cannot be removed or added after all (the totals fit, but the   *)
(* slots are fragmented): the moves are rolled back, the trade has failed. *)
FailSettlement(d, p, N) ==
    /\ MaySettle(d, p, N)
    /\ End({d}, "failed")
    /\ Confirm(d, p)
    /\ UNCHANGED owned
-----------------------------------------------------------------------------
(* handle_realtime_social_disconnect.  finalize() calls it for a connection*)
(* that may long be replaced by another of the same player.                *)
PauseTrades(p) ==
    LET S == Negotiating(p) IN
    /\ MayLeave /\ S # {}
    /\ paused' = [d \in Deals |-> paused[d] \/ d \in S]
    /\ past' = {x \in past : x[1] \in S => x[2] = "expiry"}
                 \cup {<<d, "grace">> : d \in {e \in S : Expired(e, past)}}
    /\ UNCHANGED <<owned, status, held, offerVars, partyVars, clientVars, aged>>

(* ... for a channel switch, a world transition or a loss of access. *)
InvalidateAll(p) ==
    LET S == {d \in Deals : Open(d) /\ p \in Participants(d)} IN
    S # {} /\ Ends(S, "invalidated")

(* invalidate_realtime_social_pair, when p blocks q. *)
InvalidatePair(p, q) ==
    LET S == {d \in Deals : Open(d) /\ Participants(d) = {p, q}} IN
    p \in online /\ S # {} /\ Ends(S, "invalidated")

(* resume_realtime_social_trade: the other player must be there too. *)
Resume(d, p, N) ==
    /\ d \in Negotiating(p) /\ p \in online /\ paused[d]
    /\ IF GraceOver(d, N)
       THEN Ends({d}, "expired")
       ELSE /\ Other(d, p) \in online
            /\ paused' = [paused EXCEPT ![d] = FALSE]
            /\ past' = past \ {<<d, "grace">>}
            /\ UNCHANGED <<owned, status, held, offerVars, partyVars, clientVars, aged>>

(* get_realtime_social_bootstrap, called at admission, on every            *)
(* revalidation and after every social operation: its update lifts the     *)
(* pause of the player's trades when p is in their channel, then it reads  *)
(* the row of one of them ...                                              *)
Bootstrap(p, here, N) ==
    LET lifted == {d \in Negotiating(p) : here /\ paused[d] /\ <<d, "grace">> \notin N}
        shown == {d \in Negotiating(p) : ~Expired(d, N)}
    IN /\ MayBootstrap /\ p \in online /\ boot[p] = NoBoot
       /\ paused' = [d \in Deals |-> paused[d] /\ d \notin lifted]
       /\ past' = past \ (lifted \X {"grace"})
       /\ boot' \in [Players -> {NoBoot} \cup {[deal |-> d, rev |-> revision[d]] : d \in shown}]
       /\ \A q \in Players \ {p} : boot'[q] = boot[q]
       /\ shown # {} => boot'[p] # NoBoot
       /\ UNCHANGED <<owned, status, held, offerVars, partyVars, online, seen, aged>>

(* ... and the offer rows in a statement of their own. *)
AnswerBootstrap(p) ==
    /\ boot[p] # NoBoot
    /\ seen' = [seen EXCEPT ![p] = [deal |-> boot[p].deal, rev |-> boot[p].rev,
                                    offers |-> offer[boot[p].deal]]]
    /\ boot' = [boot EXCEPT ![p] = NoBoot]
    /\ UNCHANGED <<owned, offerVars, lifeVars, partyVars, online, aged>>

(* A client shows what an operation on the trade published. *)
ShowTrade(p, d) ==
    /\ d \in Negotiating(p) /\ p \in online
    /\ seen' = [seen EXCEPT ![p] = [deal |-> d, rev |-> revision[d], offers |-> offer[d]]]
    /\ UNCHANGED <<owned, offerVars, lifeVars, partyVars, online, boot, aged>>
-----------------------------------------------------------------------------
(* cleanup_social_interactions.  Its last statement deletes idempotency    *)
(* rows older than a day, which a trigger on that table rejects: as soon   *)
(* as there is one, the call is rolled back.                               *)
Cleanup(S) ==
    /\ S # {} /\ S \subseteq {d \in Deals : Open(d) /\ Overdue(d, past)}
    /\ ~aged
    /\ Ends(S, "expired")

Age ==
    /\ MayAge /\ ~aged
    /\ \E d \in Deals : status[d] \in Final
    /\ aged' = TRUE
    /\ UNCHANGED <<owned, offerVars, lifeVars, partyVars, clientVars>>

Pass(d, x) ==
    /\ <<d, x>> \notin past
    /\ past' = past \cup {<<d, x>>}
    /\ UNCHANGED <<owned, status, held, paused, offerVars, partyVars, clientVars, aged>>

(* The reconnect deadline is never later than expires_at. *)
PassDeadline(d) ==
    \/ Open(d) /\ (paused[d] => <<d, "grace">> \in past) /\ Pass(d, "expiry")
    \/ paused[d] /\ Pass(d, "grace")

(* cozy_remove_item, called by crafting, shops and quests, which do not    *)
(* look at reservations.                                                   *)
Consume(p, i) ==
    /\ MayConsume /\ owned[p][i] > 0
    /\ owned' = [owned EXCEPT ![p][i] = @ - 1]
    /\ UNCHANGED <<offerVars, lifeVars, partyVars, clientVars, aged>>

ComeAndGo(p) ==
    /\ MayLeave
    /\ online' = IF p \in online THEN online \ {p} ELSE online \cup {p}
    /\ UNCHANGED <<owned, offerVars, lifeVars, partyVars, seen, boot, aged>>

Next ==
    \/ \E N \in SUBSET past :
         \/ \E p, q \in Players, d \in Deals :
              CreateTrade(d, p, q, N) \/ \E b \in Bundles : CreateGift(d, p, q, b, N)
         \/ \E d \in Deals : AcceptGift(d, N) \/ Decline(d, N) \/ AcceptTrade(d, N)
         \/ \E d \in Deals, p \in Players :
              \/ \E b \in Bundles : UpdateOffer(d, p, b, N)
              \/ Settle(d, p, N) \/ FailSettlement(d, p, N) \/ Resume(d, p, N)
         \/ \E p \in Players, here \in BOOLEAN : Bootstrap(p, here, N)
    \/ \E d \in Deals : CommitCreate(d) \/ PassDeadline(d)
    \/ \E d \in Deals, p \in Players :
         Cancel(d, p) \/ RecordConfirmation(d, p) \/ ShowTrade(p, d)
    \/ \E p, q \in Players : InvalidatePair(p, q)
    \/ \E p \in Players : \/ PauseTrades(p) \/ InvalidateAll(p)
                          \/ AnswerBootstrap(p) \/ ComeAndGo(p)
                          \/ \E i \in Items : Consume(p, i)
    \/ \E S \in SUBSET Deals : Cleanup(S)
    \/ Age

Spec == Init /\ [][Next]_vars

(* The worker keeps calling the cleanup, with a batch that takes all.      *)
FairSpec == Spec /\ WF_vars(\E S \in SUBSET Deals : Cleanup(S))
-----------------------------------------------------------------------------
(* What is settled is what both players saw when they confirmed, although  *)
(* offers change between a view and a confirmation, a bootstrap may show   *)
(* the row and the offers of different moments, and a confirmation that    *)
(* could not settle stays until a later one does.                          *)
SettledAsSeen ==
    \A d \in Trades : status[d] = "completed" =>
        \A p \in Participants(d) : agreed[d][p] = offer[d]

(* What a player has reserved in all trades that are not past their expiry *)
(* is really there, while no other gameplay takes it away without looking  *)
(* at reservations: no two trades, no trade and gift count on one item,    *)
(* with clocks that are behind and reservations that expire in between.    *)
ReservationsBacked ==
    \A p \in Players, i \in Items : Reserved(p, i, Live(past)) <= owned[p][i]

(* "Cancellation, invalidation, expiry, and completed settlement release   *)
(* all reservations", and nothing reserves before the trade is accepted.   *)
NothingHeld == \A d \in Deals : held[d] # NoOffers => status[d] = "negotiating"

(* A request that has an outcome keeps it, and the offers of a completed   *)
(* one stay as its receipt has them, whatever calls still arrive.          *)
OutcomeIsFinal ==
    [][\A d \in Deals : status[d] \in Final =>
         status'[d] = status[d] /\ offer'[d] = offer[d]]_vars

(* Every step moves items between two players at once, or uses them up.    *)
ImplementsExchange == Ledger!ExchangeSpec

(* "Pending requests and reconnect deadlines expire through a worker-only  *)
(* bounded RPC."                                                           *)
OverdueExpires ==
    \A d \in Deals : (Open(d) /\ Expired(d, past)) ~> ~(Open(d) /\ Expired(d, past))
=============================================================================
