-------------------------- MODULE SocialTradeProofs --------------------------
(***************************************************************************)
(* Proofs about SocialTrade.  StepShape first reduces the functions of the *)
(* database to the few things they do to a request; every invariant is     *)
(* then shown once per such effect.                                        *)
(***************************************************************************)
EXTENDS SocialTrade, SumTheorems

(* Only deadlines move, and none of them back before an expiry. *)
DeadlinesMove ==
    /\ \A d \in Deals : Expired(d, past) => Expired(d, past)'
    /\ paused' \in [Deals -> BOOLEAN]
    /\ past' \in SUBSET (Deals \X Deadlines)
    /\ UNCHANGED <<owned, status, held, offerVars, partyVars, online, seen, aged>>

Starts(d, p, q, b) ==
    /\ d \in Deals /\ p \in Players /\ q \in Players /\ b \in Bundles
    /\ d \in Trades => b = Nothing
    /\ Insert(d, p, q, b)

StatusMoves(d) == CommitCreate(d) \/ (d \in Trades /\ status[d] = "pending" /\ OpenTrade(d))

Replaces(d, p, b) ==
    /\ d \in Negotiating(p) /\ p \in Players /\ b \in Bundles /\ revision[d] < MaxRev
    /\ \E N \in SUBSET past : Available(p, b, N, {d})
    /\ ReplaceOffer(d, p, b)

(* A request ends in another way than by its completion. *)
Undone == Final \ {"completed"}

EndsOpen(S, s) == S \in SUBSET Deals /\ s \in Undone /\ (\A d \in S : Open(d)) /\ Ends(S, s)

Gives(d) ==
    /\ d \in Gifts /\ status[d] = "pending" /\ HandOver(d)
    /\ \E N \in SUBSET past : Available(from[d], offer[d][from[d]], N, {})

ConfirmStep(d, p) ==
    /\ d \in Trades /\ p \in Players
    /\ \/ RecordConfirmation(d, p)
       \/ \E N \in SUBSET past : Settle(d, p, N) \/ FailSettlement(d, p, N)

(* A bootstrap's first statement, for the client's part. *)
Reads(p) ==
    /\ DeadlinesMove
    /\ boot' \in [Players -> [deal : Deals \cup {NoDeal}, rev : 0..MaxRev]]
    /\ \A q \in Players :
         \/ boot'[q] = boot[q]
         \/ boot'[q] = NoBoot
         \/ \E d \in Negotiating(q) : boot'[q] = [deal |-> d, rev |-> revision[d]]

ClientStep ==
    \/ \E p \in Players : AnswerBootstrap(p) \/ (\E d \in Trades : ShowTrade(p, d)) \/ Reads(p)
    \/ DeadlinesMove /\ UNCHANGED boot

EnvStep ==
    \/ \E p \in Players : ComeAndGo(p) \/ (\E i \in Items : Consume(p, i))
    \/ Age
    \/ UNCHANGED vars

Shape ==
    \/ \E d \in Deals, p, q \in Players, b \in Bundles : Starts(d, p, q, b)
    \/ \E d \in Deals : StatusMoves(d) \/ Gives(d)
    \/ \E d \in Trades, p \in Players, b \in Bundles : Replaces(d, p, b)
    \/ \E S \in SUBSET Deals, s \in Undone : EndsOpen(S, s)
    \/ \E d \in Trades, p \in Players : ConfirmStep(d, p)
    \/ ClientStep
    \/ EnvStep

LEMMA NothingTyped ==
    /\ Nothing \in Bundles
    /\ NoOffers \in Offers
BY TradeAssumption DEF Nothing, NoOffers, Offers, Bundles, Ledger!Bundles

(* Every step is one of these effects. *)
LEMMA StepShape ==
    ASSUME TypeOK, [Next]_vars
    PROVE  Shape
<1> USE DEF Shape
<1>1. ASSUME NEW N \in SUBSET past, NEW p \in Players, NEW q \in Players, NEW d \in Deals,
             CreateTrade(d, p, q, N) \/ \E b \in Bundles : CreateGift(d, p, q, b, N)
      PROVE  Shape
  BY <1>1, NothingTyped, TradeAssumption DEF CreateTrade, CreateGift, Starts
<1>2. ASSUME NEW N \in SUBSET past, NEW d \in Deals,
             AcceptGift(d, N) \/ Decline(d, N) \/ AcceptTrade(d, N)
      PROVE  Shape
  <2>1. CASE AcceptGift(d, N)
    <3>1. CASE Expired(d, N)
      <4>1. EndsOpen({d}, "expired")
        BY <2>1, <3>1 DEF AcceptGift, EndsOpen, Open, Final, Undone
      <4> QED BY <4>1 DEF Final, Undone
    <3>2. CASE ~Expired(d, N)
      BY <2>1, <3>2 DEF AcceptGift, Gives
    <3> QED BY <3>1, <3>2
  <2>2. CASE Decline(d, N)
    <3>1. \E s \in Undone : EndsOpen({d}, s)
      BY <2>2 DEF Decline, EndsOpen, Open, Final, Undone
    <3> QED BY <3>1
  <2>3. CASE AcceptTrade(d, N)
    <3>1. CASE Expired(d, N)
      <4>1. EndsOpen({d}, "expired")
        BY <2>3, <3>1 DEF AcceptTrade, EndsOpen, Open, Final, Undone
      <4> QED BY <4>1 DEF Final, Undone
    <3>2. CASE ~Expired(d, N)
      BY <2>3, <3>2 DEF AcceptTrade, StatusMoves
    <3> QED BY <3>1, <3>2
  <2> QED BY <1>2, <2>1, <2>2, <2>3
<1>3. ASSUME NEW N \in SUBSET past, NEW d \in Deals, NEW p \in Players,
             NEW b \in Bundles, UpdateOffer(d, p, b, N)
      PROVE  Shape
  <2>1. CASE Overdue(d, N)
    <3>1. EndsOpen({d}, "expired")
      BY <1>3, <2>1 DEF UpdateOffer, EndsOpen, Open, Final, Undone, Negotiating
    <3> QED BY <3>1 DEF Final, Undone
  <2>2. CASE ~Overdue(d, N)
    BY <1>3, <2>2 DEF UpdateOffer, Replaces, Negotiating
  <2> QED BY <2>1, <2>2
<1>4. ASSUME NEW N \in SUBSET past, NEW d \in Deals, NEW p \in Players,
             Settle(d, p, N) \/ FailSettlement(d, p, N)
      PROVE  Shape
  <2>1. d \in Trades
    BY <1>4 DEF Settle, FailSettlement, MaySettle, MayConfirm, Negotiating
  <2> QED BY <1>4, <2>1 DEF ConfirmStep
<1>5. ASSUME NEW d \in Deals, NEW p \in Players, RecordConfirmation(d, p)
      PROVE  Shape
  <2>1. d \in Trades
    BY <1>5 DEF RecordConfirmation, Confirm, MayConfirm, Negotiating
  <2> QED BY <1>5, <2>1 DEF ConfirmStep
<1>6. ASSUME NEW N \in SUBSET past, NEW d \in Deals, NEW p \in Players, Resume(d, p, N)
      PROVE  Shape
  <2>1. CASE GraceOver(d, N)
    <3>1. EndsOpen({d}, "expired")
      BY <1>6, <2>1 DEF Resume, EndsOpen, Open, Final, Undone, Negotiating
    <3> QED BY <3>1 DEF Final, Undone
  <2>2. CASE ~GraceOver(d, N)
    <3>1. \A e \in Deals : Expired(e, past) => Expired(e, past)'
      BY <1>6, <2>2 DEF Resume, Expired
    <3> QED BY <1>6, <2>2, <3>1 DEF Resume, ClientStep, DeadlinesMove, clientVars, TypeOK
  <2> QED BY <2>1, <2>2
<1>7. ASSUME NEW N \in SUBSET past, NEW p \in Players, NEW here \in BOOLEAN,
             Bootstrap(p, here, N)
      PROVE  Shape
  <2>0. \A e \in Deals : Expired(e, past) => Expired(e, past)'
    BY <1>7 DEF Bootstrap, Expired
  <2>1. DeadlinesMove
    BY <1>7, <2>0 DEF Bootstrap, DeadlinesMove, TypeOK, Negotiating
  <2>2. \A q \in Players : q # p => boot'[q] = boot[q]
    BY <1>7 DEF Bootstrap
  <2>3. \/ boot'[p] = NoBoot
        \/ \E d \in Negotiating(p) : boot'[p] = [deal |-> d, rev |-> revision[d]]
    BY <1>7 DEF Bootstrap
  <2>4. boot' \in [Players -> [deal : Deals \cup {NoDeal}, rev : 0..MaxRev]]
    <3>1. {NoBoot} \cup {[deal |-> d, rev |-> revision[d]] : d \in Negotiating(p)}
            \subseteq [deal : Deals \cup {NoDeal}, rev : 0..MaxRev]
      BY TradeAssumption DEF TypeOK, NoBoot, Negotiating, Deals
    <3> QED BY <1>7, <3>1 DEF Bootstrap
  <2>5. Reads(p)
    BY <2>1, <2>2, <2>3, <2>4 DEF Reads
  <2> QED BY <2>5 DEF ClientStep
<1>8. ASSUME NEW d \in Deals, CommitCreate(d) \/ PassDeadline(d) PROVE Shape
  <2>1. CASE CommitCreate(d)
    BY <2>1 DEF StatusMoves
  <2>2. CASE PassDeadline(d)
    <3>1. \A e \in Deals : Expired(e, past) => Expired(e, past)'
      BY <2>2 DEF PassDeadline, Pass, Expired
    <3> QED BY <2>2, <3>1
            DEF PassDeadline, Pass, ClientStep, DeadlinesMove, clientVars, TypeOK, Deadlines
  <2> QED BY <1>8, <2>1, <2>2
<1>9. ASSUME NEW d \in Deals, NEW p \in Players, Cancel(d, p) \/ ShowTrade(p, d) PROVE Shape
  <2>1. CASE Cancel(d, p)
    <3>1. EndsOpen({d}, "cancelled")
      BY <2>1 DEF Cancel, EndsOpen, Open, Final, Undone
    <3> QED BY <3>1 DEF Final, Undone
  <2>2. CASE ShowTrade(p, d)
    BY <2>2 DEF ShowTrade, Negotiating, ClientStep
  <2> QED BY <1>9, <2>1, <2>2
<1>10. ASSUME NEW p \in Players, NEW q \in Players, InvalidatePair(p, q) PROVE Shape
  <2>1. EndsOpen({d \in Deals : Open(d) /\ Participants(d) = {p, q}}, "invalidated")
    BY <1>10 DEF InvalidatePair, EndsOpen, Final, Undone
  <2> QED BY <2>1 DEF Final, Undone
<1>11. ASSUME NEW p \in Players, PauseTrades(p) PROVE Shape
  <2>0. \A e \in Deals : Expired(e, past) => Expired(e, past)'
    BY <1>11 DEF PauseTrades, Expired
  <2>1. DeadlinesMove /\ UNCHANGED boot
    BY <1>11, <2>0 DEF PauseTrades, DeadlinesMove, clientVars, TypeOK, Deadlines, Negotiating, Deals
  <2> QED BY <2>1 DEF ClientStep
<1>12. ASSUME NEW p \in Players, InvalidateAll(p) PROVE Shape
  <2>1. EndsOpen({d \in Deals : Open(d) /\ p \in Participants(d)}, "invalidated")
    BY <1>12 DEF InvalidateAll, EndsOpen, Final, Undone
  <2> QED BY <2>1 DEF Final, Undone
<1>13. ASSUME NEW p \in Players,
              AnswerBootstrap(p) \/ ComeAndGo(p) \/ \E i \in Items : Consume(p, i)
       PROVE  Shape
  BY <1>13 DEF ClientStep, EnvStep
<1>14. ASSUME NEW S \in SUBSET Deals, Cleanup(S) PROVE Shape
  <2>1. EndsOpen(S, "expired")
    BY <1>14 DEF Cleanup, EndsOpen, Final, Undone
  <2> QED BY <2>1 DEF Final, Undone
<1>15. ASSUME Age \/ UNCHANGED vars PROVE Shape
  BY <1>15 DEF EnvStep
<1> QED
  BY <1>1, <1>2, <1>3, <1>4, <1>5, <1>6, <1>7, <1>8, <1>9, <1>10, <1>11, <1>12,
     <1>13, <1>14, <1>15 DEF Next
-----------------------------------------------------------------------------
(* What a request is before and after it was inserted. *)
RequestOK(d) ==
    /\ status[d] = "none" => offer[d] = NoOffers /\ revision[d] = 0
    /\ status[d] # "none" => /\ from[d] \in Players /\ to[d] \in Players
                             /\ from[d] # to[d]
                             /\ revision[d] >= 1
    /\ status[d] \in {"none", "inserting", "pending"} =>
         revision[d] <= 1 /\ \A p \in Players : confirmed[d][p] = 0
    /\ d \in Gifts /\ status[d] # "none" => offer[d][to[d]] = Nothing

RequestInv == \A d \in Deals : RequestOK(d)

(* What a client shows, or is about to, is never newer than the request;   *)
(* under the current revision it shows the current offers.  A bootstrap    *)
(* reads the revision first, so later offers come with an old revision.    *)
ViewOK(p) ==
    /\ seen[p].deal \in Deals =>
         /\ 1 <= seen[p].rev /\ seen[p].rev <= revision[seen[p].deal]
         /\ seen[p].rev = revision[seen[p].deal] => seen[p].offers = offer[seen[p].deal]
    /\ boot[p] # NoBoot =>
         /\ boot[p].deal \in Trades
         /\ 1 <= boot[p].rev /\ boot[p].rev <= revision[boot[p].deal]

ViewInv == \A p \in Players : ViewOK(p)

(* A confirmation that counts is one of the current offers. *)
ConfirmedInv ==
    \A d \in Deals, p \in Players :
        confirmed[d][p] > 0 => confirmed[d][p] = revision[d] /\ agreed[d][p] = offer[d]

(* A completed trade is one that both have confirmed. *)
CompletedInv ==
    \A d \in Trades : status[d] = "completed" =>
        \A p \in Participants(d) : confirmed[d][p] > 0

TradeInv == TypeOK /\ RequestInv /\ NothingHeld /\ ViewInv /\ ConfirmedInv /\ CompletedInv

Views == [deal : Deals \cup {NoDeal}, rev : 0..MaxRev, offers : Offers]

LEMMA EndTyped ==
    ASSUME TypeOK, NEW S \in SUBSET Deals, NEW s \in Final, End(S, s)
    PROVE  /\ status' \in [Deals -> Statuses]
           /\ held' \in [Deals -> Offers]
           /\ paused' \in [Deals -> BOOLEAN]
           /\ past' \in SUBSET (Deals \X Deadlines)
           /\ seen' \in [Players -> Views]
           /\ online' = online /\ boot' = boot
BY NothingTyped, TradeAssumption DEF TypeOK, End, Forget, Statuses, Views, NoTrade

(* Items that change hands stay whole numbers of items. *)
LEMMA TradedTyped ==
    ASSUME TypeOK, NEW p \in Players, NEW q \in Players, p # q,
           NEW give \in Bundles, NEW take \in Bundles,
           Ledger!Owns(p, give), Ledger!Owns(q, take)
    PROVE  Ledger!Traded(p, q, give, take) \in [Players -> [Items -> Nat]]
<1>1. \A i \in Items : /\ give[i] \in Nat /\ take[i] \in Nat
                       /\ \A r \in Players : owned[r][i] \in Nat
  BY TradeAssumption DEF TypeOK, Bundles, Ledger!Bundles
<1>2. ASSUME NEW r \in Players, NEW i \in Items
      PROVE  (IF r = p THEN owned[r][i] - give[i] + take[i]
              ELSE IF r = q THEN owned[r][i] - take[i] + give[i] ELSE owned[r][i]) \in Nat
  BY <1>1 DEF Ledger!Owns
<1> QED BY <1>2 DEF Ledger!Traded

(* A confirmation, whatever follows from it, records what its client shows *)
(* under the revision that is current.                                     *)
LEMMA ConfirmTyped ==
    ASSUME TypeOK, NEW d \in Trades, NEW p \in Players, Confirm(d, p)
    PROVE  /\ confirmed' \in [Deals -> [Players -> 0..MaxRev]]
           /\ agreed' \in [Deals -> [Players -> Offers]]
<1>1. d \in Deals
  BY DEF Deals
<1>2. revision[d] \in 0..MaxRev /\ seen[p].offers \in Offers
  BY <1>1 DEF TypeOK
<1> QED BY <1>1, <1>2 DEF Confirm, TypeOK

LEMMA TypeStep ==
    ASSUME TradeInv, Shape
    PROVE  TypeOK'
<1> USE DEF TradeInv
<1>1. ASSUME NEW d \in Deals, NEW p \in Players, NEW q \in Players, NEW b \in Bundles,
             Starts(d, p, q, b)
      PROVE  TypeOK'
  <2>1. offer' \in [Deals -> Offers]
    BY <1>1 DEF Starts, Insert, TypeOK, Offers
  <2>2. revision' \in [Deals -> 0..MaxRev]
    BY <1>1, TradeAssumption DEF Starts, Insert, TypeOK
  <2>3. status' \in [Deals -> Statuses]
    BY <1>1 DEF Starts, Insert, TypeOK, Statuses
  <2> QED BY <1>1, <2>1, <2>2, <2>3 DEF Starts, Insert, TypeOK, clientVars
<1>2. ASSUME NEW d \in Deals, StatusMoves(d) PROVE TypeOK'
  <2>1. CASE CommitCreate(d)
    BY <2>1 DEF CommitCreate, TypeOK, Statuses, offerVars, partyVars, clientVars
  <2>2. CASE d \in Trades /\ status[d] = "pending" /\ OpenTrade(d)
    <3>1. revision[d] + 1 \in 0..MaxRev
      BY <2>2, TradeAssumption DEF RequestInv, RequestOK, TypeOK
    <3> QED BY <2>2, <3>1 DEF OpenTrade, TypeOK, Statuses, partyVars, clientVars
  <2> QED BY <1>2, <2>1, <2>2 DEF StatusMoves
<1>3. ASSUME NEW d \in Deals, Gives(d) PROVE TypeOK'
  <2>1. from[d] \in Players /\ to[d] \in Players /\ from[d] # to[d] /\ offer[d][to[d]] = Nothing
    BY <1>3 DEF Gives, RequestInv, RequestOK
  <2>2. Ledger!Owns(to[d], offer[d][to[d]])
    BY <2>1 DEF Ledger!Owns, TypeOK, Nothing
  <2>3. offer[d][from[d]] \in Bundles /\ offer[d][to[d]] \in Bundles
    BY <2>1 DEF TypeOK, Offers
  <2>4. owned' \in [Players -> [Items -> Nat]]
    BY <1>3, <2>1, <2>2, <2>3, TradedTyped DEF Gives, HandOver
  <2>5. End({d}, "completed")
    BY <1>3 DEF Gives, HandOver
  <2>6. /\ status' \in [Deals -> Statuses] /\ held' \in [Deals -> Offers]
        /\ paused' \in [Deals -> BOOLEAN] /\ past' \in SUBSET (Deals \X Deadlines)
        /\ seen' \in [Players -> Views] /\ online' = online /\ boot' = boot
    BY <2>5, EndTyped DEF Final
  <2> QED BY <1>3, <2>4, <2>6 DEF Gives, HandOver, TypeOK, Views, offerVars, partyVars
<1>4. ASSUME NEW d \in Trades, NEW p \in Players, NEW b \in Bundles, Replaces(d, p, b)
      PROVE  TypeOK'
  <2>1. d \in Deals /\ revision[d] + 1 \in 0..MaxRev
    BY <1>4, TradeAssumption DEF Replaces, TypeOK, Deals
  <2>2. offer' \in [Deals -> Offers] /\ held' \in [Deals -> Offers]
    BY <1>4, <2>1 DEF Replaces, ReplaceOffer, TypeOK, Offers
  <2>3. confirmed' \in [Deals -> [Players -> 0..MaxRev]]
    BY <1>4, <2>1, TradeAssumption DEF Replaces, ReplaceOffer, TypeOK
  <2>4. agreed' \in [Deals -> [Players -> Offers]]
    BY <1>4, <2>1, NothingTyped DEF Replaces, ReplaceOffer, TypeOK
  <2> QED BY <1>4, <2>1, <2>2, <2>3, <2>4
          DEF Replaces, ReplaceOffer, TypeOK, partyVars, clientVars
<1>5. ASSUME NEW S \in SUBSET Deals, NEW s \in Undone, EndsOpen(S, s) PROVE TypeOK'
  <2>1. /\ status' \in [Deals -> Statuses] /\ held' \in [Deals -> Offers]
        /\ paused' \in [Deals -> BOOLEAN] /\ past' \in SUBSET (Deals \X Deadlines)
        /\ seen' \in [Players -> Views] /\ online' = online /\ boot' = boot
    BY <1>5, EndTyped DEF EndsOpen, Ends, Undone
  <2> QED BY <1>5, <2>1 DEF EndsOpen, Ends, TypeOK, Views, offerVars, partyVars
<1>6. ASSUME NEW d \in Trades, NEW p \in Players, ConfirmStep(d, p) PROVE TypeOK'
  <2>1. Confirm(d, p)
    BY <1>6 DEF ConfirmStep, RecordConfirmation, Settle, FailSettlement
  <2>2. /\ confirmed' \in [Deals -> [Players -> 0..MaxRev]]
        /\ agreed' \in [Deals -> [Players -> Offers]]
    BY <2>1, ConfirmTyped
  <2>3. CASE RecordConfirmation(d, p)
    BY <2>2, <2>3 DEF RecordConfirmation, Confirm, TypeOK, lifeVars, partyVars, clientVars
  <2>4. ASSUME NEW N \in SUBSET past, Settle(d, p, N) PROVE TypeOK'
    <3>1. d \in Deals /\ status[d] = "negotiating"
      BY <2>4 DEF Settle, MaySettle, MayConfirm, Negotiating, Deals
    <3>2. /\ from[d] \in Players /\ to[d] \in Players /\ from[d] # to[d]
          /\ offer[d][from[d]] \in Bundles /\ offer[d][to[d]] \in Bundles
      BY <3>1 DEF RequestInv, RequestOK, TypeOK, Offers
    <3>3. owned' \in [Players -> [Items -> Nat]]
      BY <2>4, <3>2, TradedTyped DEF Settle, Participants
    <3>4. /\ status' \in [Deals -> Statuses] /\ held' \in [Deals -> Offers]
          /\ paused' \in [Deals -> BOOLEAN] /\ past' \in SUBSET (Deals \X Deadlines)
          /\ seen' \in [Players -> Views] /\ online' = online /\ boot' = boot
        /\ seen' \in [Players -> Views] /\ online' = online /\ boot' = boot
      BY <2>4, <3>1, EndTyped DEF Settle, Final
    <3> QED BY <2>1, <2>2, <3>3, <3>4 DEF Confirm, TypeOK, Views, partyVars
  <2>5. ASSUME NEW N \in SUBSET past, FailSettlement(d, p, N) PROVE TypeOK'
    <3>1. /\ status' \in [Deals -> Statuses] /\ held' \in [Deals -> Offers]
          /\ paused' \in [Deals -> BOOLEAN] /\ past' \in SUBSET (Deals \X Deadlines)
          /\ seen' \in [Players -> Views] /\ online' = online /\ boot' = boot
        /\ seen' \in [Players -> Views] /\ online' = online /\ boot' = boot
      BY <2>5, EndTyped DEF FailSettlement, Final, Deals
    <3> QED BY <2>1, <2>2, <2>5, <3>1 DEF FailSettlement, Confirm, TypeOK, Views, partyVars
  <2> QED BY <1>6, <2>3, <2>4, <2>5 DEF ConfirmStep
<1>7. ASSUME ClientStep PROVE TypeOK'
  <2>1. ASSUME NEW p \in Players, AnswerBootstrap(p) PROVE TypeOK'
    <3>1. boot[p].deal \in Deals /\ boot[p].rev \in 0..MaxRev
      BY <2>1 DEF AnswerBootstrap, ViewInv, ViewOK, TypeOK, Deals
    <3>2. offer[boot[p].deal] \in Offers
      BY <3>1 DEF TypeOK
    <3>3. seen' \in [Players -> [deal : Deals \cup {NoDeal}, rev : 0..MaxRev, offers : Offers]]
      BY <2>1, <3>1, <3>2 DEF AnswerBootstrap, TypeOK
    <3>4. NoBoot \in [deal : Deals \cup {NoDeal}, rev : 0..MaxRev]
      BY TradeAssumption DEF NoBoot
    <3>5. boot' \in [Players -> [deal : Deals \cup {NoDeal}, rev : 0..MaxRev]]
      BY <2>1, <3>4 DEF AnswerBootstrap, TypeOK
    <3> QED BY <2>1, <3>3, <3>5
            DEF AnswerBootstrap, TypeOK, offerVars, lifeVars, partyVars
  <2>2. ASSUME NEW p \in Players, NEW d \in Trades, ShowTrade(p, d) PROVE TypeOK'
    <3>1. d \in Deals /\ offer[d] \in Offers /\ revision[d] \in 0..MaxRev
      BY DEF TypeOK, Deals
    <3> QED BY <2>2, <3>1 DEF ShowTrade, TypeOK, offerVars, lifeVars, partyVars
  <2>3. ASSUME NEW p \in Players, Reads(p) PROVE TypeOK'
    BY <2>3 DEF Reads, DeadlinesMove, TypeOK, offerVars, partyVars
  <2>4. ASSUME DeadlinesMove, UNCHANGED boot PROVE TypeOK'
    BY <2>4 DEF DeadlinesMove, TypeOK, offerVars, partyVars
  <2> QED BY <1>7, <2>1, <2>2, <2>3, <2>4 DEF ClientStep
<1>8. ASSUME EnvStep PROVE TypeOK'
  <2>1. ASSUME NEW p \in Players, ComeAndGo(p) PROVE TypeOK'
    BY <2>1 DEF ComeAndGo, TypeOK, offerVars, lifeVars, partyVars
  <2>2. ASSUME NEW p \in Players, NEW i \in Items, Consume(p, i) PROVE TypeOK'
    <3>1. owned[p][i] - 1 \in Nat
      BY <2>2 DEF Consume, TypeOK
    <3>2. owned' \in [Players -> [Items -> Nat]]
      BY <2>2, <3>1 DEF Consume, TypeOK
    <3> QED BY <2>2, <3>2 DEF Consume, TypeOK, offerVars, lifeVars, partyVars, clientVars
  <2>3. ASSUME Age \/ UNCHANGED vars PROVE TypeOK'
    BY <2>3 DEF Age, vars, TypeOK, offerVars, lifeVars, partyVars, clientVars
  <2> QED BY <1>8, <2>1, <2>2, <2>3 DEF EnvStep
<1> QED BY <1>1, <1>2, <1>3, <1>4, <1>5, <1>6, <1>7, <1>8 DEF Shape
-----------------------------------------------------------------------------
(* Only Insert gives a request its players, at revision 1 without any      *)
(* confirmation, and only an accepted trade gets further or reserves.      *)
LEMMA RequestStep ==
    ASSUME TradeInv, Shape
    PROVE  RequestInv' /\ NothingHeld'
<1> USE DEF TradeInv
<1>1. ASSUME NEW d \in Deals, NEW p \in Players, NEW q \in Players, NEW b \in Bundles,
             Starts(d, p, q, b)
      PROVE  RequestInv' /\ NothingHeld'
  <2>1. ASSUME NEW e \in Deals, e # d
        PROVE  /\ status'[e] = status[e] /\ from'[e] = from[e] /\ to'[e] = to[e]
               /\ revision'[e] = revision[e] /\ offer'[e] = offer[e]
    BY <1>1, <2>1 DEF Starts, Insert, TypeOK
  <2>2. /\ status[d] = "none" /\ status'[d] = "inserting" /\ from'[d] = p /\ to'[d] = q
        /\ p # q /\ revision'[d] = 1
    BY <1>1, TradeAssumption DEF Starts, Insert, TypeOK
  <2>3. offer'[d][q] = Nothing
    BY <1>1, <2>2 DEF Starts, Insert, TypeOK, RequestInv, RequestOK, NoOffers, Offers
  <2>4. confirmed' = confirmed /\ held' = held
    BY <1>1 DEF Starts, Insert
  <2>5. RequestInv'
    BY <1>1, <2>1, <2>2, <2>3, <2>4 DEF RequestInv, RequestOK, Starts
  <2>6. NothingHeld'
    BY <2>1, <2>2, <2>4 DEF NothingHeld
  <2> QED BY <2>5, <2>6
<1>2. ASSUME NEW d \in Deals, StatusMoves(d) PROVE RequestInv' /\ NothingHeld'
  <2>1. CASE CommitCreate(d)
    BY <2>1 DEF CommitCreate, TypeOK, RequestInv, RequestOK, NothingHeld, offerVars, partyVars
  <2>2. CASE d \in Trades /\ status[d] = "pending" /\ OpenTrade(d)
    <3>1. RequestInv'
      BY <2>2 DEF OpenTrade, TypeOK, RequestInv, RequestOK, partyVars
    <3>2. NothingHeld'
      BY <2>2 DEF OpenTrade, TypeOK, NothingHeld
    <3> QED BY <3>1, <3>2
  <2> QED BY <1>2, <2>1, <2>2 DEF StatusMoves
<1>3. ASSUME NEW S \in SUBSET Deals, NEW s \in Final, \A d \in S : Open(d), End(S, s),
             UNCHANGED <<from, to, revision, offer>>,
             \A d \in Deals, p \in Players : confirmed'[d][p] # confirmed[d][p] => d \in S
      PROVE  RequestInv' /\ NothingHeld'
  <2>1. ASSUME NEW d \in S PROVE status[d] \in {"pending", "negotiating"} /\ status'[d] = s
    BY <1>3 DEF Open, End
  <2>2. ASSUME NEW d \in Deals \ S PROVE status'[d] = status[d] /\ held'[d] = held[d]
    BY <1>3 DEF End
  <2>3. \A d \in S : held'[d] = NoOffers
    BY <1>3 DEF End
  <2>4. RequestInv'
    <3> SUFFICES ASSUME NEW d \in Deals PROVE RequestOK(d)'
      BY DEF RequestInv, RequestOK
    <3>1. CASE d \in S
      BY <1>3, <2>1, <3>1 DEF RequestInv, RequestOK, Final
    <3>2. CASE d \notin S
      BY <1>3, <2>2, <3>2 DEF RequestInv, RequestOK
    <3> QED BY <3>1, <3>2
  <2>5. NothingHeld'
    BY <2>2, <2>3 DEF NothingHeld
  <2> QED BY <2>4, <2>5
<1>4. ASSUME NEW d \in Deals, Gives(d) PROVE RequestInv' /\ NothingHeld'
  <2>1. End({d}, "completed") /\ UNCHANGED <<from, to, revision, offer, confirmed>> /\ Open(d)
    BY <1>4 DEF Gives, HandOver, offerVars, partyVars, Open
  <2> QED BY <2>1, <1>3 DEF Final
<1>5. ASSUME NEW d \in Trades, NEW p \in Players, NEW b \in Bundles, Replaces(d, p, b)
      PROVE  RequestInv' /\ NothingHeld'
  <2>1. d \in Deals /\ status[d] = "negotiating" /\ d \notin Gifts
    BY <1>5, TradeAssumption DEF Replaces, Negotiating, Deals
  <2>2. RequestInv'
    BY <1>5, <2>1 DEF Replaces, ReplaceOffer, RequestInv, RequestOK, TypeOK, partyVars
  <2>3. NothingHeld'
    BY <1>5, <2>1 DEF Replaces, ReplaceOffer, NothingHeld, TypeOK
  <2> QED BY <2>2, <2>3
<1>6. ASSUME NEW S \in SUBSET Deals, NEW s \in Undone, EndsOpen(S, s)
      PROVE  RequestInv' /\ NothingHeld'
  BY <1>6, <1>3 DEF EndsOpen, Ends, offerVars, partyVars, Undone
<1>7. ASSUME NEW d \in Trades, NEW p \in Players, ConfirmStep(d, p)
      PROVE  RequestInv' /\ NothingHeld'
  <2>1. Confirm(d, p) /\ d \in Deals /\ status[d] = "negotiating" /\ Open(d)
    BY <1>7 DEF ConfirmStep, RecordConfirmation, Settle, FailSettlement, Confirm, MayConfirm,
                Negotiating, Open, Deals
  <2>2. /\ UNCHANGED <<from, to, revision, offer>>
        /\ \A e \in Deals, q \in Players : confirmed'[e][q] # confirmed[e][q] => e = d
    BY <2>1 DEF Confirm, partyVars, TypeOK
  <2>3. CASE RecordConfirmation(d, p)
    BY <2>1, <2>2, <2>3 DEF RecordConfirmation, RequestInv, RequestOK, NothingHeld, lifeVars
  <2>4. CASE End({d}, "completed")
    BY <2>1, <2>2, <2>4, <1>3 DEF Final
  <2>5. CASE End({d}, "failed")
    BY <2>1, <2>2, <2>5, <1>3 DEF Final
  <2> QED BY <1>7, <2>3, <2>4, <2>5 DEF ConfirmStep, Settle, FailSettlement
<1>8. ASSUME UNCHANGED <<status, held, offerVars, partyVars>>
      PROVE  RequestInv' /\ NothingHeld'
  BY <1>8 DEF RequestInv, RequestOK, NothingHeld, offerVars, partyVars
<1>9. CASE ClientStep
  <2>1. UNCHANGED <<status, held, offerVars, partyVars>>
    BY <1>9 DEF ClientStep, AnswerBootstrap, ShowTrade, Reads, DeadlinesMove, lifeVars
  <2> QED BY <2>1, <1>8
<1>10. CASE EnvStep
  <2>1. UNCHANGED <<status, held, offerVars, partyVars>>
    BY <1>10 DEF EnvStep, ComeAndGo, Consume, Age, vars, lifeVars
  <2> QED BY <2>1, <1>8
<1> QED BY <1>1, <1>2, <1>4, <1>5, <1>6, <1>7, <1>9, <1>10 DEF Shape

(* A request goes on from "none" only with Insert, and a final one nowhere.*)
(* What it offers changes only with its revision.                          *)
LEMMA OfferStep ==
    ASSUME TradeInv, Shape, NEW d \in Deals
    PROVE  /\ revision'[d] >= revision[d]
           /\ revision'[d] = revision[d] => offer'[d] = offer[d]
<1> USE DEF TradeInv
<1>1. ASSUME NEW e \in Deals, NEW p \in Players, NEW q \in Players, NEW b \in Bundles,
             Starts(e, p, q, b)
      PROVE  /\ revision'[d] >= revision[d]
             /\ revision'[d] = revision[d] => offer'[d] = offer[d]
  BY <1>1 DEF Starts, Insert, TypeOK, RequestInv, RequestOK
<1>2. ASSUME NEW e \in Trades, NEW p \in Players, NEW b \in Bundles, Replaces(e, p, b)
      PROVE  /\ revision'[d] >= revision[d]
             /\ revision'[d] = revision[d] => offer'[d] = offer[d]
  BY <1>2 DEF Replaces, ReplaceOffer, TypeOK
<1>3. ASSUME NEW e \in Deals, OpenTrade(e)
      PROVE  /\ revision'[d] >= revision[d] /\ offer'[d] = offer[d]
  BY <1>3 DEF OpenTrade, TypeOK
<1>4. ASSUME UNCHANGED <<revision, offer>>
      PROVE  revision'[d] >= revision[d] /\ offer'[d] = offer[d]
  BY <1>4 DEF TypeOK
<1>5. ASSUME NEW e \in Deals, StatusMoves(e) \/ Gives(e)
      PROVE  revision'[d] >= revision[d] /\ offer'[d] = offer[d]
  BY <1>3, <1>4, <1>5 DEF StatusMoves, CommitCreate, Gives, HandOver, offerVars
<1>6. ASSUME NEW S \in SUBSET Deals, NEW s \in Undone, EndsOpen(S, s)
      PROVE  UNCHANGED <<revision, offer>>
  BY <1>6 DEF EndsOpen, Ends, offerVars
<1>7. ASSUME NEW e \in Trades, NEW p \in Players, ConfirmStep(e, p)
      PROVE  UNCHANGED <<revision, offer>>
  BY <1>7 DEF ConfirmStep, RecordConfirmation, Settle, FailSettlement, Confirm
<1>8. CASE ClientStep
  BY <1>4, <1>8 DEF ClientStep, AnswerBootstrap, ShowTrade, Reads, DeadlinesMove, offerVars
<1>9. CASE EnvStep
  BY <1>4, <1>9 DEF EnvStep, ComeAndGo, Consume, Age, vars, offerVars
<1> QED BY <1>1, <1>2, <1>4, <1>5, <1>6, <1>7, <1>8, <1>9 DEF Shape

LEMMA ViewStep ==
    ASSUME TradeInv, Shape
    PROVE  ViewInv'
<1> USE DEF TradeInv
<1>1. \A d \in Deals : /\ revision[d] \in Nat /\ revision'[d] \in Nat
                       /\ revision'[d] >= revision[d]
                       /\ revision'[d] = revision[d] => offer'[d] = offer[d]
  BY OfferStep, TypeStep DEF TypeOK
<1>2. \A p \in Players : seen[p].rev \in Nat /\ boot[p].rev \in Nat
  BY DEF TypeOK
<1>3. \A d \in Trades : d \in Deals
  BY DEF Deals
<1>4. ASSUME NEW p \in Players,
             seen'[p] = seen[p] \/ seen'[p] = NoTrade, boot'[p] = boot[p] \/ boot'[p] = NoBoot
      PROVE  ViewOK(p)'
  BY <1>1, <1>2, <1>3, <1>4, TradeAssumption DEF ViewInv, ViewOK, NoTrade, Deals
<1>5. CASE UNCHANGED <<seen, boot>> \/ \E S \in SUBSET Deals : Forget(S)
  BY <1>4, <1>5 DEF ViewInv, Forget
<1>6. ASSUME NEW p \in Players, AnswerBootstrap(p) PROVE ViewInv'
  <2>1. UNCHANGED <<revision, offer>>
    BY <1>6 DEF AnswerBootstrap, offerVars
  <2>2. \A q \in Players : q # p => seen'[q] = seen[q] /\ boot'[q] = boot[q]
    BY <1>6 DEF AnswerBootstrap, TypeOK
  <2>3. boot'[p] = NoBoot
    BY <1>6 DEF AnswerBootstrap, TypeOK
  <2>4. seen'[p] = [deal |-> boot[p].deal, rev |-> boot[p].rev, offers |-> offer[boot[p].deal]]
    BY <1>6 DEF AnswerBootstrap, TypeOK
  <2>5. /\ 1 <= boot[p].rev /\ boot[p].rev <= revision[boot[p].deal]
    BY <1>6 DEF AnswerBootstrap, ViewInv, ViewOK
  <2>6. ViewOK(p)'
    BY <2>1, <2>3, <2>4, <2>5 DEF ViewOK
  <2>7. \A q \in Players : q # p => ViewOK(q)'
    BY <1>4, <2>2
  <2> QED BY <2>6, <2>7 DEF ViewInv, ViewOK
<1>7. ASSUME NEW p \in Players, NEW d \in Trades, ShowTrade(p, d) PROVE ViewInv'
  <2>1. UNCHANGED <<revision, offer, boot>>
    BY <1>7 DEF ShowTrade, offerVars
  <2>2. \A q \in Players : q # p => seen'[q] = seen[q]
    BY <1>7 DEF ShowTrade, TypeOK
  <2>3. seen'[p] = [deal |-> d, rev |-> revision[d], offers |-> offer[d]]
    BY <1>7 DEF ShowTrade, TypeOK
  <2>4. d \in Deals /\ 1 <= revision[d]
    BY <1>7, <1>1, <1>3 DEF ShowTrade, Negotiating, RequestInv, RequestOK
  <2>5. ViewOK(p)'
    BY <2>1, <2>3, <2>4, <1>1 DEF ViewInv, ViewOK
  <2>6. \A q \in Players : q # p => ViewOK(q)'
    BY <1>4, <2>1, <2>2
  <2> QED BY <2>5, <2>6 DEF ViewInv, ViewOK
<1>8. ASSUME NEW p \in Players, Reads(p) PROVE ViewInv'
  <2>1. UNCHANGED <<revision, offer, seen>>
    BY <1>8 DEF Reads, DeadlinesMove, offerVars
  <2>2. ASSUME NEW q \in Players PROVE ViewOK(q)'
    <3>1. CASE boot'[q] = boot[q] \/ boot'[q] = NoBoot
      BY <1>4, <2>1, <3>1
    <3>2. ASSUME NEW d \in Negotiating(q), boot'[q] = [deal |-> d, rev |-> revision[d]]
          PROVE  ViewOK(q)'
      <4>1. d \in Trades /\ d \in Deals /\ 1 <= revision[d] /\ revision[d] <= revision[d]
        BY <1>1, <1>3 DEF Negotiating, RequestInv, RequestOK
      <4> QED BY <2>1, <3>2, <4>1 DEF ViewInv, ViewOK
    <3> QED BY <1>8, <3>1, <3>2 DEF Reads
  <2> QED BY <2>2 DEF ViewInv, ViewOK
<1>9. CASE ClientStep
  <2>1. CASE DeadlinesMove /\ UNCHANGED boot
    BY <1>5, <2>1 DEF DeadlinesMove
  <2> QED BY <1>6, <1>7, <1>8, <1>9, <2>1 DEF ClientStep
<1>10. ASSUME NEW S \in SUBSET Deals, NEW s \in Final, End(S, s) PROVE ViewInv'
  BY <1>5, <1>10 DEF End
<1>11. CASE EnvStep
  BY <1>5, <1>11 DEF EnvStep, ComeAndGo, Consume, Age, vars, clientVars
<1>12. ASSUME NEW d \in Trades, NEW p \in Players, ConfirmStep(d, p) PROVE ViewInv'
  <2>1. {d} \in SUBSET Deals
    BY DEF Deals
  <2>2. CASE RecordConfirmation(d, p)
    BY <1>5, <2>2 DEF RecordConfirmation, clientVars
  <2>3. CASE End({d}, "completed") \/ End({d}, "failed")
    BY <1>10, <2>1, <2>3 DEF Final
  <2> QED BY <1>12, <2>2, <2>3 DEF ConfirmStep, Settle, FailSettlement
<1>13. ASSUME NEW d \in Deals, Gives(d) PROVE ViewInv'
  BY <1>10, <1>13 DEF Gives, HandOver, Final
<1>14. ASSUME NEW S \in SUBSET Deals, NEW s \in Undone, EndsOpen(S, s) PROVE ViewInv'
  BY <1>10, <1>14 DEF EndsOpen, Ends, Undone
<1>15. ASSUME \/ \E d \in Deals, p, q \in Players, b \in Bundles : Starts(d, p, q, b)
              \/ \E d \in Deals : StatusMoves(d)
              \/ \E d \in Trades, p \in Players, b \in Bundles : Replaces(d, p, b)
       PROVE  UNCHANGED <<seen, boot>>
  BY <1>15 DEF Starts, Insert, StatusMoves, CommitCreate, OpenTrade, Replaces, ReplaceOffer,
               clientVars
<1> QED BY <1>5, <1>9, <1>11, <1>12, <1>13, <1>14, <1>15 DEF Shape

LEMMA ConfirmedStep ==
    ASSUME TradeInv, Shape
    PROVE  ConfirmedInv'
<1> USE DEF TradeInv
<1>1. ASSUME UNCHANGED <<revision, offer, confirmed, agreed>> PROVE ConfirmedInv'
  BY <1>1 DEF ConfirmedInv
<1>2. ASSUME NEW d \in Deals, NEW p \in Players, NEW q \in Players, NEW b \in Bundles,
             Starts(d, p, q, b)
      PROVE  ConfirmedInv'
  <2>1. /\ UNCHANGED <<confirmed, agreed>>
        /\ \A e \in Deals : e # d => revision'[e] = revision[e] /\ offer'[e] = offer[e]
    BY <1>2 DEF Starts, Insert, TypeOK
  <2>2. \A r \in Players : confirmed[d][r] = 0
    BY <1>2 DEF Starts, Insert, RequestInv, RequestOK
  <2> QED BY <2>1, <2>2 DEF ConfirmedInv
<1>3. ASSUME NEW d \in Deals, StatusMoves(d) PROVE ConfirmedInv'
  <2>1. CASE CommitCreate(d)
    BY <1>1, <2>1 DEF CommitCreate, offerVars
  <2>2. CASE status[d] = "pending" /\ OpenTrade(d)
    <3>1. /\ UNCHANGED <<offer, confirmed, agreed>>
          /\ \A e \in Deals : e # d => revision'[e] = revision[e]
      BY <2>2 DEF OpenTrade, TypeOK
    <3>2. \A r \in Players : confirmed[d][r] = 0
      BY <2>2 DEF RequestInv, RequestOK
    <3> QED BY <3>1, <3>2 DEF ConfirmedInv
  <2> QED BY <1>3, <2>1, <2>2 DEF StatusMoves
<1>4. ASSUME NEW d \in Trades, NEW p \in Players, NEW b \in Bundles, Replaces(d, p, b)
      PROVE  ConfirmedInv'
  <2>1. \A e \in Deals : e # d => /\ revision'[e] = revision[e] /\ offer'[e] = offer[e]
                                  /\ confirmed'[e] = confirmed[e] /\ agreed'[e] = agreed[e]
    BY <1>4 DEF Replaces, ReplaceOffer, TypeOK
  <2>2. \A q \in Players : confirmed'[d][q] = 0
    BY <1>4 DEF Replaces, ReplaceOffer, TypeOK, Deals
  <2> QED BY <2>1, <2>2 DEF ConfirmedInv
<1>5. ASSUME NEW d \in Trades, NEW p \in Players, ConfirmStep(d, p) PROVE ConfirmedInv'
  <2>1. Confirm(d, p) /\ d \in Deals
    BY <1>5 DEF ConfirmStep, RecordConfirmation, Settle, FailSettlement, Deals
  <2>2. UNCHANGED <<revision, offer>>
    BY <2>1 DEF Confirm
  <2>3. seen[p].offers = offer[d]
    BY <2>1 DEF Confirm, MayConfirm, ViewInv, ViewOK
  <2>4. confirmed'[d][p] = revision[d] /\ agreed'[d][p] = offer[d]
    BY <2>1, <2>3 DEF Confirm, TypeOK
  <2>5. \A e \in Deals, q \in Players : e # d \/ q # p =>
            confirmed'[e][q] = confirmed[e][q] /\ agreed'[e][q] = agreed[e][q]
    BY <2>1 DEF Confirm, TypeOK
  <2> QED BY <2>2, <2>4, <2>5 DEF ConfirmedInv
<1>6. CASE \/ \E d \in Deals : Gives(d)
           \/ \E S \in SUBSET Deals, s \in Undone : EndsOpen(S, s)
  BY <1>1, <1>6 DEF Gives, HandOver, EndsOpen, Ends, offerVars
<1>7. CASE ClientStep
  BY <1>1, <1>7 DEF ClientStep, AnswerBootstrap, ShowTrade, Reads, DeadlinesMove, offerVars
<1>8. CASE EnvStep
  BY <1>1, <1>8 DEF EnvStep, ComeAndGo, Consume, Age, vars, offerVars
<1> QED BY <1>2, <1>3, <1>4, <1>5, <1>6, <1>7, <1>8 DEF Shape

(* What has an outcome keeps it, with its players and offers.              *)
Kept(d) ==
    /\ status'[d] = status[d] /\ offer'[d] = offer[d]
    /\ from'[d] = from[d] /\ to'[d] = to[d] /\ confirmed'[d] = confirmed[d]

LEMMA OutcomeStep ==
    ASSUME TradeInv, Shape, NEW d \in Deals, status[d] \in Final
    PROVE  Kept(d)
<1> USE DEF TradeInv, Kept
<1>1. /\ status[d] \notin {"none", "inserting", "pending", "negotiating"}
      /\ ~Open(d)
  BY DEF Final, Open
<1>2. ASSUME NEW e \in Deals, NEW p \in Players, NEW q \in Players, NEW b \in Bundles,
             Starts(e, p, q, b)
      PROVE  Kept(d)
  BY <1>1, <1>2 DEF Starts, Insert, TypeOK
<1>3. ASSUME NEW e \in Deals, StatusMoves(e) PROVE Kept(d)
  BY <1>1, <1>3 DEF StatusMoves, CommitCreate, OpenTrade, TypeOK, offerVars, partyVars
<1>4. ASSUME NEW e \in Deals, Gives(e) PROVE Kept(d)
  BY <1>1, <1>4 DEF Gives, HandOver, End, offerVars, partyVars
<1>5. ASSUME NEW e \in Trades, NEW p \in Players, NEW b \in Bundles, Replaces(e, p, b)
      PROVE  Kept(d)
  BY <1>1, <1>5 DEF Replaces, ReplaceOffer, Negotiating, TypeOK, partyVars
<1>6. ASSUME NEW S \in SUBSET Deals, NEW s \in Undone, EndsOpen(S, s) PROVE Kept(d)
  BY <1>1, <1>6 DEF EndsOpen, Ends, End, offerVars, partyVars
<1>7. ASSUME NEW e \in Trades, NEW p \in Players, ConfirmStep(e, p) PROVE Kept(d)
  <2>1. Confirm(e, p) /\ e # d
    BY <1>1, <1>7 DEF ConfirmStep, RecordConfirmation, Settle, FailSettlement, Confirm,
                      MayConfirm, Negotiating
  <2>2. status'[d] = status[d]
    BY <1>7, <2>1 DEF ConfirmStep, RecordConfirmation, Settle, FailSettlement, End, lifeVars
  <2> QED BY <2>1, <2>2 DEF Confirm, TypeOK, partyVars
<1>8. CASE ClientStep
  BY <1>8 DEF ClientStep, AnswerBootstrap, ShowTrade, Reads, DeadlinesMove,
              offerVars, lifeVars, partyVars
<1>9. CASE EnvStep
  BY <1>9 DEF EnvStep, ComeAndGo, Consume, Age, vars, offerVars, lifeVars, partyVars
<1> QED BY <1>2, <1>3, <1>4, <1>5, <1>6, <1>7, <1>8, <1>9 DEF Shape

(* A request is completed in one way for each type: a gift is handed over, *)
(* a trade settles.                                                        *)
LEMMA CompletionStep ==
    ASSUME TradeInv, Shape, NEW d \in Deals,
           status'[d] = "completed", status[d] # "completed"
    PROVE  \/ Gives(d)
           \/ d \in Trades /\ \E p \in Players, N \in SUBSET past : Settle(d, p, N)
<1> USE DEF TradeInv
<1>1. ASSUME NEW e \in Deals, StatusMoves(e) PROVE FALSE
  BY <1>1 DEF StatusMoves, CommitCreate, OpenTrade, TypeOK
<1>2. ASSUME NEW e \in Deals, Gives(e) PROVE Gives(d)
  BY <1>2 DEF Gives, HandOver, End
<1>3. ASSUME NEW e \in Deals, NEW p \in Players, NEW q \in Players, NEW b \in Bundles,
             Starts(e, p, q, b)
      PROVE  FALSE
  BY <1>3 DEF Starts, Insert, TypeOK
<1>4. ASSUME NEW e \in Trades, NEW p \in Players, NEW b \in Bundles, Replaces(e, p, b)
      PROVE  FALSE
  BY <1>4 DEF Replaces, ReplaceOffer
<1>5. ASSUME NEW S \in SUBSET Deals, NEW s \in Undone, EndsOpen(S, s) PROVE FALSE
  BY <1>5 DEF EndsOpen, Ends, End, Undone
<1>6. ASSUME NEW e \in Trades, NEW p \in Players, ConfirmStep(e, p)
      PROVE  d \in Trades /\ \E q \in Players, N \in SUBSET past : Settle(d, q, N)
  <2>1. ~RecordConfirmation(e, p)
    BY DEF RecordConfirmation, lifeVars
  <2>2. ASSUME NEW N \in SUBSET past, FailSettlement(e, p, N) PROVE FALSE
    BY <2>2 DEF FailSettlement, End
  <2>3. ASSUME NEW N \in SUBSET past, Settle(e, p, N) PROVE d = e
    BY <2>3 DEF Settle, End
  <2> QED BY <1>6, <2>1, <2>2, <2>3 DEF ConfirmStep
<1>7. CASE ClientStep
  BY <1>7 DEF ClientStep, AnswerBootstrap, ShowTrade, Reads, DeadlinesMove, lifeVars
<1>8. CASE EnvStep
  BY <1>8 DEF EnvStep, ComeAndGo, Consume, Age, vars, lifeVars
<1> QED BY <1>1, <1>2, <1>3, <1>4, <1>5, <1>6, <1>7, <1>8 DEF Shape

LEMMA CompletedStep ==
    ASSUME TradeInv, Shape
    PROVE  CompletedInv'
<1> USE DEF TradeInv
<1> SUFFICES ASSUME NEW d \in Trades, status'[d] = "completed",
                    NEW q \in Participants(d)'
             PROVE  confirmed'[d][q] > 0
  BY DEF CompletedInv
<1>1. d \in Deals /\ d \notin Gifts
  BY TradeAssumption DEF Deals
<1>2. CASE status[d] = "completed"
  <2>1. Kept(d)
    BY <1>1, <1>2, OutcomeStep DEF Final
  <2> QED BY <1>2, <2>1 DEF Kept, CompletedInv, Participants
<1>3. CASE status[d] # "completed"
  <2>1. PICK p \in Players, N \in SUBSET past : Settle(d, p, N)
    BY <1>1, <1>3, CompletionStep DEF Gives
  <2>2. /\ Confirm(d, p) /\ status[d] = "negotiating"
        /\ confirmed[d][Other(d, p)] = revision[d] /\ p \in Participants(d)
    BY <2>1 DEF Settle, MaySettle, MayConfirm, Negotiating
  <2>3. revision[d] >= 1 /\ from[d] \in Players /\ to[d] \in Players
    BY <1>1, <2>2 DEF RequestInv, RequestOK
  <2>4. confirmed' = [confirmed EXCEPT ![d][p] = revision[d]] /\ UNCHANGED <<from, to>>
    BY <2>2 DEF Confirm, partyVars
  <2>5. q = p \/ q = Other(d, p)
    BY <2>2, <2>4 DEF Participants, Other
  <2>6. Other(d, p) \in Players
    BY <2>3 DEF Other
  <2>7. confirmed'[d][q] = revision[d]
    BY <1>1, <2>2, <2>4, <2>5, <2>6 DEF TypeOK
  <2> QED BY <1>1, <2>3, <2>7 DEF TypeOK
<1> QED BY <1>2, <1>3
-----------------------------------------------------------------------------
LEMMA TradeInit == Init => TradeInv
<1> SUFFICES ASSUME Init PROVE TradeInv
  OBVIOUS
<1>1. TypeOK
  <2>1. owned \in [Players -> [Items -> Nat]]
    BY TradeAssumption DEF Init
  <2>2. /\ status \in [Deals -> Statuses] /\ paused \in [Deals -> BOOLEAN]
        /\ from \in [Deals -> Players \cup {NoPlayer}]
        /\ to \in [Deals -> Players \cup {NoPlayer}]
        /\ past \in SUBSET (Deals \X Deadlines) /\ online \in SUBSET Players /\ aged \in BOOLEAN
    BY DEF Init, Statuses
  <2>3. /\ revision \in [Deals -> 0..MaxRev]
        /\ confirmed \in [Deals -> [Players -> 0..MaxRev]]
    BY TradeAssumption DEF Init
  <2>4. /\ offer \in [Deals -> Offers] /\ held \in [Deals -> Offers]
        /\ agreed \in [Deals -> [Players -> Offers]]
    BY NothingTyped DEF Init
  <2>5. /\ seen \in [Players -> [deal : Deals \cup {NoDeal}, rev : 0..MaxRev, offers : Offers]]
        /\ boot \in [Players -> [deal : Deals \cup {NoDeal}, rev : 0..MaxRev]]
    BY NothingTyped, TradeAssumption DEF Init, NoTrade, NoBoot
  <2> QED BY <2>1, <2>2, <2>3, <2>4, <2>5 DEF TypeOK
<1>2. \A d \in Deals : status[d] = "none" /\ offer[d] = NoOffers /\ held[d] = NoOffers
  BY DEF Init
<1>3. RequestInv
  BY <1>2 DEF Init, RequestInv, RequestOK
<1>4. ViewInv
  BY TradeAssumption DEF Init, ViewInv, ViewOK, NoTrade, Deals
<1>5. NothingHeld /\ ConfirmedInv /\ CompletedInv
  BY <1>2 DEF Init, NothingHeld, ConfirmedInv, CompletedInv, Deals
<1> QED BY <1>1, <1>3, <1>4, <1>5 DEF TradeInv

LEMMA TradeStep == TradeInv /\ [Next]_vars => TradeInv'
<1> SUFFICES ASSUME TradeInv, [Next]_vars PROVE TradeInv'
  OBVIOUS
<1>1. Shape
  BY StepShape DEF TradeInv
<1> QED BY <1>1, TypeStep, RequestStep, ViewStep, ConfirmedStep, CompletedStep DEF TradeInv

LEMMA TradeInvariant == Spec => []TradeInv
BY TradeInit, TradeStep, PTL DEF Spec

(* Every table of gifts and trades keeps its shape, for any players, items *)
(* and requests: no item count gets negative, no revision passes its bound.*)
THEOREM TradeTypeCorrect == Spec => []TypeOK
BY TradeInvariant, PTL DEF TradeInv

(* Only a negotiating trade reserves items, however requests end: settled, *)
(* declined, cancelled, invalidated, expired or failed.                    *)
THEOREM OnlyNegotiatingReserve == Spec => []NothingHeld
BY TradeInvariant, PTL DEF TradeInv

(* What a trade settles is what both players saw when they confirmed,      *)
(* whatever clients show in between and however updates, bootstraps and    *)
(* confirmations interleave.                                               *)
THEOREM TradeSettledAsSeen == Spec => []SettledAsSeen
<1>1. TradeInv => SettledAsSeen
  <2> SUFFICES ASSUME TradeInv, NEW d \in Trades, status[d] = "completed",
                      NEW p \in Participants(d)
               PROVE  agreed[d][p] = offer[d]
    BY DEF SettledAsSeen
  <2>1. d \in Deals /\ p \in Players
    BY DEF Deals, TradeInv, RequestInv, RequestOK, Participants
  <2>2. confirmed[d][p] > 0
    BY DEF TradeInv, CompletedInv
  <2> QED BY <2>1, <2>2 DEF TradeInv, ConfirmedInv
<1> QED BY <1>1, TradeInvariant, PTL

(* An outcome is never overwritten, and the offers its receipt was written *)
(* from stay.                                                              *)
THEOREM TradeOutcomeIsFinal == Spec => OutcomeIsFinal
<1>1. TradeInv /\ [Next]_vars =>
        [\A d \in Deals : status[d] \in Final =>
            status'[d] = status[d] /\ offer'[d] = offer[d]]_vars
  BY StepShape, OutcomeStep DEF TradeInv, Kept
<1> QED BY <1>1, TradeInvariant, PTL DEF Spec, OutcomeIsFinal
-----------------------------------------------------------------------------
(* The refinement.  Receipts are those of the completed requests, which    *)
(* keep what they say, so only a completion adds one.                      *)
LEMMA ReceiptsStay ==
    ASSUME TradeInv, Shape, \A d \in Deals : status'[d] = "completed" => status[d] = "completed"
    PROVE  Receipts' = Receipts
<1>1. \A d \in Deals : status[d] = "completed" => Kept(d)
  BY OutcomeStep DEF Final
<1> QED BY <1>1 DEF Receipts, Kept

ReceiptOf(d) ==
    [deal |-> d, from |-> from[d], to |-> to[d],
     give |-> offer[d][from[d]], take |-> offer[d][to[d]]]

LEMMA ReceiptAdded ==
    ASSUME TradeInv, Shape, NEW d \in Deals, End({d}, "completed"),
           UNCHANGED <<from, to, offer>>
    PROVE  Receipts' = Receipts \cup {ReceiptOf(d)}
<1>1. \A e \in Deals : status'[e] = "completed" <=> status[e] = "completed" \/ e = d
  BY DEF End
<1> QED BY <1>1 DEF Receipts, ReceiptOf

(* A completion is an exchange.                                            *)
LEMMA ExchangeStep ==
    ASSUME TradeInv, Shape, NEW d \in Deals, Open(d), End({d}, "completed"),
           UNCHANGED <<from, to, offer>>,
           Ledger!Owns(from[d], offer[d][from[d]]), Ledger!Owns(to[d], offer[d][to[d]]),
           owned' = Ledger!Traded(from[d], to[d], offer[d][from[d]], offer[d][to[d]])
    PROVE  Ledger!ExchangeNext
<1>1. status[d] \notin {"none", "completed"}
  BY DEF Open
<1>2. /\ from[d] \in Players /\ to[d] \in Players /\ from[d] # to[d]
      /\ offer[d][from[d]] \in Bundles /\ offer[d][to[d]] \in Bundles
  BY <1>1 DEF TradeInv, TypeOK, Offers, RequestInv, RequestOK
<1>3. \A r \in Receipts : r.deal # d
  BY <1>1 DEF Receipts
<1>4. Receipts' = Receipts \cup {ReceiptOf(d)}
  BY ReceiptAdded
<1>5. Ledger!Exchange(ReceiptOf(d))
  BY <1>2, <1>3, <1>4 DEF Ledger!Exchange, ReceiptOf
<1>6. ReceiptOf(d) \in Receipts' \ Receipts
  BY <1>3, <1>4 DEF ReceiptOf
<1>7. ReceiptOf(d) \in Ledger!AllReceipts
  BY <1>2 DEF Ledger!AllReceipts, ReceiptOf, Bundles
<1> QED BY <1>5, <1>6, <1>7 DEF Ledger!ExchangeNext

(* What other gameplay uses up.                                            *)
LEMMA ConsumeStep ==
    ASSUME TradeInv, NEW p \in Players, NEW i \in Items, Consume(p, i), Receipts' = Receipts
    PROVE  Ledger!ExchangeNext
<1> DEFINE one == [j \in Items |-> IF j = i THEN 1 ELSE 0]
<1>1. one \in Bundles
  BY TradeAssumption DEF Bundles, Ledger!Bundles
<1>2. \A j \in Items : owned[p][j] \in Nat
  BY DEF TradeInv, TypeOK
<1>3. Ledger!Owns(p, one)
  BY <1>2 DEF Consume, Ledger!Owns
<1>4. owned' = [owned EXCEPT ![p] = [j \in Items |-> owned[p][j] - one[j]]]
  <2>1. owned[p] = [j \in Items |-> owned[p][j]] /\ owned \in [Players -> [Items -> Nat]]
    BY DEF TradeInv, TypeOK
  <2>2. [owned[p] EXCEPT ![i] = owned[p][i] - 1] = [j \in Items |-> owned[p][j] - one[j]]
    BY <1>2, <2>1
  <2> QED BY <2>1, <2>2 DEF Consume
<1>5. Ledger!UseUp(p, one)
  BY <1>3, <1>4 DEF Ledger!UseUp
<1> QED BY <1>1, <1>5 DEF Ledger!ExchangeNext, Bundles

LEMMA RefinementStep ==
    ASSUME TradeInv, Shape
    PROVE  [Ledger!ExchangeNext]_<<owned, Receipts>>
<1>1. CASE \E d \in Deals : status'[d] = "completed" /\ status[d] # "completed"
  <2>1. PICK d \in Deals : status'[d] = "completed" /\ status[d] # "completed"
    BY <1>1
  <2>2. CASE Gives(d)
    <3>1. from[d] \in Players /\ to[d] \in Players /\ offer[d][to[d]] = Nothing
      BY <2>2 DEF Gives, TradeInv, RequestInv, RequestOK
    <3>2. Ledger!Owns(to[d], offer[d][to[d]])
      BY <3>1 DEF Ledger!Owns, TradeInv, TypeOK, Nothing
    <3>3. Open(d) /\ End({d}, "completed") /\ UNCHANGED <<from, to, offer>>
      BY <2>2 DEF Gives, HandOver, Open, offerVars, partyVars
    <3> QED BY <2>2, <3>2, <3>3, ExchangeStep DEF Gives, HandOver
  <2>3. ASSUME NEW p \in Players, NEW N \in SUBSET past, Settle(d, p, N)
        PROVE  Ledger!ExchangeNext
    <3>1. Open(d) /\ End({d}, "completed") /\ UNCHANGED <<from, to, offer>>
      BY <2>3 DEF Settle, Confirm, MaySettle, MayConfirm, Negotiating, Open, partyVars
    <3>2. Ledger!Owns(from[d], offer[d][from[d]]) /\ Ledger!Owns(to[d], offer[d][to[d]])
      BY <2>3 DEF Settle, Participants
    <3> QED BY <2>3, <3>1, <3>2, ExchangeStep DEF Settle
  <2> QED BY <2>1, <2>2, <2>3, CompletionStep
<1>2. CASE ~ \E d \in Deals : status'[d] = "completed" /\ status[d] # "completed"
  <2>1. Receipts' = Receipts
    BY <1>2, ReceiptsStay
  <2>2. ASSUME NEW p \in Players, NEW i \in Items, Consume(p, i) PROVE Ledger!ExchangeNext
    BY <2>1, <2>2, ConsumeStep
  <2>3. ASSUME ~ \E p \in Players, i \in Items : Consume(p, i) PROVE owned' = owned
    <3>1. CASE \E d \in Deals : Gives(d)
      BY <1>2, <3>1 DEF Gives, HandOver, End
    <3>2. ASSUME NEW d \in Trades, NEW p \in Players, ConfirmStep(d, p) PROVE owned' = owned
      BY <1>2, <3>2 DEF ConfirmStep, RecordConfirmation, FailSettlement, Settle, MaySettle,
                        MayConfirm, Negotiating, End, Deals
    <3>3. CASE EnvStep
      BY <2>3, <3>3 DEF EnvStep, ComeAndGo, Age, vars
    <3>4. CASE ClientStep
      BY <3>4 DEF ClientStep, AnswerBootstrap, ShowTrade, Reads, DeadlinesMove
    <3> QED BY <3>1, <3>2, <3>3, <3>4 DEF Shape, Starts, Insert, StatusMoves, CommitCreate,
                                          OpenTrade, Replaces, ReplaceOffer, EndsOpen, Ends
  <2> QED BY <2>1, <2>2, <2>3
<1> QED BY <1>1, <1>2

(* Gifts and trades implement ItemExchange: what every completion moves, it*)
(* moves in one exchange that both players can afford, at most once for a  *)
(* request, and no other step but the use of an item touches what is owned.*)
THEOREM TradeImplementsExchange == Spec => ImplementsExchange
<1>1. Init => Ledger!ExchangeInit
  BY DEF Init, Ledger!ExchangeInit, Receipts
<1>2. TradeInv /\ [Next]_vars => [Ledger!ExchangeNext]_(Ledger!exchangeVars)
  BY StepShape, RefinementStep DEF TradeInv, Ledger!exchangeVars
<1> QED BY <1>1, <1>2, TradeInvariant, PTL DEF Spec, ImplementsExchange, Ledger!ExchangeSpec
-----------------------------------------------------------------------------
(* What one player has reserved of one item, by trade.                     *)
HeldOf(p, i) == [d \in Trades |-> held[d][p][i]]

LEMMA ReservedIsSum == \A p, i, S : Reserved(p, i, S) = SumOf(HeldOf(p, i), S)
BY DEF Reserved, HeldOf, SumFunctionOnSet, FoldFunctionOnSet, MapThenFoldSet, SumOf, IsSum, SumStep, Pick

(* The sums are of whole numbers, over finitely many trades.               *)
LEMMA HeldOfTyped ==
    ASSUME TypeOK, NEW p \in Players, NEW i \in Items
    PROVE  /\ \A d \in Trades : /\ HeldOf(p, i)[d] = held[d][p][i] /\ HeldOf(p, i)[d] \in Nat
                               /\ HeldOf(p, i)[d] \in Int
           /\ \A S \in SUBSET Trades : /\ IsFiniteSet(S) /\ Reserved(p, i, S) \in Nat
                                       /\ Reserved(p, i, S) = SumOf(HeldOf(p, i), S)
<1> DEFINE f == HeldOf(p, i)
<1>1. \A d \in Trades : f[d] = held[d][p][i] /\ f[d] \in Nat /\ f[d] \in Int
  <2>1. \A d \in Trades : held[d][p] \in Bundles
    BY DEF TypeOK, Offers, Deals
  <2>2. \A d \in Trades : held[d][p][i] \in Nat
    BY <2>1, TradeAssumption DEF Bundles, Ledger!Bundles
  <2> QED BY <2>2 DEF HeldOf
<1>2. \A S \in SUBSET Trades : Reserved(p, i, S) = SumOf(f, S) /\ IsFiniteSet(S)
  BY ReservedIsSum, FS_Subset, TradeAssumption
<1> HIDE DEF f
<1>3. ASSUME NEW S \in SUBSET Trades PROVE SumOf(f, S) \in Nat
  <2>1. IsFiniteSet(S) /\ \A d \in S : f[d] \in Nat
    BY <1>1, <1>2
  <2> QED BY <2>1, SumNat
<1>4. \A S \in SUBSET Trades : Reserved(p, i, S) \in Nat
  BY <1>2, <1>3
<1> QED BY <1>1, <1>2, <1>4 DEF f

(* What is reserved in some trades is at most what is in more of them, and *)
(* one trade more adds what it holds.                                      *)
LEMMA ReservedSplits ==
    ASSUME TypeOK, NEW p \in Players, NEW i \in Items
    PROVE  /\ \A S, T \in SUBSET Trades : S \subseteq T => Reserved(p, i, S) <= Reserved(p, i, T)
           /\ \A S \in SUBSET Trades, d \in Trades : d \in S =>
                 Reserved(p, i, S) = held[d][p][i] + Reserved(p, i, S \ {d})
<1> DEFINE f == HeldOf(p, i)
<1>1. /\ \A d \in Trades : f[d] = held[d][p][i] /\ f[d] \in Nat /\ f[d] \in Int
      /\ \A S \in SUBSET Trades : /\ IsFiniteSet(S) /\ Reserved(p, i, S) = SumOf(f, S)
  BY HeldOfTyped
<1> HIDE DEF f
<1>2. ASSUME NEW S \in SUBSET Trades, NEW T \in SUBSET Trades, S \subseteq T
      PROVE  Reserved(p, i, S) <= Reserved(p, i, T)
  <2>1. /\ \A d \in S : f[d] \in Int
        /\ \A d \in T : f[d] \in Nat
        /\ \A d \in S \cap T : f[d] <= f[d]
        /\ \A d \in S \ T : f[d] <= 0
        /\ IsFiniteSet(S) /\ IsFiniteSet(T)
    BY <1>1, <1>2
  <2>2. SumOf(f, S) <= SumOf(f, T)
    BY <2>1, SumAtMost
  <2> QED BY <1>1, <2>2
<1>3. ASSUME NEW S \in SUBSET Trades, NEW d \in Trades, d \in S
      PROVE  Reserved(p, i, S) = held[d][p][i] + Reserved(p, i, S \ {d})
  <2>1. IsFiniteSet(S) /\ \A e \in S : f[e] \in Int
    BY <1>1
  <2>2. SumOf(f, S) = f[d] + SumOf(f, S \ {d})
    BY <1>3, <2>1, SumRemove
  <2>3. S \ {d} \in SUBSET Trades
    OBVIOUS
  <2> QED BY <1>1, <2>2, <2>3
<1> QED BY <1>2, <1>3

(* The same sums after a step.                                             *)
NextSum(p, i, S) == SumOf([d \in Trades |-> held'[d][p][i]], S)

LEMMA NextSumTyped ==
    ASSUME TypeOK', NEW p \in Players, NEW i \in Items, NEW S \in SUBSET Trades
    PROVE  /\ NextSum(p, i, S) \in Nat
           /\ \A d \in S : NextSum(p, i, S) = held'[d][p][i] + NextSum(p, i, S \ {d})
<1> DEFINE g == [d \in Trades |-> held'[d][p][i]]
<1>1. \A d \in Trades : g[d] = held'[d][p][i] /\ g[d] \in Nat
  <2>1. \A d \in Trades : held'[d][p] \in Bundles
    BY DEF TypeOK, Offers, Deals
  <2>2. \A d \in Trades : held'[d][p][i] \in Nat
    BY <2>1, TradeAssumption DEF Bundles, Ledger!Bundles
  <2> QED BY <2>2
<1>2. \A R : NextSum(p, i, R) = SumOf(g, R)
  BY DEF NextSum
<1> HIDE DEF g
<1>3. IsFiniteSet(S) /\ (\A d \in S : g[d] \in Nat) /\ \A d \in S : g[d] \in Int
  BY <1>1, FS_Subset, TradeAssumption
<1>4. SumOf(g, S) \in Nat
  BY <1>3, SumNat
<1>5. \A d \in S : SumOf(g, S) = g[d] + SumOf(g, S \ {d})
  BY <1>3, SumRemove
<1> QED BY <1>1, <1>2, <1>4, <1>5

(* Trades that hold no more than they did, where those that count now but  *)
(* did not hold nothing, reserve no more than they did.                    *)
LEMMA ReservedShrinks ==
    ASSUME TypeOK, TypeOK', NEW p \in Players, NEW i \in Items,
           NEW S \in SUBSET Trades, NEW T \in SUBSET Trades,
           \A d \in S \cap T : held'[d][p][i] <= held[d][p][i],
           \A d \in S \ T : held'[d][p][i] <= 0
    PROVE  /\ NextSum(p, i, S) <= Reserved(p, i, T)
           /\ NextSum(p, i, S) \in Nat /\ Reserved(p, i, T) \in Nat
<1> DEFINE f == HeldOf(p, i)
           g == [d \in Trades |-> held'[d][p][i]]
<1>1. /\ \A d \in Trades : f[d] = held[d][p][i] /\ f[d] \in Nat
      /\ IsFiniteSet(T) /\ Reserved(p, i, T) = SumOf(f, T)
  BY HeldOfTyped
<1>2. /\ \A d \in Trades : g[d] = held'[d][p][i] /\ g[d] \in Int
      /\ IsFiniteSet(S) /\ NextSum(p, i, S) = SumOf(g, S)
  <2>1. \A d \in Trades : held'[d][p] \in Bundles
    BY DEF TypeOK, Offers, Deals
  <2>2. \A d \in Trades : held'[d][p][i] \in Nat
    BY <2>1, TradeAssumption DEF Bundles, Ledger!Bundles
  <2>3. IsFiniteSet(S)
    BY FS_Subset, TradeAssumption
  <2> QED BY <2>2, <2>3 DEF NextSum
<1> HIDE DEF f, g
<1>3. /\ \A d \in S : g[d] \in Int
      /\ \A d \in T : f[d] \in Nat
      /\ \A d \in S \cap T : g[d] <= f[d]
      /\ \A d \in S \ T : g[d] <= 0
  BY <1>1, <1>2
<1>4. SumOf(g, S) <= SumOf(f, T)
  BY <1>1, <1>2, <1>3, SumAtMost
<1>5. NextSum(p, i, S) \in Nat /\ Reserved(p, i, T) \in Nat
  BY NextSumTyped, HeldOfTyped
<1> QED BY <1>1, <1>2, <1>4, <1>5

(* The invariant after a step, with the sums written out.                  *)
LEMMA BackedAfter ==
    ASSUME \A p \in Players, i \in Items : NextSum(p, i, Live(past')) <= owned'[p][i]
    PROVE  ReservationsBacked'
<1>1. Live(past)' = Live(past')
  BY DEF Live, Expired
<1> QED BY <1>1 DEF ReservationsBacked, NextSum, Reserved, SumFunctionOnSet, FoldFunctionOnSet,
                    MapThenFoldSet, SumOf, IsSum, SumStep, Pick

(* No trade holds more than it did, and no trade that holds anything comes *)
(* back from its expiry.                                                   *)
HoldsNoMore ==
    /\ \A d \in Trades, p \in Players, i \in Items : held'[d][p][i] <= held[d][p][i]
    /\ \A d \in Trades : Expired(d, past) /\ ~Expired(d, past') => held'[d] = NoOffers

LEMMA BackedStays ==
    ASSUME TypeOK, TypeOK', ReservationsBacked, HoldsNoMore, owned' = owned
    PROVE  ReservationsBacked'
<1> SUFFICES ASSUME NEW p \in Players, NEW i \in Items
             PROVE  NextSum(p, i, Live(past')) <= owned'[p][i]
  BY BackedAfter
<1>1. Live(past) \in SUBSET Trades /\ Live(past') \in SUBSET Trades
  BY DEF Live
<1>2. \A d \in Live(past') \cap Live(past) : held'[d][p][i] <= held[d][p][i]
  BY <1>1 DEF HoldsNoMore
<1>3. \A d \in Live(past') \ Live(past) : held'[d][p][i] <= 0
  BY DEF HoldsNoMore, Live, NoOffers, Nothing
<1>4. /\ NextSum(p, i, Live(past')) <= Reserved(p, i, Live(past))
      /\ NextSum(p, i, Live(past')) \in Nat /\ Reserved(p, i, Live(past)) \in Nat
  BY <1>1, <1>2, <1>3, ReservedShrinks
<1>5. Reserved(p, i, Live(past)) <= owned[p][i] /\ owned[p][i] \in Nat
  BY DEF ReservationsBacked, TypeOK
<1> QED BY <1>4, <1>5

(* The values of a player's offers and stacks.                             *)
LEMMA BundleValues ==
    /\ \A b \in Bundles, i \in Items : b[i] \in Nat
    /\ TypeOK => \A p \in Players, i \in Items, d \in Deals :
                    owned[p][i] \in Nat /\ held[d][p][i] \in Nat /\ offer[d][p][i] \in Nat
BY TradeAssumption DEF TypeOK, Offers, Bundles, Ledger!Bundles

(* A new offer is checked against what the other trades reserve.           *)
LEMMA BackedUpdate ==
    ASSUME TradeInv, TypeOK', ReservationsBacked,
           NEW d \in Trades, NEW p \in Players, NEW b \in Bundles, Replaces(d, p, b)
    PROVE  ReservationsBacked'
<1>0. TypeOK /\ d \in Deals
  BY DEF TradeInv, Deals
<1> SUFFICES ASSUME NEW q \in Players, NEW i \in Items
             PROVE  NextSum(q, i, Live(past')) <= owned'[q][i]
  BY BackedAfter
<1>1. PICK N \in SUBSET past : Available(p, b, N, {d})
  BY DEF Replaces
<1>2. held' = [held EXCEPT ![d][p] = b] /\ owned' = owned /\ past' = past
  BY DEF Replaces, ReplaceOffer
<1> DEFINE live == Live(past)
           rest == Live(N) \ {d}
<1>3. live \in SUBSET Trades /\ rest \in SUBSET Trades /\ live \ {d} \subseteq rest
  BY DEF Live, Expired
<1>4. Reserved(q, i, live) <= owned[q][i] /\ owned[q][i] \in Nat
  BY <1>0 DEF ReservationsBacked, TypeOK
<1>5. /\ held'[d][p] = b
      /\ \A e \in Deals, r \in Players : e # d \/ r # p => held'[e][r] = held[e][r]
  BY <1>0, <1>2 DEF TypeOK, Offers
<1>6. \A e \in Deals : held[e][q][i] \in Nat /\ b[i] \in Nat
  BY <1>0, BundleValues
<1>7. Live(past') = live
  BY <1>2
<1> HIDE DEF live
<1>8. ASSUME \A e \in live : held'[e][q][i] <= held[e][q][i]
      PROVE  NextSum(q, i, live) <= owned'[q][i]
  <2>1. /\ NextSum(q, i, live) <= Reserved(q, i, live)
        /\ NextSum(q, i, live) \in Nat /\ Reserved(q, i, live) \in Nat
    BY <1>0, <1>3, <1>8, ReservedShrinks
  <2> QED BY <1>2, <1>4, <2>1
<1>9. CASE q # p \/ d \notin live \/ b[i] = 0
  <2>1. \A e \in live : e \in Deals
    BY <1>3 DEF Deals
  <2>2. ASSUME NEW e \in live PROVE held'[e][q][i] <= held[e][q][i]
    <3>1. CASE e # d \/ q # p
      BY <1>5, <1>6, <2>1, <3>1
    <3>2. CASE e = d /\ q = p
      BY <1>5, <1>6, <1>9, <2>1, <3>2
    <3> QED BY <3>1, <3>2
  <2> QED BY <1>7, <1>8, <2>2
<1>10. CASE q = p /\ d \in live /\ b[i] # 0
  <2>1. b[i] + Reserved(p, i, rest) <= owned[p][i]
    <3>1. b[i] \in Nat /\ b[i] > 0
      <4>1. b[i] \in Nat
        BY BundleValues
      <4> QED BY <4>1, <1>10
    <3> QED BY <1>1, <3>1 DEF Available
  <2>2. NextSum(p, i, live) = b[i] + NextSum(p, i, live \ {d}) /\ NextSum(p, i, live) \in Nat
    BY <1>3, <1>5, <1>10, NextSumTyped
  <2>3. /\ NextSum(p, i, live \ {d}) <= Reserved(p, i, rest)
        /\ NextSum(p, i, live \ {d}) \in Nat /\ Reserved(p, i, rest) \in Nat
    <3>1. live \ {d} \in SUBSET Trades
      BY <1>3
    <3>2. \A e \in (live \ {d}) \cap rest : held'[e][p][i] <= held[e][p][i]
      BY <1>3, <1>5, <1>6, <1>10 DEF Deals
    <3>3. \A e \in (live \ {d}) \ rest : held'[e][p][i] <= 0
      BY <1>3
    <3> HIDE DEF rest
    <3> QED BY <1>0, <1>3, <3>1, <3>2, <3>3, ReservedShrinks
  <2> HIDE DEF rest
  <2>4. b[i] + NextSum(p, i, live \ {d}) <= owned[p][i]
    BY <1>6, <1>0, <1>4, <1>10, <2>1, <2>3
  <2> QED BY <1>2, <1>7, <1>10, <2>2, <2>4
<1> QED BY <1>9, <1>10

(* An accepted gift leaves the sender what trades reserve, and takes       *)
(* nothing from the other.                                                 *)
LEMMA BackedGift ==
    ASSUME TradeInv, TypeOK', ReservationsBacked, NEW d \in Deals, Gives(d)
    PROVE  ReservationsBacked'
<1> DEFINE p == from[d]
           q == to[d]
           b == offer[d][p]
           live == Live(past)
<1>0. TypeOK
  BY DEF TradeInv
<1>1. /\ p \in Players /\ q \in Players /\ p # q /\ offer[d][q] = Nothing /\ d \notin Trades
  BY TradeAssumption DEF Gives, TradeInv, RequestInv, RequestOK
<1>2. /\ End({d}, "completed") /\ Ledger!Owns(p, b)
      /\ owned' = Ledger!Traded(p, q, b, offer[d][q])
  BY DEF Gives, HandOver
<1>3. PICK N \in SUBSET past : Available(p, b, N, {})
  BY DEF Gives
<1>4. \A i \in Items : b[i] \in Nat /\ offer[d][q][i] = 0
  BY <1>0, <1>1, BundleValues DEF Nothing
<1>5. Live(past') = live /\ live \in SUBSET Trades /\ Live(N) \in SUBSET Trades /\ live \subseteq Live(N)
  BY <1>1, <1>2 DEF End, Live, Expired
<1>6. \A e \in Trades : held'[e] = held[e]
  BY <1>1, <1>2 DEF End, Deals
<1> SUFFICES ASSUME NEW r \in Players, NEW i \in Items
             PROVE  NextSum(r, i, live) <= owned'[r][i]
  BY <1>5, BackedAfter
<1>7. owned'[r][i] = IF r = p THEN owned[r][i] - b[i] + 0
                     ELSE IF r = q THEN owned[r][i] - 0 + b[i] ELSE owned[r][i]
  BY <1>2, <1>4 DEF Ledger!Traded
<1>8. Reserved(r, i, live) <= owned[r][i] /\ owned[r][i] \in Nat
  BY <1>0 DEF ReservationsBacked, TypeOK
<1>9. /\ NextSum(r, i, live) <= Reserved(r, i, live)
      /\ NextSum(r, i, live) \in Nat /\ Reserved(r, i, live) \in Nat
  <2>1. \A e \in live : e \in Deals
    BY <1>5 DEF Deals
  <2>2. \A e \in live : held'[e][r][i] <= held[e][r][i]
    BY <1>0, <1>5, <1>6, <2>1, BundleValues
  <2> HIDE DEF live
  <2> QED BY <1>0, <1>5, <2>2, ReservedShrinks
<1>10. Reserved(p, i, live) <= Reserved(p, i, Live(N) \ {}) /\ Reserved(p, i, Live(N) \ {}) \in Nat
  <2>1. Live(N) \ {} = Live(N)
    OBVIOUS
  <2> QED BY <1>0, <1>1, <1>5, <2>1, ReservedSplits, HeldOfTyped
<1>11. b[i] > 0 => b[i] + Reserved(p, i, Live(N) \ {}) <= owned[p][i]
  BY <1>3 DEF Available
<1>12. b[i] \in Nat
  BY <1>4
<1> HIDE DEF p, q, b, live
<1>13. CASE r = p
  BY <1>7, <1>8, <1>9, <1>10, <1>11, <1>12, <1>13
<1>14. CASE r # p
  BY <1>7, <1>8, <1>9, <1>12, <1>14
<1> QED BY <1>13, <1>14

(* A settled trade gives away what it held, and leaves what others hold:   *)
(* the settlement compares all that is reserved with all that is owned.    *)
LEMMA BackedSettle ==
    ASSUME TradeInv, TypeOK', ReservationsBacked,
           NEW d \in Trades, NEW c \in Players, NEW N \in SUBSET past, Settle(d, c, N)
    PROVE  ReservationsBacked'
<1> DEFINE p == from[d]
           q == to[d]
           live == Live(past)
<1>0. TypeOK /\ d \in Deals
  BY DEF TradeInv, Deals
<1>1. MaySettle(d, c, N) /\ End({d}, "completed")
  BY DEF Settle
<1>2. p \in Players /\ q \in Players /\ p # q
  BY <1>0, <1>1 DEF MaySettle, MayConfirm, Negotiating, TradeInv, RequestInv, RequestOK
<1>3. owned' = Ledger!Traded(p, q, offer[d][p], offer[d][q])
  BY DEF Settle
<1>4. ~Expired(d, N) /\ \A r \in {p, q} :
        /\ held[d][r] = offer[d][r]
        /\ \A i \in Items : offer[d][r][i] > 0 => Reserved(r, i, Live(N)) <= owned[r][i]
  BY <1>1 DEF MaySettle, Participants
<1>5. /\ Live(past') = live \cup {d} /\ live \in SUBSET Trades
      /\ Live(N) \in SUBSET Trades /\ live \cup {d} \subseteq Live(N)
  BY <1>1, <1>4 DEF End, Live, Expired, Deadlines
<1>6. held'[d] = NoOffers /\ \A e \in Trades \ {d} : held'[e] = held[e]
  BY <1>0, <1>1 DEF End, Deals
<1> SUFFICES ASSUME NEW r \in Players, NEW i \in Items
             PROVE  NextSum(r, i, live \cup {d}) <= owned'[r][i]
  BY <1>5, BackedAfter
<1>7. owned'[r][i] = IF r = p THEN owned[r][i] - offer[d][p][i] + offer[d][q][i]
                     ELSE IF r = q THEN owned[r][i] - offer[d][q][i] + offer[d][p][i]
                     ELSE owned[r][i]
  BY <1>3 DEF Ledger!Traded
<1>8. Reserved(r, i, live) <= owned[r][i] /\ owned[r][i] \in Nat
  BY <1>0 DEF ReservationsBacked, TypeOK
<1>9. offer[d][p][i] \in Nat /\ offer[d][q][i] \in Nat
  BY <1>0, <1>2, BundleValues
<1>10. \A e \in (live \cup {d}) : held'[e][r][i] <= IF e = d THEN 0 ELSE held[e][r][i]
  <2> SUFFICES ASSUME NEW e \in live \cup {d}
               PROVE  held'[e][r][i] <= IF e = d THEN 0 ELSE held[e][r][i]
    OBVIOUS
  <2>1. CASE e = d
    BY <1>6, <2>1 DEF NoOffers, Nothing
  <2>2. CASE e # d
    <3>1. e \in Trades /\ e \in Deals
      BY <1>5, <2>2 DEF Deals
    <3> QED BY <1>0, <1>6, <2>2, <3>1, BundleValues
  <2> QED BY <2>1, <2>2
<1> HIDE DEF live
<1>11. /\ NextSum(r, i, live \cup {d}) <= Reserved(r, i, live)
       /\ NextSum(r, i, live \cup {d}) \in Nat /\ Reserved(r, i, live) \in Nat
  <2>1. \A e \in (live \cup {d}) \cap live : held'[e][r][i] <= held[e][r][i]
    <3> SUFFICES ASSUME NEW e \in live PROVE held'[e][r][i] <= held[e][r][i]
      OBVIOUS
    <3>1. held[e][r][i] \in Nat /\ held'[e][r][i] \in Nat
      <4>1. e \in Deals
        BY <1>5 DEF Deals
      <4>2. held'[e][r] \in Bundles
        BY <4>1 DEF TypeOK, Offers
      <4> QED BY <1>0, <4>1, <4>2, BundleValues
    <3> QED BY <1>10, <3>1
  <2>2. \A e \in (live \cup {d}) \ live : held'[e][r][i] <= 0
    BY <1>10
  <2>3. live \cup {d} \in SUBSET Trades
    BY <1>5
  <2> QED BY <1>0, <1>5, <2>1, <2>2, <2>3, ReservedShrinks
<1>12. ASSUME r \in {p, q}, offer[d][r][i] > 0
       PROVE  NextSum(r, i, live \cup {d}) + offer[d][r][i] <= owned[r][i]
  <2> DEFINE all == Live(N)
  <2>1. /\ Reserved(r, i, all) <= owned[r][i]
        /\ Reserved(r, i, all) = offer[d][r][i] + Reserved(r, i, all \ {d})
        /\ offer[d][r][i] \in Nat
    BY <1>0, <1>4, <1>5, <1>9, <1>12, ReservedSplits
  <2>2. all \in SUBSET Trades /\ live \cup {d} \subseteq all
    BY <1>5
  <2> HIDE DEF all
  <2>3. /\ NextSum(r, i, live \cup {d}) <= Reserved(r, i, all \ {d})
        /\ NextSum(r, i, live \cup {d}) \in Nat /\ Reserved(r, i, all \ {d}) \in Nat
    <3>1. live \cup {d} \in SUBSET Trades /\ all \ {d} \in SUBSET Trades
      BY <1>5, <2>2
    <3>2. \A e \in (live \cup {d}) \cap (all \ {d}) : held'[e][r][i] <= held[e][r][i]
      BY <1>10
    <3>3. \A e \in (live \cup {d}) \ (all \ {d}) : held'[e][r][i] <= 0
      BY <1>10, <2>2
    <3> QED BY <1>0, <3>1, <3>2, <3>3, ReservedShrinks
  <2> QED BY <1>8, <2>1, <2>3
<1> HIDE DEF p, q
<1>13. CASE r = p
  <2>1. CASE offer[d][p][i] > 0
    BY <1>7, <1>8, <1>9, <1>11, <1>12, <1>13, <2>1
  <2>2. CASE ~ (offer[d][p][i] > 0)
    BY <1>7, <1>8, <1>9, <1>11, <1>13, <2>2
  <2> QED BY <2>1, <2>2
<1>14. CASE r = q
  <2>1. CASE offer[d][q][i] > 0
    BY <1>2, <1>7, <1>8, <1>9, <1>11, <1>12, <1>14, <2>1
  <2>2. CASE ~ (offer[d][q][i] > 0)
    BY <1>2, <1>7, <1>8, <1>9, <1>11, <1>14, <2>2
  <2> QED BY <2>1, <2>2
<1>15. CASE r \notin {p, q}
  BY <1>7, <1>8, <1>11, <1>15
<1> QED BY <1>13, <1>14, <1>15

(* Every step keeps reservations backed, unless items are used up.         *)
LEMMA BackedStep ==
    ASSUME TradeInv, TypeOK', ReservationsBacked, Shape, MayConsume = FALSE
    PROVE  ReservationsBacked'
<1>0. TypeOK /\ NothingHeld
  BY DEF TradeInv
<1>1. ASSUME held' = held, owned' = owned, past' = past PROVE ReservationsBacked'
  <2>1. HoldsNoMore
    BY <1>0, <1>1, BundleValues DEF HoldsNoMore, Deals
  <2> QED BY <1>0, <1>1, <2>1, BackedStays
<1>2. ASSUME NEW S \in SUBSET Deals, NEW s, End(S, s), owned' = owned
      PROVE  ReservationsBacked'
  <2>1. \A d \in Deals : held'[d] = NoOffers \/ (d \notin S /\ held'[d] = held[d])
    BY <1>2 DEF End
  <2>2. \A d \in Trades : Expired(d, past) /\ ~Expired(d, past') => d \in S
    BY <1>2 DEF End, Expired
  <2>3. \A d \in Deals, p \in Players, i \in Items : held'[d][p][i] <= held[d][p][i]
    <3> SUFFICES ASSUME NEW d \in Deals, NEW p \in Players, NEW i \in Items
                 PROVE  held'[d][p][i] <= held[d][p][i]
      OBVIOUS
    <3>1. held[d][p][i] \in Nat
      BY <1>0, BundleValues
    <3>2. CASE held'[d] = NoOffers
      BY <3>1, <3>2 DEF NoOffers, Nothing
    <3>3. CASE held'[d] = held[d]
      BY <3>1, <3>3
    <3> QED BY <2>1, <3>2, <3>3
  <2>4. HoldsNoMore
    BY <2>1, <2>2, <2>3 DEF HoldsNoMore, Deals
  <2> QED BY <1>0, <1>2, <2>4, BackedStays
<1>3. ASSUME NEW d \in Deals, NEW p \in Players, NEW q \in Players, NEW b \in Bundles,
             Starts(d, p, q, b)
      PROVE  ReservationsBacked'
  BY <1>1, <1>3 DEF Starts, Insert
<1>4. ASSUME NEW d \in Deals, StatusMoves(d) PROVE ReservationsBacked'
  <2>1. CASE CommitCreate(d)
    BY <1>1, <2>1 DEF CommitCreate
  <2>2. CASE d \in Trades /\ status[d] = "pending" /\ OpenTrade(d)
    <3>1. held' = held /\ owned' = owned /\ past' = past \ ({d} \X Deadlines)
      BY <2>2 DEF OpenTrade
    <3>2. held[d] = NoOffers
      BY <1>0, <2>2 DEF NothingHeld
    <3>3. HoldsNoMore
      BY <1>0, <3>1, <3>2, BundleValues DEF HoldsNoMore, Deals, Expired
    <3> QED BY <1>0, <3>1, <3>3, BackedStays
  <2> QED BY <1>4, <2>1, <2>2 DEF StatusMoves
<1>5. ASSUME NEW d \in Deals, Gives(d) PROVE ReservationsBacked'
  BY <1>5, BackedGift
<1>6. ASSUME NEW d \in Trades, NEW p \in Players, NEW b \in Bundles, Replaces(d, p, b)
      PROVE  ReservationsBacked'
  BY <1>6, BackedUpdate
<1>7. ASSUME NEW S \in SUBSET Deals, NEW s \in Undone, EndsOpen(S, s)
      PROVE  ReservationsBacked'
  BY <1>2, <1>7 DEF EndsOpen, Ends
<1>8. ASSUME NEW d \in Trades, NEW p \in Players, ConfirmStep(d, p)
      PROVE  ReservationsBacked'
  <2>1. CASE RecordConfirmation(d, p)
    BY <1>1, <2>1 DEF RecordConfirmation, lifeVars
  <2>2. ASSUME NEW N \in SUBSET past, FailSettlement(d, p, N) PROVE ReservationsBacked'
    <3>1. End({d}, "failed") /\ owned' = owned /\ {d} \in SUBSET Deals
      BY <2>2 DEF FailSettlement, Deals
    <3> QED BY <1>2, <3>1
  <2>3. ASSUME NEW N \in SUBSET past, Settle(d, p, N) PROVE ReservationsBacked'
    BY <2>3, BackedSettle
  <2> QED BY <1>8, <2>1, <2>2, <2>3 DEF ConfirmStep
<1>9. CASE ClientStep
  <2>1. CASE past' = past
    BY <1>1, <1>9, <2>1 DEF ClientStep, AnswerBootstrap, ShowTrade, Reads, DeadlinesMove, lifeVars
  <2>2. CASE DeadlinesMove
    <3>1. HoldsNoMore /\ owned' = owned
      BY <1>0, <2>2, BundleValues DEF DeadlinesMove, HoldsNoMore, Deals, Expired
    <3> QED BY <1>0, <3>1, BackedStays
  <2> QED BY <1>9, <2>1, <2>2 DEF ClientStep, AnswerBootstrap, ShowTrade, Reads, lifeVars
<1>10. CASE EnvStep
  BY <1>1, <1>10 DEF EnvStep, ComeAndGo, Consume, Age, vars, lifeVars
<1> QED BY <1>3, <1>4, <1>5, <1>6, <1>7, <1>8, <1>9, <1>10 DEF Shape

(* While no other gameplay uses up items without looking at reservations,  *)
(* all that trades reserve of an item, in trades that are not past their   *)
(* expiry, is there: for any number of trades, whatever clocks are behind. *)
THEOREM ReservationsAreBacked ==
    ASSUME MayConsume = FALSE
    PROVE  Spec => []ReservationsBacked
<1>1. Init => ReservationsBacked
  <2> SUFFICES ASSUME Init, NEW p \in Players, NEW i \in Items
               PROVE  Reserved(p, i, Live(past)) <= owned[p][i]
    BY DEF ReservationsBacked
  <2> DEFINE f == HeldOf(p, i)
  <2>1. TypeOK
    BY TradeInit DEF TradeInv
  <2>2. Live(past) \in SUBSET Trades
    BY DEF Live
  <2>3. \A d \in Live(past) : f[d] = 0
    BY DEF Init, Live, HeldOf, NoOffers, Nothing, Deals
  <2>4. IsFiniteSet(Live(past)) /\ Reserved(p, i, Live(past)) = SumOf(f, Live(past))
    BY <2>1, <2>2, HeldOfTyped
  <2> HIDE DEF f
  <2>5. SumOf(f, Live(past)) <= SumOf(f, {})
    <3>1. /\ \A d \in Live(past) : f[d] \in Int
          /\ \A d \in {} : f[d] \in Nat
          /\ \A d \in Live(past) \cap {} : f[d] <= f[d]
          /\ \A d \in Live(past) \ {} : f[d] <= 0
          /\ IsFiniteSet({})
      BY <2>3, FS_EmptySet
    <3> QED BY <2>4, <3>1, SumAtMost
  <2>6. SumOf(f, Live(past)) <= 0
    BY <2>5, SumEmpty
  <2>7. Reserved(p, i, Live(past)) \in Nat /\ owned[p][i] \in Nat
    BY <2>1, <2>2, HeldOfTyped, BundleValues, TradeInit DEF TypeOK
  <2> QED BY <2>4, <2>6, <2>7
<1>2. TradeInv /\ ReservationsBacked /\ [Next]_vars => ReservationsBacked'
  <2> SUFFICES ASSUME TradeInv, ReservationsBacked, [Next]_vars PROVE ReservationsBacked'
    OBVIOUS
  <2>1. Shape /\ TypeOK'
    BY StepShape, TradeStep DEF TradeInv
  <2> QED BY <2>1, BackedStep
<1> QED BY <1>1, <1>2, TradeInvariant, PTL DEF Spec
=============================================================================
