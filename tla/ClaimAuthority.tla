--------------------------- MODULE ClaimAuthority ---------------------------
(***************************************************************************)
(* InMemoryClaimAuthority of packages/token-claim-architecture: it turns   *)
(* approved eligibilities into claims, reserves treasury tokens, fees and  *)
(* cap usage when a claim is authorized, and gives the reservation back    *)
(* when the claim ends.  Its operations run one at a time (#exclusive) and *)
(* an operation that throws changes nothing, so each is one step.  The     *)
(* time of a request is given by its caller and need not grow; the         *)
(* idempotency key and the expected revision a caller sends only refuse    *)
(* requests, so they are left out, except that an authorization may be     *)
(* asked for again and is then answered from the record (Replay).  The     *)
(* policy and the epoch are those of the constructor, the epoch active.    *)
(***************************************************************************)
EXTENDS Integers, FiniteSets, FiniteSetsExt, Functions

CONSTANTS
    Eligibilities,   \* one for each source receipt, and at most one claim of each
    Core,            \* what an eligibility is bound to
    Wallets, NoOne,
    LastTime,        \* requests come at the times 0..LastTime, one day each
    Lifetime,        \* how long an authorization lasts
    Cap,             \* the limit of every layer, the epoch's less what was committed before
    MinimumClaim, MaximumClaim, Fees,
    TokenRoom, FeeRoom,  \* what the reserve fixture leaves to authorize at first
    EpochRoom            \* the epoch's allocation not yet committed at first

Times == 0..LastTime
Layers == {"receipt", "playerDaily", "playerWeekly", "playerMonthly", "walletDaily", "source",
           "activity", "campaign", "epoch", "globalDaily", "globalWeekly"}

Players == {Core[e].player : e \in Eligibilities}

ASSUME ClaimAssumption ==
    /\ NoOne \notin Wallets /\ LastTime \in Nat /\ Lifetime \in Nat \ {0}
    /\ \A e \in Eligibilities :
          /\ Core[e].wallet \in Wallets /\ Core[e].amount \in Nat \ {0}
          /\ Core[e].earliest \in Times /\ Core[e].expires \in Nat
          /\ Core[e].active \in BOOLEAN /\ Core[e].epoch \in BOOLEAN
    /\ Cap \in [Layers -> Nat] /\ Fees \subseteq Nat
    /\ {MinimumClaim, MaximumClaim, TokenRoom, FeeRoom, EpochRoom} \subseteq Nat

VARIABLES
    wallet,       \* #walletByPlayer
    suspended,    \* #suspendedPlayers
    approved,     \* #eligibilityById
    claim,        \* #claimById: state, and when the authorization expires (0: none)
    hold,         \* #usageReservationByClaim and #feeReservationByClaim
    usage,        \* #usage
    reserve,      \* authorizedUnclaimed and pendingFee above what the fixture began with
    epoch,        \* authorizedAmount (above the beginning) and cancelledAmount
    answered      \* the claim whose authorization the last operation returned

vars == <<wallet, suspended, approved, claim, hold, usage, reserve, epoch, answered>>
ledger == <<hold, usage, reserve, epoch>>

Week(t) == t \div 2
Amount(e) == Core[e].amount
Player(e) == Core[e].player
Ended == {"ineligible", "expired_mock", "cancelled_mock"}

(* #usageKeys of an authorization at time t, and the layer of a key.       *)
UsageKeys(e, t) ==
    {<<"receipt", e>>, <<"playerDaily", Player(e), t>>, <<"playerWeekly", Player(e), Week(t)>>,
     <<"playerMonthly", Player(e)>>, <<"walletDaily", Core[e].wallet, t>>,
     <<"source", Core[e].source>>, <<"campaign">>, <<"globalDaily", t>>,
     <<"globalWeekly", Week(t)>>}
    \cup (IF Core[e].active THEN {<<"activity">>} ELSE {})
    \cup (IF Core[e].epoch THEN {<<"epoch">>} ELSE {})
AllKeys == UNION {UsageKeys(e, t) : e \in Eligibilities, t \in Times}

Nothing == [keys |-> {}, fee |-> 0]

TypeOK ==
    /\ wallet \in [Players -> Wallets \cup {NoOne}] /\ suspended \subseteq Players
    /\ approved \subseteq Eligibilities
    /\ claim \in [Eligibilities -> [st : {"none", "eligible_mock", "quarantined_mock",
                                          "authorized_mock"} \cup Ended, expires : Nat]]
    /\ \A e \in Eligibilities : hold[e].keys \subseteq AllKeys /\ hold[e].fee \in Fees \cup {0}
    /\ usage \in [AllKeys -> Nat]
    /\ reserve \in [tokens : Nat, fees : Nat] /\ epoch \in [authorized : Nat, cancelled : Nat]
    /\ answered \in Eligibilities \cup {NoOne}

Init ==
    /\ wallet = [p \in Players |-> NoOne] /\ suspended = {} /\ approved = {}
    /\ claim = [e \in Eligibilities |-> [st |-> "none", expires |-> 0]]
    /\ hold = [e \in Eligibilities |-> Nothing]
    /\ usage = [k \in AllKeys |-> 0]
    /\ reserve = [tokens |-> 0, fees |-> 0] /\ epoch = [authorized |-> 0, cancelled |-> 0]
    /\ answered = NoOne

-----------------------------------------------------------------------------
(* createEligibility: the first one of a player binds the wallet.          *)
CreateEligibility(e) ==
    /\ e \notin approved /\ wallet[Player(e)] \in {NoOne, Core[e].wallet}
    /\ approved' = approved \cup {e}
    /\ wallet' = [wallet EXCEPT ![Player(e)] = Core[e].wallet]
    /\ answered' = NoOne
    /\ UNCHANGED <<suspended, claim, ledger>>

Claimable(e, t) == Core[e].earliest <= t /\ t < Core[e].expires

(* createClaimIntent: asking again returns the claim there is.             *)
CreateClaimIntent(e, t) ==
    /\ e \in approved /\ claim[e].st = "none" /\ Claimable(e, t)
    /\ claim' = [claim EXCEPT ![e].st = "eligible_mock"]
    /\ answered' = NoOne
    /\ UNCHANGED <<wallet, suspended, approved, ledger>>

(* CLAIM_STATE_TRANSITIONS, for the edges the operations below ask for.    *)
CanTransition(from, to) ==
    CASE from = "eligible_mock" -> to \in {"quarantined_mock", "authorized_mock",
                                           "expired_mock", "cancelled_mock"}
      [] from = "authorized_mock" -> to \in {"quarantined_mock", "expired_mock", "cancelled_mock"}
      [] from = "quarantined_mock" -> to \in {"ineligible", "eligible_mock",
                                              "expired_mock", "cancelled_mock"}
      [] OTHER -> FALSE

(* Faulty variant: only the size of the claim is checked.                  *)
ChecksTheFirstLayer(e, t) == Amount(e) \in MinimumClaim..MaximumClaim
(* evaluateClaimCaps and the epoch's remaining allocation.                 *)
WithinCaps(e, t) ==
    /\ Amount(e) \in MinimumClaim..MaximumClaim
    /\ \A k \in UsageKeys(e, t) : usage[k] + Amount(e) <= Cap[k[1]]
    /\ Core[e].epoch => epoch.authorized + Amount(e) <= EpochRoom

(* calculateTreasuryReserve.                                               *)
ReserveAllows(e, fee) ==
    Amount(e) <= TokenRoom - reserve.tokens /\ fee <= FeeRoom - reserve.fees

Entitled(e) == Player(e) \notin suspended /\ wallet[Player(e)] = Core[e].wallet

AuthorizeMock(e, t, fee) ==
    /\ claim[e].st = "eligible_mock" /\ Entitled(e) /\ Claimable(e, t)
    /\ ReserveAllows(e, fee) /\ WithinCaps(e, t)
    /\ claim' = [claim EXCEPT ![e] =
          [st |-> "authorized_mock", expires |-> Min({Core[e].expires, t + Lifetime})]]
    /\ hold' = [hold EXCEPT ![e] = [keys |-> UsageKeys(e, t), fee |-> fee]]
    /\ usage' = [k \in AllKeys |-> usage[k] + IF k \in UsageKeys(e, t) THEN Amount(e) ELSE 0]
    /\ reserve' = [tokens |-> reserve.tokens + Amount(e), fees |-> reserve.fees + fee]
    /\ epoch' = [epoch EXCEPT !.authorized = IF Core[e].epoch THEN @ + Amount(e) ELSE @]
    /\ answered' = e
    /\ UNCHANGED <<wallet, suspended, approved>>

Replayable(e, t) == claim[e].st = "authorized_mock" /\ t < claim[e].expires

(* authorizeMock with a key that was used: the recorded authorization, if  *)
(* the claim still has it and it has not expired.                          *)
Replay(e, t) ==
    /\ claim[e].expires > 0 /\ Replayable(e, t) /\ answered' = e
    /\ UNCHANGED <<wallet, suspended, approved, claim, ledger>>

-----------------------------------------------------------------------------
(* Faulty variant: usage is given back to the keys of today.               *)
KeysOfTheDay(e, t) == IF hold[e].keys = {} THEN {} ELSE UsageKeys(e, t)
KeysToRelease(e, t) == hold[e].keys

(* #releaseAuthorizedClaim, by a claim that ends at time t.                *)
Release(e, t) ==
    IF claim[e].expires = 0 THEN UNCHANGED ledger
    ELSE /\ hold' = [hold EXCEPT ![e] = Nothing]
         /\ usage' = [k \in AllKeys |->
                usage[k] - IF k \in KeysToRelease(e, t) THEN Amount(e) ELSE 0]
         /\ reserve' = [tokens |-> reserve.tokens - Amount(e),
                        fees |-> reserve.fees - hold[e].fee]
         /\ epoch' = IF Core[e].epoch
                     THEN [authorized |-> epoch.authorized - Amount(e),
                           cancelled |-> epoch.cancelled + Amount(e)]
                     ELSE epoch

Become(e, st) ==
    /\ CanTransition(claim[e].st, st)
    /\ claim' = [claim EXCEPT ![e].st = st]
    /\ answered' = NoOne
    /\ UNCHANGED <<wallet, suspended, approved>>

CancelClaim(e, t) == Become(e, "cancelled_mock") /\ Release(e, t)

(* expireClaim waits for the authorization's expiry, when there is one.    *)
ExpireClaim(e, t) ==
    /\ t >= IF claim[e].expires > 0 THEN claim[e].expires ELSE Core[e].expires
    /\ Become(e, "expired_mock") /\ Release(e, t)

QuarantineClaim(e) == Become(e, "quarantined_mock") /\ UNCHANGED ledger

(* Faulty variant: an authorization does not bar the return.               *)
ResolvesAny(e) == claim[e].st = "quarantined_mock"
Resolvable(e) == claim[e].st = "quarantined_mock" /\ claim[e].expires = 0

(* resolveDisputeReview: a claim that was ever authorized cannot return.   *)
ResolveDisputeReview(e, st) ==
    Resolvable(e) /\ Become(e, st) /\ UNCHANGED ledger

Quarantine(es) ==
    claim' = [e \in Eligibilities |->
        IF e \in es THEN [claim[e] EXCEPT !.st = "quarantined_mock"] ELSE claim[e]]

(* Faulty variant: the authorized claims are left alone.                   *)
StillEligible(p, w) ==
    {e \in Eligibilities : Player(e) = p /\ Core[e].wallet # w /\ claim[e].st = "eligible_mock"}
Misdirected(p, w) ==
    {e \in Eligibilities : Player(e) = p /\ Core[e].wallet # w /\ claim[e].st = "authorized_mock"}

(* updateVerifiedWallet.                                                   *)
UpdateVerifiedWallet(p, w) ==
    /\ wallet' = [wallet EXCEPT ![p] = w]
    /\ Quarantine(Misdirected(p, w)) /\ answered' = NoOne
    /\ UNCHANGED <<suspended, approved, ledger>>

(* setPlayerSuspended; lifting the suspension leaves the claims as they are.*)
SetPlayerSuspended(p, on) ==
    /\ suspended' = IF on THEN suspended \cup {p} ELSE suspended \ {p}
    /\ Quarantine(IF on THEN {e \in Eligibilities : Player(e) = p
                                 /\ claim[e].st \in {"eligible_mock", "authorized_mock"}}
                        ELSE {})
    /\ answered' = NoOne
    /\ UNCHANGED <<wallet, approved, ledger>>

Next ==
    \/ \E e \in Eligibilities, t \in Times :
          \/ CreateClaimIntent(e, t) \/ Replay(e, t) \/ CancelClaim(e, t) \/ ExpireClaim(e, t)
          \/ \E fee \in Fees : AuthorizeMock(e, t, fee)
    \/ \E e \in Eligibilities :
          \/ CreateEligibility(e) \/ QuarantineClaim(e)
          \/ \E st \in {"eligible_mock", "ineligible"} : ResolveDisputeReview(e, st)
    \/ \E p \in Players :
          \/ \E w \in Wallets : UpdateVerifiedWallet(p, w)
          \/ \E on \in BOOLEAN : SetPlayerSuspended(p, on)

Spec == Init /\ [][Next]_vars

-----------------------------------------------------------------------------
(* The claims that hold a reservation: authorized once and not ended.      *)
Holding == {e \in Eligibilities : claim[e].expires > 0 /\ claim[e].st \notin Ended}
SumOver(f, es) == FoldFunctionOnSet(LAMBDA a, b : a + b, 0, f, es)
Total(es) == SumOver([e \in Eligibilities |-> Amount(e)], es)

(* What is reserved is what the unfinished authorizations hold: the        *)
(* reserve's tokens and fees, the usage of every cap key and the epoch's   *)
(* authorized amount, whichever day and in whichever order claims are      *)
(* authorized, quarantined, cancelled and expired.                         *)
HeldIsAccounted ==
    /\ reserve.tokens = Total(Holding)
    /\ reserve.fees = SumOver([e \in Eligibilities |-> hold[e].fee], Holding)
    /\ \A k \in AllKeys : usage[k] = Total({e \in Holding : k \in hold[e].keys})
    /\ epoch.authorized = Total({e \in Holding : Core[e].epoch})

(* However authorizations overlap, they never take more than the treasury  *)
(* and the fee reserve leave, than any layer's cap, or than the epoch has. *)
NeverOverCommitted ==
    /\ reserve.tokens <= TokenRoom /\ reserve.fees <= FeeRoom
    /\ \A k \in AllKeys : usage[k] <= Cap[k[1]]
    /\ epoch.authorized <= EpochRoom

(* An authorized claim pays the wallet the player has verified now, and    *)
(* its player is not suspended; and an authorization is handed out, first  *)
(* or again, only for such a claim.                                        *)
AuthorizedIsEntitled ==
    /\ \A e \in Eligibilities : claim[e].st = "authorized_mock" => Entitled(e)
    /\ answered # NoOne => claim[answered].st = "authorized_mock"

(* A claim is authorized once: its expiry never changes afterwards, and    *)
(* from quarantine it can only end; an ended claim never changes.          *)
AuthorizedOnce ==
    [][\A e \in Eligibilities :
          /\ claim[e].expires > 0 =>
                /\ claim'[e].expires = claim[e].expires
                /\ claim[e].st # "authorized_mock" => claim'[e].st # "authorized_mock"
                /\ claim'[e].st # "eligible_mock"
          /\ claim[e].st \in Ended => claim'[e] = claim[e]]_vars
=============================================================================
