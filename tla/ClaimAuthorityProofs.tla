------------------------ MODULE ClaimAuthorityProofs ------------------------
(***************************************************************************)
(* Theorems about ClaimAuthority, for all eligibilities and whatever they  *)
(* are bound to, every cap, reserve and fee.                               *)
(***************************************************************************)
EXTENDS ClaimAuthority, SumTheorems

States == {"none", "eligible_mock", "quarantined_mock", "authorized_mock"} \cup Ended
Claims == [st : States, expires : Nat]

(* The totals are integers here: that they are sums of what claims hold,   *)
(* and so never negative, is HeldIsAccounted.                              *)
AccountTypes ==
    /\ hold \in [Eligibilities -> [keys : SUBSET AllKeys, fee : Fees \cup {0}]]
    /\ usage \in [AllKeys -> Int]
    /\ reserve \in [tokens : Int, fees : Int]
    /\ epoch \in [authorized : Int, cancelled : Nat]

ClaimTypes ==
    /\ wallet \in [Players -> Wallets \cup {NoOne}] /\ suspended \subseteq Players
    /\ approved \subseteq Eligibilities
    /\ claim \in [Eligibilities -> Claims] /\ answered \in Eligibilities \cup {NoOne}

(* A claim that could still be authorized never was.                       *)
NeverAuthorized ==
    \A e \in Eligibilities : claim[e].st \in {"none", "eligible_mock"} => claim[e].expires = 0

(* What is reserved is a sum over finitely many claims.                    *)
Accounted == IsFiniteSet(Holding) /\ HeldIsAccounted

AuthorityInv ==
    /\ ClaimTypes /\ AccountTypes /\ NeverAuthorized
    /\ AuthorizedIsEntitled /\ NeverOverCommitted /\ Accounted

-----------------------------------------------------------------------------
(* Every key belongs to a layer, and an eligibility's keys are among all.  *)
LEMMA KeysHaveLayers ==
    /\ \A e \in Eligibilities, t \in Times : UsageKeys(e, t) \subseteq AllKeys
    /\ \A k \in AllKeys : k[1] \in Layers
<1>1. \A e \in Eligibilities, t \in Times : UsageKeys(e, t) \subseteq AllKeys
  BY DEF AllKeys
<1>2. ASSUME NEW e \in Eligibilities, NEW t \in Times, NEW k \in UsageKeys(e, t)
      PROVE  k[1] \in Layers
  BY <1>2, SMTT(60) DEF UsageKeys, Layers
<1>3. QED  BY <1>1, <1>2 DEF AllKeys

(* The constants of one eligibility.                                       *)
LEMMA CoreTypes ==
    ASSUME NEW e \in Eligibilities
    PROVE  /\ Core[e].wallet \in Wallets /\ Core[e].wallet # NoOne /\ Player(e) \in Players
           /\ Amount(e) \in Nat /\ Core[e].expires \in Nat
BY ClaimAssumption DEF Player, Players, Amount

(* The totals of ClaimAuthority are sums.                                  *)
LEMMA SumOverIsSum == \A f, es : SumOver(f, es) = SumOf(f, es)
BY DEF SumOver, FoldFunctionOnSet, MapThenFoldSet, SumOf, IsSum, SumStep, Pick

(* The earlier of two times is one of them.                                *)
LEMMA EarlierOfTwo == \A a, b \in Nat : Min({a, b}) \in {a, b}
<1>1. SUFFICES ASSUME NEW a \in Nat, NEW b \in Nat PROVE Min({a, b}) \in {a, b}
  OBVIOUS
<1>2. \E x \in {a, b} : \A y \in {a, b} : x <= y
  BY SMT
<1>3. QED  BY <1>2 DEF Min

(* A step that leaves the accounts alone leaves their limits respected.    *)
LEMMA AccountsFrame ==
    ASSUME AccountTypes, NeverOverCommitted, UNCHANGED ledger
    PROVE  AccountTypes' /\ NeverOverCommitted'
BY DEF AccountTypes, NeverOverCommitted, ledger

-----------------------------------------------------------------------------
(* A release only gives back.                                              *)
LEMMA ReleaseGivesBack ==
    ASSUME AuthorityInv, NEW e \in Eligibilities, NEW t \in Times, Release(e, t)
    PROVE  AccountTypes' /\ NeverOverCommitted'
<1>0. AccountTypes /\ NeverOverCommitted
  BY DEF AuthorityInv
<1>1. CASE claim[e].expires = 0
  BY <1>0, <1>1, AccountsFrame DEF Release
<1>2. CASE claim[e].expires # 0
  <2> DEFINE a == Amount(e)
  <2>1. /\ hold' = [hold EXCEPT ![e] = Nothing]
        /\ usage' = [k \in AllKeys |-> usage[k] - IF k \in KeysToRelease(e, t) THEN a ELSE 0]
        /\ reserve' = [tokens |-> reserve.tokens - a, fees |-> reserve.fees - hold[e].fee]
        /\ epoch' = IF Core[e].epoch
                    THEN [authorized |-> epoch.authorized - a, cancelled |-> epoch.cancelled + a]
                    ELSE epoch
    BY <1>2 DEF Release
  <2>2. a \in Nat
    BY CoreTypes
  <2> HIDE DEF a
  <2>3. hold[e].fee \in Nat
    <3>1. hold[e] \in [keys : SUBSET AllKeys, fee : Fees \cup {0}]
      BY <1>0 DEF AccountTypes
    <3>2. hold[e].fee \in Fees \cup {0}
      BY <3>1
    <3>3. Fees \subseteq Nat
      BY ClaimAssumption
    <3>4. CASE hold[e].fee \in Fees
      BY <3>3, <3>4
    <3>5. CASE hold[e].fee = 0
      BY <3>5
    <3>6. QED  BY <3>2, <3>4, <3>5
  <2>4. /\ hold \in [Eligibilities -> [keys : SUBSET AllKeys, fee : Fees \cup {0}]]
        /\ usage \in [AllKeys -> Int]
        /\ reserve.tokens \in Int /\ reserve.fees \in Int
        /\ epoch \in [authorized : Int, cancelled : Nat]
        /\ epoch.authorized \in Int /\ epoch.cancelled \in Nat
    BY <1>0 DEF AccountTypes
  <2>5. AccountTypes'
    <3>1. Nothing \in [keys : SUBSET AllKeys, fee : Fees \cup {0}]
      BY DEF Nothing
    <3>2. hold' \in [Eligibilities -> [keys : SUBSET AllKeys, fee : Fees \cup {0}]]
      BY <2>1, <2>4, <3>1
    <3>3. usage' \in [AllKeys -> Int]
      BY <2>1, <2>2, <2>4
    <3>4. reserve' \in [tokens : Int, fees : Int]
      BY <2>1, <2>2, <2>3, <2>4
    <3>5. epoch' \in [authorized : Int, cancelled : Nat]
      BY <2>1, <2>2, <2>4
    <3>6. QED  BY <3>2, <3>3, <3>4, <3>5 DEF AccountTypes
  <2>6. \A k \in AllKeys : usage'[k] <= usage[k]
    BY <2>1, <2>2, <2>4
  <2>7. reserve'.tokens <= reserve.tokens /\ reserve'.fees <= reserve.fees
    BY <2>1, <2>2, <2>3, <2>4
  <2>8. epoch'.authorized <= epoch.authorized
    BY <2>1, <2>2, <2>4
  <2>9. NeverOverCommitted'
    <3>1. /\ \A k \in AllKeys : Cap[k[1]] \in Int
          /\ TokenRoom \in Int /\ FeeRoom \in Int /\ EpochRoom \in Int
      BY KeysHaveLayers, ClaimAssumption
    <3>2. /\ \A k \in AllKeys : usage[k] \in Int /\ usage'[k] \in Int
          /\ reserve.tokens \in Int /\ reserve.fees \in Int /\ epoch.authorized \in Int
          /\ reserve'.tokens \in Int /\ reserve'.fees \in Int /\ epoch'.authorized \in Int
      BY <2>4, <2>5 DEF AccountTypes
    <3>3. \A k \in AllKeys : usage'[k] <= Cap[k[1]]
      BY <3>1, <3>2, <2>6, <1>0 DEF NeverOverCommitted
    <3>4. reserve'.tokens <= TokenRoom /\ reserve'.fees <= FeeRoom
          /\ epoch'.authorized <= EpochRoom
      BY <3>1, <3>2, <2>7, <2>8, <1>0 DEF NeverOverCommitted
    <3>5. QED  BY <3>3, <3>4 DEF NeverOverCommitted
  <2>10. QED  BY <2>5, <2>9
<1>3. QED  BY <1>1, <1>2

(* An authorization takes only what every limit still leaves.              *)
LEMMA AuthorizationFits ==
    ASSUME AuthorityInv, NEW e \in Eligibilities, NEW t \in Times, NEW fee \in Fees,
           AuthorizeMock(e, t, fee)
    PROVE  AccountTypes' /\ NeverOverCommitted'
<1> DEFINE a == Amount(e)
<1>0. AccountTypes /\ NeverOverCommitted
  BY DEF AuthorityInv
<1>1. /\ hold' = [hold EXCEPT ![e] = [keys |-> UsageKeys(e, t), fee |-> fee]]
      /\ usage' = [k \in AllKeys |-> usage[k] + IF k \in UsageKeys(e, t) THEN a ELSE 0]
      /\ reserve' = [tokens |-> reserve.tokens + a, fees |-> reserve.fees + fee]
      /\ epoch' = [epoch EXCEPT !.authorized = IF Core[e].epoch THEN @ + a ELSE @]
  BY DEF AuthorizeMock
<1>2. /\ a <= TokenRoom - reserve.tokens /\ fee <= FeeRoom - reserve.fees
      /\ \A k \in UsageKeys(e, t) : usage[k] + a <= Cap[k[1]]
      /\ Core[e].epoch => epoch.authorized + a <= EpochRoom
  BY DEF AuthorizeMock, ReserveAllows, WithinCaps
<1>3. a \in Nat /\ fee \in Nat /\ UsageKeys(e, t) \in SUBSET AllKeys
  BY CoreTypes, KeysHaveLayers, ClaimAssumption
<1> HIDE DEF a
<1>4. /\ hold \in [Eligibilities -> [keys : SUBSET AllKeys, fee : Fees \cup {0}]]
      /\ usage \in [AllKeys -> Int]
      /\ reserve.tokens \in Int /\ reserve.fees \in Int
      /\ epoch \in [authorized : Int, cancelled : Nat]
      /\ epoch.authorized \in Int /\ epoch.cancelled \in Nat
  BY <1>0 DEF AccountTypes
<1>5. AccountTypes'
  <2>1. [keys |-> UsageKeys(e, t), fee |-> fee] \in [keys : SUBSET AllKeys, fee : Fees \cup {0}]
    BY <1>3
  <2>2. hold' \in [Eligibilities -> [keys : SUBSET AllKeys, fee : Fees \cup {0}]]
    BY <1>1, <1>4, <2>1
  <2>3. usage' \in [AllKeys -> Int]
    BY <1>1, <1>3, <1>4
  <2>4. reserve' \in [tokens : Int, fees : Int]
    BY <1>1, <1>3, <1>4
  <2>5. epoch' \in [authorized : Int, cancelled : Nat]
    BY <1>1, <1>3, <1>4
  <2>6. QED  BY <2>2, <2>3, <2>4, <2>5 DEF AccountTypes
<1>6. /\ \A k \in AllKeys : Cap[k[1]] \in Int
      /\ TokenRoom \in Int /\ FeeRoom \in Int /\ EpochRoom \in Int
  BY KeysHaveLayers, ClaimAssumption
<1>7. \A k \in AllKeys : usage'[k] <= Cap[k[1]]
  <2> SUFFICES ASSUME NEW k \in AllKeys PROVE usage'[k] <= Cap[k[1]]
    OBVIOUS
  <2>1. usage[k] <= Cap[k[1]] /\ usage[k] \in Int /\ Cap[k[1]] \in Int
    BY <1>0, <1>4, <1>6 DEF NeverOverCommitted
  <2>2. CASE k \in UsageKeys(e, t)
    BY <1>1, <1>2, <2>2
  <2>3. CASE k \notin UsageKeys(e, t)
    BY <1>1, <2>1, <2>3
  <2>4. QED  BY <2>2, <2>3
<1>8. reserve'.tokens <= TokenRoom /\ reserve'.fees <= FeeRoom
  BY <1>1, <1>2, <1>3, <1>4, <1>6
<1>9. epoch'.authorized <= EpochRoom
  <2>1. epoch.authorized <= EpochRoom
    BY <1>0 DEF NeverOverCommitted
  <2>2. QED  BY <1>1, <1>2, <1>4, <2>1
<1>10. QED  BY <1>5, <1>7, <1>8, <1>9 DEF NeverOverCommitted

-----------------------------------------------------------------------------
(* A step that changes neither the accounts nor which claims hold some.    *)
LEMMA AccountedFrame ==
    ASSUME Accounted, UNCHANGED ledger, Holding' = Holding
    PROVE  Accounted'
BY DEF Accounted, HeldIsAccounted, ledger

(* The values the sums are made of.                                        *)
LEMMA HeldTypes ==
    ASSUME AccountTypes, NEW e \in Eligibilities
    PROVE  /\ [d \in Eligibilities |-> Amount(d)][e] = Amount(e) /\ Amount(e) \in Nat
           /\ [d \in Eligibilities |-> hold[d].fee][e] = hold[e].fee /\ hold[e].fee \in Nat
<1>1. Amount(e) \in Nat
  BY CoreTypes
<1>2. hold[e] \in [keys : SUBSET AllKeys, fee : Fees \cup {0}]
  BY DEF AccountTypes
<1>3. hold[e].fee \in Fees \cup {0}
  BY <1>2
<1>4. Fees \subseteq Nat
  BY ClaimAssumption
<1>5. CASE hold[e].fee \in Fees
  BY <1>1, <1>4, <1>5
<1>6. CASE hold[e].fee = 0
  BY <1>1, <1>6
<1>7. QED  BY <1>3, <1>5, <1>6

(* A total with one claim more, and with one claim less.                   *)
LEMMA TotalChanges ==
    ASSUME NEW S \in SUBSET Eligibilities, IsFiniteSet(S), NEW e \in Eligibilities
    PROVE  /\ Total(S) \in Nat
           /\ e \notin S => Total(S \cup {e}) = Total(S) + Amount(e)
           /\ e \in S => Total(S \ {e}) = Total(S) - Amount(e)
<1> DEFINE f == [d \in Eligibilities |-> Amount(d)]
<1>1. \A d \in Eligibilities : f[d] \in Nat /\ f[d] \in Int /\ f[d] = Amount(d)
  BY CoreTypes
<1>2. \A R \in SUBSET Eligibilities : Total(R) = SumOf(f, R)
  BY SumOverIsSum DEF Total
<1> HIDE DEF f
<1>3. \A d \in S : f[d] \in Nat
  BY <1>1
<1>4. SumOf(f, S) \in Nat
  BY <1>3, SumNat
<1>5. ASSUME e \notin S PROVE SumOf(f, S \cup {e}) = SumOf(f, S) + f[e]
  <2>1. \A d \in S \cup {e} : f[d] \in Int
    BY <1>1
  <2>2. QED  BY <2>1, <1>5, SumGrows
<1>6. ASSUME e \in S PROVE SumOf(f, S \ {e}) = SumOf(f, S) - f[e]
  <2>1. \A d \in S : f[d] \in Int
    BY <1>1
  <2>2. QED  BY <2>1, <1>6, SumShrinks
<1>7. S \cup {e} \in SUBSET Eligibilities /\ S \ {e} \in SUBSET Eligibilities
  OBVIOUS
<1>8. QED  BY <1>1, <1>2, <1>4, <1>5, <1>6, <1>7

(* What an authorization takes is what the claim then holds.               *)
LEMMA AuthorizationAccounted ==
    ASSUME AuthorityInv, NEW e \in Eligibilities, NEW t \in Times, NEW fee \in Fees,
           AuthorizeMock(e, t, fee)
    PROVE  Accounted'
<1> DEFINE a == Amount(e)
           f == [d \in Eligibilities |-> hold[d].fee]
           g == [d \in Eligibilities |-> hold'[d].fee]
<1>0. ClaimTypes /\ AccountTypes /\ NeverAuthorized /\ IsFiniteSet(Holding) /\ HeldIsAccounted
  BY DEF AuthorityInv, Accounted
<1>1. /\ claim[e].st = "eligible_mock" /\ t < Core[e].expires
      /\ claim' = [claim EXCEPT ![e] =
            [st |-> "authorized_mock", expires |-> Min({Core[e].expires, t + Lifetime})]]
      /\ hold' = [hold EXCEPT ![e] = [keys |-> UsageKeys(e, t), fee |-> fee]]
      /\ usage' = [k \in AllKeys |-> usage[k] + IF k \in UsageKeys(e, t) THEN a ELSE 0]
      /\ reserve' = [tokens |-> reserve.tokens + a, fees |-> reserve.fees + fee]
      /\ epoch' = [epoch EXCEPT !.authorized = IF Core[e].epoch THEN @ + a ELSE @]
  BY DEF AuthorizeMock, Claimable
<1>2. a \in Nat /\ fee \in Nat
  BY CoreTypes, ClaimAssumption
<1> HIDE DEF a
<1>3. e \notin Holding
  BY <1>0, <1>1 DEF NeverAuthorized, Holding
<1>4. Holding' = Holding \cup {e}
  <2>1. Min({Core[e].expires, t + Lifetime}) > 0
    <3>1. /\ Core[e].expires \in Nat /\ t + Lifetime \in Nat
          /\ Core[e].expires > 0 /\ t + Lifetime > 0
      BY <1>1, CoreTypes, ClaimAssumption DEF Times
    <3>2. QED  BY <3>1, EarlierOfTwo
  <2>2. claim \in [Eligibilities -> Claims]
    BY <1>0 DEF ClaimTypes
  <2>3. claim'[e].st = "authorized_mock" /\ claim'[e].expires > 0
    BY <1>1, <2>1, <2>2
  <2>4. \A d \in Eligibilities \ {e} : claim'[d] = claim[d]
    BY <1>1, <2>2
  <2>5. e \in Holding'
    BY <2>3 DEF Holding, Ended
  <2>6. QED  BY <2>4, <2>5 DEF Holding
<1>5. /\ hold'[e] = [keys |-> UsageKeys(e, t), fee |-> fee]
      /\ \A d \in Eligibilities \ {e} : hold'[d] = hold[d]
  BY <1>0, <1>1 DEF AccountTypes
<1>6. IsFiniteSet(Holding')
  BY <1>0, <1>4, FS_AddElement
<1>7. Holding \in SUBSET Eligibilities
  BY DEF Holding
<1>8. reserve'.tokens = Total(Holding')
  <2>1. reserve.tokens = Total(Holding)
    BY <1>0 DEF HeldIsAccounted
  <2>2. Total(Holding \cup {e}) = Total(Holding) + a
    BY <1>0, <1>3, <1>7, TotalChanges DEF a
  <2>3. QED  BY <1>1, <1>4, <2>1, <2>2
<1>9. reserve'.fees = SumOver(g, Holding')
  <2>1. reserve.fees = SumOf(f, Holding)
    BY <1>0, SumOverIsSum DEF HeldIsAccounted
  <2>2. g[e] = fee
    BY <1>5
  <2>3. \A d \in Holding : f[d] = g[d] /\ f[d] \in Int
    BY <1>0, <1>3, <1>5, <1>7, HeldTypes
  <2> HIDE DEF f, g
  <2>4. \A d \in Holding \cup {e} : g[d] \in Int
    BY <2>2, <2>3, <1>2
  <2>5. SumOf(g, Holding \cup {e}) = SumOf(f, Holding) + g[e]
    <3>1. \A d \in Holding : f[d] = g[d]
      BY <2>3
    <3>2. QED  BY <1>0, <1>3, <2>4, <3>1, SumGrows
  <2>6. QED  BY <1>1, <1>4, <2>1, <2>2, <2>5, SumOverIsSum
<1>10. ASSUME NEW k \in AllKeys
       PROVE  usage'[k] = Total({d \in Holding' : k \in hold'[d].keys})
  <2> DEFINE H == {d \in Holding : k \in hold[d].keys}
  <2>1. usage[k] = Total(H)
    BY <1>0 DEF HeldIsAccounted
  <2>2. H \in SUBSET Eligibilities /\ IsFiniteSet(H) /\ e \notin H
    BY <1>0, <1>3, <1>7, FS_Subset
  <2>3. Total(H) \in Nat /\ Total(H \cup {e}) = Total(H) + a
    BY <2>2, TotalChanges DEF a
  <2>4. \A d \in Holding : hold'[d].keys = hold[d].keys
    BY <1>3, <1>5, <1>7
  <2>5. hold'[e].keys = UsageKeys(e, t)
    BY <1>5
  <2>6. CASE k \in UsageKeys(e, t)
    <3>1. {d \in Holding' : k \in hold'[d].keys} = H \cup {e}
      BY <1>4, <2>4, <2>5, <2>6
    <3>2. usage'[k] = usage[k] + a
      BY <1>1, <2>6
    <3> HIDE DEF H
    <3>3. QED  BY <2>1, <2>3, <3>1, <3>2
  <2>7. CASE k \notin UsageKeys(e, t)
    <3>1. {d \in Holding' : k \in hold'[d].keys} = H
      BY <1>4, <2>4, <2>5, <2>7
    <3>2. usage'[k] = usage[k] + 0 /\ usage[k] \in Int
      BY <1>0, <1>1, <2>7 DEF AccountTypes
    <3>3. usage'[k] = usage[k]
      BY <3>2
    <3>4. QED  BY <2>1, <3>1, <3>3
  <2>8. QED  BY <2>6, <2>7
<1>11. epoch'.authorized = Total({d \in Holding' : Core[d].epoch})
  <2> DEFINE H == {d \in Holding : Core[d].epoch}
  <2>1. epoch.authorized = Total(H)
    BY <1>0 DEF HeldIsAccounted
  <2>2. H \in SUBSET Eligibilities /\ IsFiniteSet(H) /\ e \notin H
    BY <1>0, <1>3, <1>7, FS_Subset
  <2>3. Total(H) \in Nat /\ Total(H \cup {e}) = Total(H) + a
    BY <2>2, TotalChanges DEF a
  <2>4. epoch'.authorized = IF Core[e].epoch THEN epoch.authorized + a ELSE epoch.authorized
    BY <1>0, <1>1 DEF AccountTypes
  <2>5. CASE Core[e].epoch
    <3>1. {d \in Holding' : Core[d].epoch} = H \cup {e}
      BY <1>4, <2>5
    <3> HIDE DEF H
    <3>2. QED  BY <2>1, <2>3, <2>4, <2>5, <3>1
  <2>6. CASE ~ Core[e].epoch
    <3>1. {d \in Holding' : Core[d].epoch} = H
      BY <1>4, <2>6
    <3> HIDE DEF H
    <3>2. QED  BY <2>1, <2>4, <2>6, <3>1
  <2>7. QED  BY <2>5, <2>6
<1>12. HeldIsAccounted'
  BY <1>8, <1>9, <1>10, <1>11 DEF HeldIsAccounted
<1>13. QED  BY <1>6, <1>12 DEF Accounted

(* What a claim that ends gives back is what it held.                      *)
LEMMA ReleaseAccounted ==
    ASSUME AuthorityInv, NEW e \in Eligibilities, NEW t \in Times, NEW st \in Ended,
           Become(e, st), Release(e, t)
    PROVE  Accounted'
<1> DEFINE a == Amount(e)
           f == [d \in Eligibilities |-> hold[d].fee]
           g == [d \in Eligibilities |-> hold'[d].fee]
<1>0. ClaimTypes /\ AccountTypes /\ Accounted /\ IsFiniteSet(Holding) /\ HeldIsAccounted
  BY DEF AuthorityInv, Accounted
<1>1. claim \in [Eligibilities -> Claims] /\ claim' = [claim EXCEPT ![e].st = st]
  BY <1>0 DEF Become, ClaimTypes
<1>2. claim[e].st \notin Ended
  BY DEF Become, CanTransition, Ended
<1>3. /\ claim'[e].st = st /\ claim'[e].expires = claim[e].expires
      /\ \A d \in Eligibilities \ {e} : claim'[d] = claim[d]
  BY <1>1 DEF Claims
<1>4. Holding' = Holding \ {e}
  BY <1>3 DEF Holding
<1>5. Holding \in SUBSET Eligibilities /\ claim[e].expires \in Nat
  BY <1>1 DEF Holding, Claims
<1>6. CASE claim[e].expires = 0
  <2>1. Holding' = Holding
    BY <1>4, <1>6 DEF Holding
  <2>2. UNCHANGED ledger
    BY <1>6 DEF Release
  <2>3. QED  BY <1>0, <2>1, <2>2, AccountedFrame
<1>7. CASE claim[e].expires # 0
  <2>1. /\ hold' = [hold EXCEPT ![e] = Nothing]
        /\ usage' = [k \in AllKeys |-> usage[k] - IF k \in hold[e].keys THEN a ELSE 0]
        /\ reserve' = [tokens |-> reserve.tokens - a, fees |-> reserve.fees - hold[e].fee]
        /\ epoch' = IF Core[e].epoch
                    THEN [authorized |-> epoch.authorized - a, cancelled |-> epoch.cancelled + a]
                    ELSE epoch
    BY <1>7 DEF Release, KeysToRelease
  <2>2. a \in Nat
    BY CoreTypes
  <2> HIDE DEF a
  <2>3. e \in Holding
    BY <1>2, <1>5, <1>7 DEF Holding
  <2>4. \A d \in Eligibilities \ {e} : hold'[d] = hold[d]
    BY <1>0, <2>1 DEF AccountTypes
  <2>5. IsFiniteSet(Holding')
    BY <1>0, <1>4, FS_RemoveElement
  <2>6. reserve'.tokens = Total(Holding')
    <3>1. reserve.tokens = Total(Holding)
      BY <1>0 DEF HeldIsAccounted
    <3>2. Total(Holding \ {e}) = Total(Holding) - a
      BY <1>0, <1>5, <2>3, TotalChanges DEF a
    <3>3. QED  BY <1>4, <2>1, <3>1, <3>2
  <2>7. reserve'.fees = SumOver(g, Holding')
    <3>1. reserve.fees = SumOf(f, Holding)
      BY <1>0, SumOverIsSum DEF HeldIsAccounted
    <3>2. f[e] = hold[e].fee
      OBVIOUS
    <3>3. \A d \in Holding : f[d] \in Int
      BY <1>0, <1>5, HeldTypes
    <3>4. \A d \in Holding \ {e} : f[d] = g[d]
      BY <1>5, <2>4
    <3> HIDE DEF f, g
    <3>5. SumOf(g, Holding \ {e}) = SumOf(f, Holding) - f[e]
      BY <1>0, <2>3, <3>3, <3>4, SumShrinks
    <3>6. QED  BY <1>4, <2>1, <3>1, <3>2, <3>5, SumOverIsSum
  <2>8. ASSUME NEW k \in AllKeys
        PROVE  usage'[k] = Total({d \in Holding' : k \in hold'[d].keys})
    <3> DEFINE H == {d \in Holding : k \in hold[d].keys}
    <3>1. usage[k] = Total(H) /\ usage[k] \in Int
      BY <1>0 DEF HeldIsAccounted, AccountTypes
    <3>2. H \in SUBSET Eligibilities /\ IsFiniteSet(H)
      BY <1>0, <1>5, FS_Subset
    <3>3. {d \in Holding' : k \in hold'[d].keys} = H \ {e}
      BY <1>4, <1>5, <2>4
    <3>4. CASE k \in hold[e].keys
      <4>1. e \in H
        BY <2>3, <3>4
      <4> HIDE DEF H
      <4>2. Total(H \ {e}) = Total(H) - a
        BY <3>2, <4>1, TotalChanges DEF a
      <4>3. usage'[k] = usage[k] - a
        BY <2>1, <3>4
      <4>4. QED  BY <3>1, <3>3, <4>2, <4>3
    <3>5. CASE k \notin hold[e].keys
      <4>1. H \ {e} = H
        BY <3>5
      <4>2. usage'[k] = usage[k] - 0
        BY <2>1, <3>5
      <4>3. usage'[k] = usage[k]
        BY <3>1, <4>2
      <4> HIDE DEF H
      <4>4. QED  BY <3>1, <3>3, <4>1, <4>3
    <3>6. QED  BY <3>4, <3>5
  <2>9. epoch'.authorized = Total({d \in Holding' : Core[d].epoch})
    <3> DEFINE H == {d \in Holding : Core[d].epoch}
    <3>1. epoch.authorized = Total(H)
      BY <1>0 DEF HeldIsAccounted
    <3>2. H \in SUBSET Eligibilities /\ IsFiniteSet(H)
      BY <1>0, <1>5, FS_Subset
    <3>3. {d \in Holding' : Core[d].epoch} = H \ {e}
      BY <1>4
    <3>4. CASE Core[e].epoch
      <4>1. e \in H
        BY <2>3, <3>4
      <4> HIDE DEF H
      <4>2. Total(H \ {e}) = Total(H) - a
        BY <3>2, <4>1, TotalChanges DEF a
      <4>3. epoch'.authorized = epoch.authorized - a
        BY <2>1, <3>4
      <4>4. QED  BY <3>1, <3>3, <4>2, <4>3
    <3>5. CASE ~ Core[e].epoch
      <4>1. H \ {e} = H
        BY <3>5
      <4>2. epoch' = epoch
        BY <2>1, <3>5
      <4> HIDE DEF H
      <4>3. QED  BY <3>1, <3>3, <4>1, <4>2
    <3>6. QED  BY <3>4, <3>5
  <2>10. HeldIsAccounted'
    BY <2>6, <2>7, <2>8, <2>9 DEF HeldIsAccounted
  <2>11. QED  BY <2>5, <2>10 DEF Accounted
<1>8. QED  BY <1>6, <1>7

-----------------------------------------------------------------------------
(* The rest of the invariant looks at wallets and claims only.             *)
ClaimInv == ClaimTypes /\ NeverAuthorized /\ AuthorizedIsEntitled
AccountInv == AccountTypes /\ NeverOverCommitted /\ Accounted

(* A claim that changes its state to one that is neither open nor          *)
(* authorized leaves the other claims as they are.                         *)
LEMMA BecomeClaims ==
    ASSUME ClaimInv, NEW e \in Eligibilities, NEW st \in States \ {"none", "authorized_mock"},
           Become(e, st), st = "eligible_mock" => claim[e].expires = 0
    PROVE  ClaimInv'
<1>0. ClaimTypes /\ NeverAuthorized /\ AuthorizedIsEntitled
  BY DEF ClaimInv
<1>1. /\ claim \in [Eligibilities -> Claims] /\ claim' = [claim EXCEPT ![e].st = st]
      /\ answered' = NoOne /\ UNCHANGED <<wallet, suspended, approved>>
  BY <1>0 DEF Become, ClaimTypes
<1>2. /\ claim'[e].st = st /\ claim'[e].expires = claim[e].expires
      /\ \A d \in Eligibilities \ {e} : claim'[d] = claim[d]
  BY <1>1 DEF Claims
<1>3. claim' \in [Eligibilities -> Claims]
  <2>1. [claim[e] EXCEPT !.st = st] \in Claims
    BY <1>1 DEF Claims
  <2>2. claim' = [claim EXCEPT ![e] = [claim[e] EXCEPT !.st = st]]
    BY <1>1
  <2> HIDE DEF Claims
  <2>3. QED  BY <1>1, <2>1, <2>2
<1>4. ClaimTypes'
  BY <1>0, <1>1, <1>3 DEF ClaimTypes
<1>5. NeverAuthorized'
  BY <1>0, <1>2 DEF NeverAuthorized
<1>6. AuthorizedIsEntitled'
  BY <1>0, <1>1, <1>2 DEF AuthorizedIsEntitled, Entitled
<1>7. QED  BY <1>4, <1>5, <1>6 DEF ClaimInv

(* Claims put in quarantine because their player's standing changed: every *)
(* authorized claim the change concerns is among them.                     *)
LEMMA QuarantineClaims ==
    ASSUME ClaimInv, NEW es \in SUBSET Eligibilities, Quarantine(es),
           \A e \in es : claim[e].st \notin Ended,
           wallet' \in [Players -> Wallets \cup {NoOne}], suspended' \subseteq Players,
           approved' = approved, answered' = NoOne,
           \A e \in Eligibilities \ es : claim[e].st = "authorized_mock" => Entitled(e)'
    PROVE  ClaimInv' /\ Holding' = Holding
<1>0. ClaimTypes /\ NeverAuthorized /\ AuthorizedIsEntitled /\ claim \in [Eligibilities -> Claims]
  BY DEF ClaimInv, ClaimTypes
<1>1. \A e \in es : claim'[e] = [claim[e] EXCEPT !.st = "quarantined_mock"]
  BY DEF Quarantine
<1>2. \A e \in Eligibilities \ es : claim'[e] = claim[e]
  BY DEF Quarantine
<1>3. \A e \in es : claim'[e] \in Claims /\ claim'[e].st = "quarantined_mock"
                    /\ claim'[e].expires = claim[e].expires
  BY <1>0, <1>1 DEF Claims, States
<1>4. claim' \in [Eligibilities -> Claims]
  <2>1. claim' = [e \in Eligibilities |-> claim'[e]]
    BY DEF Quarantine
  <2>2. \A e \in Eligibilities : claim'[e] \in Claims
    BY <1>0, <1>2, <1>3
  <2>3. QED  BY <2>1, <2>2
<1>5. ClaimTypes'
  BY <1>0, <1>4 DEF ClaimTypes
<1>6. NeverAuthorized'
  BY <1>0, <1>2, <1>3 DEF NeverAuthorized
<1>7. AuthorizedIsEntitled'
  BY <1>2, <1>3 DEF AuthorizedIsEntitled
<1>8. Holding' = Holding
  BY <1>2, <1>3 DEF Holding, Ended
<1>9. QED  BY <1>5, <1>6, <1>7, <1>8 DEF ClaimInv

(* Nothing is held, and nothing reserved, at first.                        *)
LEMMA InitInv == Init => AuthorityInv
<1> SUFFICES ASSUME Init PROVE AuthorityInv
  OBVIOUS
<1>1. Holding = {}
  BY DEF Init, Holding
<1>2. ClaimTypes
  BY CoreTypes DEF Init, ClaimTypes, Claims, States, Players, Player
<1>3. AccountTypes
  BY DEF Init, AccountTypes, Nothing
<1>4. NeverAuthorized /\ AuthorizedIsEntitled
  BY DEF Init, NeverAuthorized, AuthorizedIsEntitled
<1>5. NeverOverCommitted
  <2>1. \A k \in AllKeys : 0 <= Cap[k[1]]
    BY KeysHaveLayers, ClaimAssumption
  <2>2. 0 <= TokenRoom /\ 0 <= FeeRoom /\ 0 <= EpochRoom
    BY ClaimAssumption
  <2>3. QED  BY <2>1, <2>2 DEF Init, NeverOverCommitted
<1>6. Accounted
  <2>1. \A f : SumOver(f, {}) = 0
    BY SumOverIsSum, SumEmpty
  <2>2. Total({}) = 0
    BY <2>1 DEF Total
  <2>3. \A k : {d \in Holding : k \in hold[d].keys} = {}
    BY <1>1
  <2>4. {d \in Holding : Core[d].epoch} = {}
    BY <1>1
  <2>5. HeldIsAccounted
    BY <1>1, <2>1, <2>2, <2>3, <2>4 DEF Init, HeldIsAccounted
  <2>6. QED  BY <1>1, <2>5, FS_EmptySet DEF Accounted
<1>7. QED  BY <1>2, <1>3, <1>4, <1>5, <1>6 DEF AuthorityInv

(* A step that leaves the ledger and the set of holding claims alone.      *)
LEMMA AccountInvFrame ==
    ASSUME AccountInv, UNCHANGED ledger, Holding' = Holding
    PROVE  AccountInv'
BY AccountsFrame, AccountedFrame DEF AccountInv

LEMMA StepInv == AuthorityInv /\ [Next]_vars => AuthorityInv'
<1> SUFFICES ASSUME AuthorityInv, [Next]_vars PROVE ClaimInv' /\ AccountInv'
  BY DEF AuthorityInv, ClaimInv, AccountInv
<1>0. /\ ClaimInv /\ AccountInv /\ claim \in [Eligibilities -> Claims]
      /\ ClaimTypes /\ NeverAuthorized /\ AuthorizedIsEntitled
  BY DEF AuthorityInv, ClaimInv, AccountInv, ClaimTypes
<1>1. ASSUME NEW e \in Eligibilities, CreateEligibility(e) PROVE ClaimInv' /\ AccountInv'
  <2>1. /\ wallet[Player(e)] \in {NoOne, Core[e].wallet} /\ approved' = approved \cup {e}
        /\ wallet' = [wallet EXCEPT ![Player(e)] = Core[e].wallet]
        /\ UNCHANGED <<suspended, claim, ledger>> /\ answered' = NoOne
    BY <1>1 DEF CreateEligibility
  <2>2. Core[e].wallet \in Wallets /\ Player(e) \in Players
    BY CoreTypes
  <2>3. ClaimTypes'
    BY <1>0, <2>1, <2>2 DEF ClaimTypes
  <2>4. AuthorizedIsEntitled'
    <3>1. ASSUME NEW d \in Eligibilities, claim[d].st = "authorized_mock" PROVE Entitled(d)'
      <4>1. Entitled(d) /\ Core[d].wallet # NoOne
        BY <1>0, <3>1, CoreTypes DEF AuthorizedIsEntitled
      <4>2. CASE Player(d) = Player(e)
        BY <2>1, <4>1, <4>2 DEF Entitled
      <4>3. CASE Player(d) # Player(e)
        BY <2>1, <4>1, <4>3 DEF Entitled
      <4>4. QED  BY <4>2, <4>3
    <3>2. QED  BY <2>1, <3>1 DEF AuthorizedIsEntitled
  <2>5. NeverAuthorized' /\ Holding' = Holding
    BY <1>0, <2>1 DEF NeverAuthorized, Holding
  <2>6. QED  BY <1>0, <2>1, <2>3, <2>4, <2>5, AccountInvFrame DEF ClaimInv
<1>2. ASSUME NEW e \in Eligibilities, NEW t \in Times, CreateClaimIntent(e, t)
      PROVE  ClaimInv' /\ AccountInv'
  <2>1. /\ claim[e].st = "none" /\ claim' = [claim EXCEPT ![e].st = "eligible_mock"]
        /\ UNCHANGED <<wallet, suspended, approved, ledger>> /\ answered' = NoOne
    BY <1>2 DEF CreateClaimIntent
  <2>2. /\ claim'[e].st = "eligible_mock" /\ claim'[e].expires = claim[e].expires
        /\ claim[e].expires = 0
        /\ \A d \in Eligibilities \ {e} : claim'[d] = claim[d]
    BY <1>0, <2>1 DEF Claims, NeverAuthorized
  <2>3. claim' \in [Eligibilities -> Claims]
    <3>1. [claim[e] EXCEPT !.st = "eligible_mock"] \in Claims
      BY <1>0 DEF Claims, States
    <3>2. claim' = [claim EXCEPT ![e] = [claim[e] EXCEPT !.st = "eligible_mock"]]
      BY <2>1
    <3> HIDE DEF Claims
    <3>3. QED  BY <1>0, <3>1, <3>2
  <2>4. ClaimTypes'
    BY <1>0, <2>1, <2>3 DEF ClaimTypes
  <2>5. NeverAuthorized'
    BY <1>0, <2>2 DEF NeverAuthorized
  <2>6. AuthorizedIsEntitled'
    BY <1>0, <2>1, <2>2 DEF AuthorizedIsEntitled, Entitled
  <2>7. Holding' = Holding
    BY <2>2 DEF Holding
  <2>8. QED  BY <1>0, <2>1, <2>4, <2>5, <2>6, <2>7, AccountInvFrame DEF ClaimInv
<1>3. ASSUME NEW e \in Eligibilities, NEW t \in Times, NEW fee \in Fees,
             AuthorizeMock(e, t, fee)
      PROVE  ClaimInv' /\ AccountInv'
  <2> DEFINE end == Min({Core[e].expires, t + Lifetime})
  <2>1. /\ claim[e].st = "eligible_mock" /\ Entitled(e)
        /\ claim' = [claim EXCEPT ![e] = [st |-> "authorized_mock", expires |-> end]]
        /\ UNCHANGED <<wallet, suspended, approved>> /\ answered' = e
    BY <1>3 DEF AuthorizeMock
  <2>2. end \in Nat
    <3>1. Core[e].expires \in Nat /\ t + Lifetime \in Nat
      BY CoreTypes, ClaimAssumption DEF Times
    <3>2. QED  BY <3>1, EarlierOfTwo
  <2> HIDE DEF end
  <2>3. /\ claim'[e] = [st |-> "authorized_mock", expires |-> end]
        /\ \A d \in Eligibilities \ {e} : claim'[d] = claim[d]
    BY <1>0, <2>1
  <2>4. claim' \in [Eligibilities -> Claims]
    <3>1. [st |-> "authorized_mock", expires |-> end] \in Claims
      BY <2>2 DEF Claims, States
    <3> HIDE DEF Claims
    <3>2. QED  BY <1>0, <2>1, <3>1
  <2>5. ClaimTypes'
    BY <1>0, <2>1, <2>4 DEF ClaimTypes
  <2>6. NeverAuthorized'
    BY <1>0, <2>3 DEF NeverAuthorized
  <2>7. AuthorizedIsEntitled'
    BY <1>0, <2>1, <2>3 DEF AuthorizedIsEntitled, Entitled
  <2>8. AccountInv'
    BY <1>3, AuthorizationFits, AuthorizationAccounted DEF AccountInv
  <2>9. QED  BY <2>5, <2>6, <2>7, <2>8 DEF ClaimInv
<1>4. ASSUME NEW e \in Eligibilities, NEW t \in Times, Replay(e, t)
      PROVE  ClaimInv' /\ AccountInv'
  <2>1. /\ claim[e].st = "authorized_mock" /\ answered' = e
        /\ UNCHANGED <<wallet, suspended, approved, claim, ledger>>
    BY <1>4 DEF Replay, Replayable
  <2>2. ClaimTypes' /\ NeverAuthorized' /\ Holding' = Holding
    BY <1>0, <2>1 DEF ClaimTypes, NeverAuthorized, Holding
  <2>3. AuthorizedIsEntitled'
    BY <1>0, <2>1 DEF AuthorizedIsEntitled, Entitled
  <2>4. QED  BY <1>0, <2>1, <2>2, <2>3, AccountInvFrame DEF ClaimInv
<1>5. ASSUME NEW e \in Eligibilities, NEW t \in Times, NEW st \in {"cancelled_mock", "expired_mock"},
             Become(e, st), Release(e, t)
      PROVE  ClaimInv' /\ AccountInv'
  <2>1. st \in Ended /\ st \in States \ {"none", "authorized_mock"} /\ st # "eligible_mock"
    BY DEF States, Ended
  <2>2. ClaimInv'
    BY <1>0, <1>5, <2>1, BecomeClaims
  <2>3. AccountInv'
    BY <1>5, <2>1, ReleaseGivesBack, ReleaseAccounted DEF AccountInv
  <2>4. QED  BY <2>2, <2>3
<1>6. ASSUME NEW e \in Eligibilities, NEW t \in Times, CancelClaim(e, t) \/ ExpireClaim(e, t)
      PROVE  ClaimInv' /\ AccountInv'
  BY <1>5, <1>6 DEF CancelClaim, ExpireClaim
<1>7. ASSUME NEW e \in Eligibilities, QuarantineClaim(e) PROVE ClaimInv' /\ AccountInv'
  <2>1. Become(e, "quarantined_mock") /\ UNCHANGED ledger
    BY <1>7 DEF QuarantineClaim
  <2>2. ClaimInv'
    <3>1. "quarantined_mock" \in States \ {"none", "authorized_mock"}
      BY DEF States
    <3>2. QED  BY <1>0, <2>1, <3>1, BecomeClaims
  <2>3. Holding' = Holding
    <3>1. claim[e].st \notin Ended /\ claim' = [claim EXCEPT ![e].st = "quarantined_mock"]
      BY <2>1 DEF Become, CanTransition, Ended
    <3>2. /\ claim'[e].st = "quarantined_mock" /\ claim'[e].expires = claim[e].expires
          /\ \A d \in Eligibilities \ {e} : claim'[d] = claim[d]
      BY <1>0, <3>1 DEF Claims
    <3>3. QED  BY <3>1, <3>2 DEF Holding, Ended
  <2>4. QED  BY <1>0, <2>1, <2>2, <2>3, AccountInvFrame
<1>8. ASSUME NEW e \in Eligibilities, NEW st \in {"eligible_mock", "ineligible"},
             ResolveDisputeReview(e, st)
      PROVE  ClaimInv' /\ AccountInv'
  <2>1. Become(e, st) /\ UNCHANGED ledger /\ claim[e].expires = 0
    BY <1>8 DEF ResolveDisputeReview, Resolvable
  <2>2. ClaimInv'
    <3>1. st \in States \ {"none", "authorized_mock"}
      BY DEF States, Ended
    <3>2. QED  BY <1>0, <2>1, <3>1, BecomeClaims
  <2>3. Holding' = Holding
    <3>1. /\ claim'[e].expires = 0
          /\ \A d \in Eligibilities \ {e} : claim'[d] = claim[d]
      BY <1>0, <2>1 DEF Become, Claims
    <3>2. QED  BY <2>1, <3>1 DEF Holding
  <2>4. QED  BY <1>0, <2>1, <2>2, <2>3, AccountInvFrame
<1>9. ASSUME NEW p \in Players, NEW w \in Wallets, UpdateVerifiedWallet(p, w)
      PROVE  ClaimInv' /\ AccountInv'
  <2> DEFINE es == Misdirected(p, w)
  <2>1. /\ wallet' = [wallet EXCEPT ![p] = w] /\ Quarantine(es) /\ answered' = NoOne
        /\ UNCHANGED <<suspended, approved, ledger>>
    BY <1>9 DEF UpdateVerifiedWallet
  <2>2. es \in SUBSET Eligibilities /\ \A e \in es : claim[e].st \notin Ended
    BY DEF Misdirected, Ended
  <2>3. wallet' \in [Players -> Wallets \cup {NoOne}] /\ suspended' \subseteq Players
    BY <1>0, <2>1 DEF ClaimTypes
  <2>4. ASSUME NEW e \in Eligibilities \ es, claim[e].st = "authorized_mock" PROVE Entitled(e)'
    <3>1. Entitled(e) /\ Player(e) \in Players
      BY <1>0, <2>4, CoreTypes DEF AuthorizedIsEntitled
    <3>2. CASE Player(e) = p
      <4>1. Core[e].wallet = w
        BY <2>4, <3>2 DEF Misdirected
      <4>2. wallet'[Player(e)] = w
        BY <1>0, <2>1, <3>2 DEF ClaimTypes
      <4>3. QED  BY <2>1, <3>1, <4>1, <4>2 DEF Entitled
    <3>3. CASE Player(e) # p
      <4>1. wallet'[Player(e)] = wallet[Player(e)]
        BY <1>0, <2>1, <3>1, <3>3 DEF ClaimTypes
      <4>2. QED  BY <2>1, <3>1, <4>1 DEF Entitled
    <3>4. QED  BY <3>2, <3>3
  <2> HIDE DEF es
  <2>5. ClaimInv' /\ Holding' = Holding
    BY <1>0, <2>1, <2>2, <2>3, <2>4, QuarantineClaims
  <2>6. QED  BY <1>0, <2>1, <2>5, AccountInvFrame
<1>10. ASSUME NEW p \in Players, NEW on \in BOOLEAN, SetPlayerSuspended(p, on)
       PROVE  ClaimInv' /\ AccountInv'
  <2> DEFINE es == IF on THEN {e \in Eligibilities : Player(e) = p
                                 /\ claim[e].st \in {"eligible_mock", "authorized_mock"}}
                         ELSE {}
  <2>1. /\ suspended' = (IF on THEN suspended \cup {p} ELSE suspended \ {p})
        /\ Quarantine(es) /\ answered' = NoOne /\ UNCHANGED <<wallet, approved, ledger>>
    BY <1>10 DEF SetPlayerSuspended
  <2>2. es \in SUBSET Eligibilities /\ \A e \in es : claim[e].st \notin Ended
    BY DEF Ended
  <2>3. wallet' \in [Players -> Wallets \cup {NoOne}] /\ suspended' \subseteq Players
    BY <1>0, <2>1 DEF ClaimTypes
  <2>4. ASSUME NEW e \in Eligibilities \ es, claim[e].st = "authorized_mock" PROVE Entitled(e)'
    <3>1. Entitled(e)
      BY <1>0, <2>4 DEF AuthorizedIsEntitled
    <3>2. on => Player(e) # p
      BY <2>4
    <3>3. Player(e) \notin suspended'
      BY <2>1, <3>1, <3>2 DEF Entitled
    <3>4. QED  BY <2>1, <3>1, <3>3 DEF Entitled
  <2> HIDE DEF es
  <2>5. ClaimInv' /\ Holding' = Holding
    BY <1>0, <2>1, <2>2, <2>3, <2>4, QuarantineClaims
  <2>6. QED  BY <1>0, <2>1, <2>5, AccountInvFrame
<1>11. CASE UNCHANGED vars
  <2>1. UNCHANGED <<wallet, suspended, approved, claim, ledger, answered>>
    BY <1>11 DEF vars, ledger
  <2>2. ClaimTypes' /\ NeverAuthorized' /\ Holding' = Holding
    BY <1>0, <2>1 DEF ClaimTypes, NeverAuthorized, Holding
  <2>3. AuthorizedIsEntitled'
    BY <1>0, <2>1 DEF AuthorizedIsEntitled, Entitled
  <2>4. QED  BY <1>0, <2>1, <2>2, <2>3, AccountInvFrame DEF ClaimInv
<1>12. QED
  BY <1>1, <1>2, <1>3, <1>4, <1>6, <1>7, <1>8, <1>9, <1>10, <1>11 DEF Next

(* The invariant of claims and accounts together.                          *)
THEOREM AuthorityInvariant == Spec => []AuthorityInv
BY InitInv, StepInv, PTL DEF Spec

(* Every total is a sum of what unfinished authorizations hold, whichever  *)
(* day and in whichever order they were authorized and ended: the sums of  *)
(* InMemoryClaimAuthority never drift and are never negative.              *)
THEOREM ReservationsAddUp == Spec => [](HeldIsAccounted /\ TypeOK)
<1>1. AuthorityInv => HeldIsAccounted /\ TypeOK
  <2> SUFFICES ASSUME AuthorityInv PROVE HeldIsAccounted /\ TypeOK
    OBVIOUS
  <2>0. ClaimTypes /\ AccountTypes /\ IsFiniteSet(Holding) /\ HeldIsAccounted
    BY DEF AuthorityInv, Accounted
  <2>1. \A S \in SUBSET Eligibilities : IsFiniteSet(S) => Total(S) \in Nat
    <3> SUFFICES ASSUME NEW S \in SUBSET Eligibilities, IsFiniteSet(S) PROVE Total(S) \in Nat
      OBVIOUS
    <3>1. CASE S = {}
      <4>1. Total(S) = 0
        BY <3>1, SumOverIsSum, SumEmpty DEF Total
      <4>2. QED  BY <4>1
    <3>2. CASE S # {}
      <4>1. PICK e \in Eligibilities : TRUE
        BY <3>2
      <4>2. QED  BY TotalChanges
    <3>3. QED  BY <3>1, <3>2
  <2>2. \A S \in SUBSET Holding : S \in SUBSET Eligibilities /\ IsFiniteSet(S)
    BY <2>0, FS_Subset DEF Holding
  <2>3. \A S \in SUBSET Holding : Total(S) \in Nat
    BY <2>1, <2>2
  <2>4. reserve.tokens \in Nat
    BY <2>0, <2>3 DEF HeldIsAccounted
  <2>5. epoch.authorized \in Nat
    <3>1. {e \in Holding : Core[e].epoch} \in SUBSET Holding
      OBVIOUS
    <3>2. QED  BY <2>0, <2>3, <3>1 DEF HeldIsAccounted
  <2>6. \A k \in AllKeys : usage[k] \in Nat
    <3>1. \A k : {e \in Holding : k \in hold[e].keys} \in SUBSET Holding
      OBVIOUS
    <3>2. QED  BY <2>0, <2>3, <3>1 DEF HeldIsAccounted
  <2>7. reserve.fees \in Nat
    <3> DEFINE f == [e \in Eligibilities |-> hold[e].fee]
    <3>1. reserve.fees = SumOf(f, Holding)
      BY <2>0, SumOverIsSum DEF HeldIsAccounted
    <3>2. \A e \in Holding : f[e] \in Nat
      BY <2>0, HeldTypes DEF Holding
    <3> HIDE DEF f
    <3>3. QED  BY <2>0, <3>1, <3>2, SumNat
  <2>8. TypeOK
    <3>1. reserve \in [tokens : Nat, fees : Nat]
      BY <2>0, <2>4, <2>7 DEF AccountTypes
    <3>2. epoch \in [authorized : Nat, cancelled : Nat]
      BY <2>0, <2>5 DEF AccountTypes
    <3>3. usage \in [AllKeys -> Nat]
      BY <2>0, <2>6 DEF AccountTypes
    <3>4. \A e \in Eligibilities : hold[e].keys \subseteq AllKeys /\ hold[e].fee \in Fees \cup {0}
      <4>1. \A e \in Eligibilities : hold[e] \in [keys : SUBSET AllKeys, fee : Fees \cup {0}]
        BY <2>0 DEF AccountTypes
      <4>2. QED  BY <4>1
    <3>5. QED  BY <2>0, <3>1, <3>2, <3>3, <3>4 DEF TypeOK, ClaimTypes, Claims, States
  <2>9. QED  BY <2>0, <2>8
<1>2. QED  BY <1>1, AuthorityInvariant, PTL

(* No sequence of requests authorizes more than the treasury, the fee      *)
(* reserve, a cap of any layer or the epoch leaves.                        *)
THEOREM LimitsRespected == Spec => []NeverOverCommitted
<1>1. AuthorityInv => NeverOverCommitted
  BY DEF AuthorityInv
<1>2. QED  BY <1>1, AuthorityInvariant, PTL

(* An authorized claim pays the player's verified wallet, and its player   *)
(* is not suspended; so does every authorization that is handed out.       *)
THEOREM AuthorizedAreEntitled == Spec => []AuthorizedIsEntitled
<1>1. AuthorityInv => AuthorizedIsEntitled
  BY DEF AuthorityInv
<1>2. QED  BY <1>1, AuthorityInvariant, PTL

(* A claim is authorized once and from quarantine it can only end.         *)
THEOREM OneAuthorizationEach == Spec => AuthorizedOnce
<1> DEFINE Once(e) ==
        /\ claim[e].expires > 0 =>
              /\ claim'[e].expires = claim[e].expires
              /\ claim[e].st # "authorized_mock" => claim'[e].st # "authorized_mock"
              /\ claim'[e].st # "eligible_mock"
        /\ claim[e].st \in Ended => claim'[e] = claim[e]
<1>1. AuthorityInv /\ [Next]_vars => [\A e \in Eligibilities : Once(e)]_vars
  <2> SUFFICES ASSUME AuthorityInv, Next, NEW e \in Eligibilities PROVE Once(e)
    OBVIOUS
  <2>0. NeverAuthorized /\ claim \in [Eligibilities -> Claims] /\ claim[e].expires \in Nat
    BY DEF AuthorityInv, ClaimTypes, Claims
  <2>1. ASSUME claim'[e] = claim[e] PROVE Once(e)
    BY <2>0, <2>1 DEF NeverAuthorized
  <2>2. ASSUME NEW d \in Eligibilities, NEW st, Become(d, st),
               st # "authorized_mock", st = "eligible_mock" => claim[d].expires = 0
        PROVE  Once(e)
    <3>1. claim' = [claim EXCEPT ![d].st = st] /\ claim[d].st \notin Ended
      BY <2>2 DEF Become, CanTransition, Ended
    <3>2. CASE d = e
      <4>1. claim'[e].st = st /\ claim'[e].expires = claim[e].expires
        BY <2>0, <3>1, <3>2 DEF Claims
      <4>2. QED  BY <2>0, <2>2, <3>1, <3>2, <4>1
    <3>3. CASE d # e
      BY <2>0, <2>1, <3>1, <3>3
    <3>4. QED  BY <3>2, <3>3
  <2>3. ASSUME NEW d \in Eligibilities, claim[d].st \in {"none", "eligible_mock"},
               \A x \in Eligibilities \ {d} : claim'[x] = claim[x]
        PROVE  Once(e)
    <3>1. CASE d = e
      BY <2>0, <2>3, <3>1 DEF NeverAuthorized, Ended
    <3>2. CASE d # e
      BY <2>0, <2>1, <2>3, <3>2
    <3>3. QED  BY <3>1, <3>2
  <2>4. ASSUME NEW es \in SUBSET Eligibilities, Quarantine(es),
               \A d \in es : claim[d].st \notin Ended
        PROVE  Once(e)
    <3>1. CASE e \in es
      <4>1. claim'[e].st = "quarantined_mock" /\ claim'[e].expires = claim[e].expires
        BY <2>0, <2>4, <3>1 DEF Quarantine, Claims
      <4>2. QED  BY <2>4, <3>1, <4>1
    <3>2. CASE e \notin es
      BY <2>1, <2>4, <3>2 DEF Quarantine
    <3>3. QED  BY <3>1, <3>2
  <2>5. ASSUME NEW d \in Eligibilities, NEW t \in Times,
               \/ CreateClaimIntent(d, t) \/ Replay(d, t)
               \/ \E fee \in Fees : AuthorizeMock(d, t, fee)
        PROVE  Once(e)
    <3>1. CASE Replay(d, t)
      BY <2>1, <3>1 DEF Replay
    <3>2. CASE CreateClaimIntent(d, t)
      <4>1. \A x \in Eligibilities \ {d} : claim'[x] = claim[x]
        BY <2>0, <3>2 DEF CreateClaimIntent
      <4>2. claim[d].st = "none"
        BY <3>2 DEF CreateClaimIntent
      <4>3. QED  BY <2>3, <4>1, <4>2
    <3>3. CASE \E fee \in Fees : AuthorizeMock(d, t, fee)
      <4>1. \A x \in Eligibilities \ {d} : claim'[x] = claim[x]
        BY <2>0, <3>3 DEF AuthorizeMock
      <4>2. claim[d].st = "eligible_mock"
        BY <3>3 DEF AuthorizeMock
      <4>3. QED  BY <2>3, <4>1, <4>2
    <3>4. QED  BY <2>5, <3>1, <3>2, <3>3
  <2>6. ASSUME NEW d \in Eligibilities, NEW t \in Times, CancelClaim(d, t) \/ ExpireClaim(d, t)
        PROVE  Once(e)
    BY <2>2, <2>6 DEF CancelClaim, ExpireClaim
  <2>7. ASSUME NEW d \in Eligibilities,
               \/ CreateEligibility(d) \/ QuarantineClaim(d)
               \/ \E st \in {"eligible_mock", "ineligible"} : ResolveDisputeReview(d, st)
        PROVE  Once(e)
    <3>1. CASE CreateEligibility(d)
      BY <2>1, <3>1 DEF CreateEligibility
    <3>2. CASE QuarantineClaim(d)
      BY <2>2, <3>2 DEF QuarantineClaim
    <3>3. CASE \E st \in {"eligible_mock", "ineligible"} : ResolveDisputeReview(d, st)
      BY <2>2, <3>3 DEF ResolveDisputeReview, Resolvable
    <3>4. QED  BY <2>7, <3>1, <3>2, <3>3
  <2>8. ASSUME NEW p \in Players, NEW w \in Wallets, UpdateVerifiedWallet(p, w) PROVE Once(e)
    <3>1. /\ Misdirected(p, w) \in SUBSET Eligibilities /\ Quarantine(Misdirected(p, w))
          /\ \A d \in Misdirected(p, w) : claim[d].st \notin Ended
      BY <2>8 DEF UpdateVerifiedWallet, Misdirected, Ended
    <3>2. QED  BY <2>4, <3>1
  <2>9. ASSUME NEW p \in Players, NEW on \in BOOLEAN, SetPlayerSuspended(p, on) PROVE Once(e)
    <3> DEFINE es == IF on THEN {d \in Eligibilities : Player(d) = p
                                   /\ claim[d].st \in {"eligible_mock", "authorized_mock"}}
                           ELSE {}
    <3>1. es \in SUBSET Eligibilities /\ \A d \in es : claim[d].st \notin Ended
      BY DEF Ended
    <3>2. Quarantine(es)
      BY <2>9 DEF SetPlayerSuspended
    <3> HIDE DEF es
    <3>3. QED  BY <2>4, <3>1, <3>2
  <2>10. QED  BY <2>5, <2>6, <2>7, <2>8, <2>9 DEF Next
<1>2. QED  BY <1>1, AuthorityInvariant, PTL DEF Spec, AuthorizedOnce
=============================================================================
