----------------------------- MODULE PartyProofs -----------------------------
(***************************************************************************)
(* Theorems about Party, for any number of players, parties and calls in   *)
(* progress, every capacity and every budget.                              *)
(***************************************************************************)
EXTENDS Party, TLAPS, FiniteSetTheorems

(* A check in progress asks the members of the party, and nobody else.     *)
AsksMembers(r) ==
    CheckActive(r) => \A p \in Players : r.asks[p] # "none" <=> p \in r.members

(* What the row of a party satisfies whatever the others are.              *)
RowFits(r) ==
    /\ ~r.active => r.members = {} /\ ~r.grace /\ ~r.dormant
    /\ r.active => r.leads = {r.leader} /\ r.leader \in r.members
    /\ r.online \subseteq r.members
    /\ r.dormant => r.online = {}
    /\ r.grace => r.leader \notin r.online
    /\ IsFiniteSet(r.members) /\ Cardinality(r.members) <= Capacity
    /\ AsksMembers(r)

Locking == {"locked", "joining"}
Joins == {"create", "accept"}

(* Which calls are in which place.                                         *)
ShapeFits(k) ==
    /\ k.at = "idle" <=> k.op = "none"
    /\ k.op = "create" => k.at = "read" /\ k.q = NoParty
    /\ k.at = "row" <=> k.op = "cancel"
    /\ k.at = "joining" => k.op = "accept"
    /\ k.op \notin {"none", "create"} => k.q \in Parties
    /\ k.op # "none" => k.who \in Players
    /\ k.op = "act" /\ k.at = "locked" => k.fresh \/ k.guess
    /\ k.fresh => ~k.guess

RowsFit == \A q \in Parties : RowFits(party[q])
RostersApart ==
    \A q, o \in Parties : \A p \in Players :
        p \in party[q].members /\ p \in party[o].members => q = o
CallsFit == \A c \in Calls : ShapeFits(call[c])

(* One call at a time holds a party, and one creates or joins one for a    *)
(* player, who is not suspended meanwhile.                                 *)
HoldersApart ==
    \A c, d \in Calls :
        call[c].at \in Locking /\ call[d].at \in Locking /\ call[c].q = call[d].q => c = d
JoinersApart ==
    \A c, d \in Calls :
        call[c].op \in Joins /\ call[d].op \in Joins /\ call[c].who = call[d].who => c = d
JoinersWelcome == \A c \in Calls : call[c].op \in Joins => call[c].who \notin suspended

(* What a call knows of the party it carries the revision of, or holds.    *)
LeadsKnown ==
    \A c \in Calls : call[c].op = "act" /\ call[c].fresh =>
        (call[c].leads <=> call[c].who \in party[call[c].q].leads)
HeldIsActive == \A c \in Calls : call[c].at \in Locking => party[call[c].q].active
RoomIsKept ==
    \A c \in Calls : call[c].at = "joining" =>
        /\ \A q \in Parties : call[c].who \notin party[q].members
        /\ Cardinality(party[call[c].q].members) < Capacity

PartyInv ==
    /\ TypeOK /\ RowsFit /\ RostersApart /\ CallsFit
    /\ HoldersApart /\ JoinersApart /\ JoinersWelcome
    /\ LeadsKnown /\ HeldIsActive /\ RoomIsKept

(* No step adds a suspended player to a party.                             *)
NoneJoins ==
    \A q \in Parties : (party'[q].members \ party[q].members) \cap suspended = {}

-----------------------------------------------------------------------------
(* The rows that the operations make.                                      *)

LEMMA IdleIsACall == Idle \in CallRows /\ ShapeFits(Idle)
  BY DEF Idle, CallRows, Ops, ShapeFits

LEMMA NoRowFits == NoRow \in PartyRows /\ RowFits(NoRow)
  BY PartyAssumption, FS_EmptySet DEF NoRow, PartyRows, RowFits, AsksMembers, CheckActive, Answers

LEMMA PartyInit == Init => PartyInv
<1> SUFFICES ASSUME Init PROVE PartyInv
  OBVIOUS
<1>1. \A q \in Parties : party[q] = NoRow
  BY DEF Init
<1>2. \A c \in Calls : call[c] = Idle
  BY DEF Init
<1>3. TypeOK
  BY IdleIsACall, NoRowFits, PartyAssumption DEF Init, TypeOK, Invitations
<1>4. RowsFit /\ CallsFit
  BY <1>1, <1>2, IdleIsACall, NoRowFits DEF RowsFit, CallsFit
<1>5. RostersApart
  BY <1>1 DEF RostersApart, NoRow
<1>6. /\ HoldersApart /\ JoinersApart /\ JoinersWelcome
      /\ LeadsKnown /\ HeldIsActive /\ RoomIsKept
  BY <1>2 DEF HoldersApart, JoinersApart, JoinersWelcome, LeadsKnown, HeldIsActive, RoomIsKept,
     Idle, Locking, Joins
<1> QED
  BY <1>3, <1>4, <1>5, <1>6 DEF PartyInv

(* Two rows that differ only in what the invariant does not look at.       *)
LEMMA SameFits ==
    ASSUME NEW r \in PartyRows, RowFits(r), NEW s \in PartyRows,
           s.active = r.active, s.leader = r.leader, s.members = r.members,
           s.leads = r.leads, s.online = r.online, s.grace = r.grace, s.dormant = r.dormant,
           \/ s.asks = r.asks
           \/ \A p \in Players : s.asks[p] = "none"
           \/ \A p \in Players : s.asks[p] # "none" <=> p \in s.members
    PROVE  RowFits(s)
<1>1. AsksMembers(s)
  BY DEF RowFits, AsksMembers, CheckActive
<1> QED
  BY <1>1 DEF RowFits

Synced(r, b) == [r EXCEPT !.synced = b]

LEMMA SyncedFits ==
    ASSUME NEW r \in PartyRows, RowFits(r), NEW b \in BOOLEAN
    PROVE  /\ Synced(r, b) \in PartyRows /\ RowFits(Synced(r, b))
           /\ Synced(r, b).members = r.members /\ Synced(r, b).leader = r.leader
           /\ CheckActive(Synced(r, b)) <=> CheckActive(r)
<1>1. /\ Synced(r, b) \in PartyRows
      /\ Synced(r, b).active = r.active /\ Synced(r, b).leader = r.leader
      /\ Synced(r, b).members = r.members /\ Synced(r, b).leads = r.leads
      /\ Synced(r, b).online = r.online /\ Synced(r, b).grace = r.grace
      /\ Synced(r, b).dormant = r.dormant /\ Synced(r, b).asks = r.asks
  BY DEF Synced, PartyRows
<1>2. RowFits(Synced(r, b))
  BY <1>1, SameFits
<1> QED
  BY <1>1, <1>2 DEF CheckActive

LEMMA UnaskedFits ==
    ASSUME NEW r \in PartyRows, RowFits(r)
    PROVE  /\ Unasked(r) \in PartyRows /\ RowFits(Unasked(r)) /\ ~CheckActive(Unasked(r))
           /\ Unasked(r).active = r.active /\ Unasked(r).leader = r.leader
           /\ Unasked(r).members = r.members /\ Unasked(r).leads = r.leads
           /\ Unasked(r).online = r.online
<1>1. /\ Unasked(r) \in PartyRows
      /\ Unasked(r).active = r.active /\ Unasked(r).leader = r.leader
      /\ Unasked(r).members = r.members /\ Unasked(r).leads = r.leads
      /\ Unasked(r).online = r.online /\ Unasked(r).grace = r.grace
      /\ Unasked(r).dormant = r.dormant
      /\ \A p \in Players : Unasked(r).asks[p] = "none"
  BY DEF Unasked, PartyRows, Answers
<1>2. RowFits(Unasked(r))
  BY <1>1, SameFits
<1> QED
  BY <1>1, <1>2 DEF CheckActive

LEMMA AskedFits ==
    ASSUME NEW r \in PartyRows, RowFits(r)
    PROVE  /\ [r EXCEPT !.asks = Asked(r)] \in PartyRows
           /\ RowFits([r EXCEPT !.asks = Asked(r)])
           /\ [r EXCEPT !.asks = Asked(r)].members = r.members
<1> DEFINE s == [r EXCEPT !.asks = Asked(r)]
<1>0. Asked(r) \in [Players -> Answers]
  BY DEF Asked, Answers
<1>1. /\ s \in PartyRows
      /\ s.active = r.active /\ s.leader = r.leader
      /\ s.members = r.members /\ s.leads = r.leads
      /\ s.online = r.online /\ s.grace = r.grace
      /\ s.dormant = r.dormant /\ s.asks = Asked(r)
  BY <1>0 DEF PartyRows
<1>2. \A p \in Players : s.asks[p] # "none" <=> p \in s.members
  BY <1>1 DEF Asked
<1> QED
  BY <1>1, <1>2, SameFits

LEMMA AnsweredFits ==
    ASSUME NEW r \in PartyRows, RowFits(r), NEW p \in Players, r.asks[p] # "none"
    PROVE  /\ Answered(r, p) \in PartyRows /\ RowFits(Answered(r, p))
           /\ Answered(r, p).members = r.members /\ Answered(r, p).leader = r.leader
           /\ CheckActive(r)
<1> DEFINE asks == [r.asks EXCEPT ![p] = "answered"]
           s == [r EXCEPT !.asks = asks]
<1>0. CheckActive(r)
  BY DEF CheckActive
<1>1. r.asks \in [Players -> Answers]
  BY DEF PartyRows
<1>2. asks \in [Players -> Answers] /\ \A m \in Players : asks[m] # "none" <=> r.asks[m] # "none"
  BY <1>1 DEF Answers
<1>3. /\ s \in PartyRows
      /\ s.active = r.active /\ s.leader = r.leader
      /\ s.members = r.members /\ s.leads = r.leads
      /\ s.online = r.online /\ s.grace = r.grace
      /\ s.dormant = r.dormant /\ s.asks = asks
  BY <1>2 DEF PartyRows
<1>4. \A m \in Players : s.asks[m] # "none" <=> m \in s.members
  BY <1>0, <1>2, <1>3 DEF RowFits, AsksMembers
<1>5. RowFits(s)
  BY <1>3, <1>4, SameFits
<1>6. Answered(r, p) = s \/ Answered(r, p) = Unasked(r)
  BY DEF Answered
<1> QED
  BY <1>0, <1>3, <1>5, <1>6, UnaskedFits

(* A party loses a member who does not lead it.                            *)
LEMMA WithoutRow ==
    ASSUME NEW r \in PartyRows, RowFits(r), NEW p \in Players
    PROVE  /\ Without(r, p) \in PartyRows /\ ~CheckActive(Without(r, p))
           /\ Without(r, p).active = r.active /\ Without(r, p).leader = r.leader
           /\ Without(r, p).grace = r.grace /\ Without(r, p).dormant = r.dormant
           /\ Without(r, p).members = r.members \ {p}
           /\ Without(r, p).online = r.online \ {p}
           /\ Without(r, p).leads = r.leads \ {p}
           /\ IsFiniteSet(Without(r, p).members)
           /\ Cardinality(Without(r, p).members) <= Capacity
           /\ Without(r, p).online \subseteq Without(r, p).members
<1> DEFINE s == Without(r, p)
<1>1. /\ s \in PartyRows
      /\ s.active = r.active /\ s.leader = r.leader
      /\ s.grace = r.grace /\ s.dormant = r.dormant
      /\ s.members = r.members \ {p}
      /\ s.online = r.online \ {p}
      /\ s.leads = r.leads \ {p}
      /\ \A m \in Players : s.asks[m] = "none"
  BY DEF Without, Unasked, PartyRows, Answers
<1>2. IsFiniteSet(r.members) /\ Cardinality(r.members) <= Capacity /\ r.online \subseteq r.members
  BY DEF RowFits
<1>3. IsFiniteSet(s.members) /\ Cardinality(s.members) <= Cardinality(r.members)
  BY <1>1, <1>2, FS_Subset
<1>4. Cardinality(s.members) <= Capacity
  BY <1>2, <1>3, FS_CardinalityType, PartyAssumption
<1> QED
  BY <1>1, <1>2, <1>3, <1>4 DEF CheckActive

LEMMA WithoutFits ==
    ASSUME NEW r \in PartyRows, RowFits(r), NEW p \in Players, r.active, p \notin r.leads
    PROVE  RowFits(Without(r, p))
<1>1. p # r.leader /\ r.leads \ {p} = r.leads
  BY DEF RowFits
<1>2. AsksMembers(Without(r, p))
  BY WithoutRow DEF AsksMembers
<1> QED
  BY <1>1, <1>2, WithoutRow DEF RowFits

(* A party is led by another member from now on.                           *)
LEMMA PassedOnFits ==
    ASSUME NEW r \in PartyRows, r.active, NEW from \in Players, NEW n \in r.members,
           r.leads \subseteq {from, n}, r.online \subseteq r.members, IsFiniteSet(r.members),
           Cardinality(r.members) <= Capacity, AsksMembers(r)
    PROVE  /\ PassedOn(r, from, n) \in PartyRows /\ RowFits(PassedOn(r, from, n))
           /\ PassedOn(r, from, n).members = r.members
<1> DEFINE s == PassedOn(r, from, n)
<1>1. n \in Players
  BY DEF PartyRows
<1>2. /\ s \in PartyRows
      /\ s.active = TRUE /\ s.leader = n /\ s.leads = {n}
      /\ s.grace = FALSE /\ s.dormant = FALSE
      /\ s.members = r.members /\ s.online = r.online /\ s.asks = r.asks
  BY <1>1 DEF PassedOn, PartyRows
<1>3. AsksMembers(s)
  BY <1>2 DEF AsksMembers, CheckActive
<1> QED
  BY <1>2, <1>3 DEF RowFits

LEMMA JoinedFits ==
    ASSUME NEW r \in PartyRows, RowFits(r), NEW p \in Players, r.active,
           p \notin r.members, Cardinality(r.members) < Capacity
    PROVE  /\ Joined(r, p) \in PartyRows /\ RowFits(Joined(r, p))
           /\ Joined(r, p).members = r.members \cup {p}
<1> DEFINE s == Joined(r, p)
<1>1. /\ s \in PartyRows
      /\ s.active = r.active /\ s.leader = r.leader /\ s.leads = r.leads
      /\ s.grace = r.grace /\ s.dormant = FALSE
      /\ s.members = r.members \cup {p} /\ s.online = r.online \cup {p}
      /\ \A m \in Players : s.asks[m] = "none"
  BY DEF Joined, Unasked, PartyRows, Answers
<1>2. IsFiniteSet(r.members)
  BY DEF RowFits
<1>3. IsFiniteSet(s.members) /\ Cardinality(s.members) <= Cardinality(r.members) + 1
  BY <1>1, <1>2, FS_AddElement, FS_CardinalityType
<1>4. Cardinality(s.members) <= Capacity
  BY <1>2, <1>3, FS_CardinalityType, PartyAssumption
<1>5. AsksMembers(s)
  BY <1>1 DEF AsksMembers, CheckActive
<1>6. s.grace => s.leader \notin s.online
  BY <1>1 DEF RowFits
<1> QED
  BY <1>1, <1>3, <1>4, <1>5, <1>6 DEF RowFits

LEMMA DroppedFits ==
    ASSUME NEW r \in PartyRows, RowFits(r), NEW p \in Players, r.active
    PROVE  /\ Dropped(r, p) \in PartyRows /\ RowFits(Dropped(r, p))
           /\ Dropped(r, p).members = r.members
<1> DEFINE s == Dropped(r, p)
<1>1. r.asks \in [Players -> Answers]
  BY DEF PartyRows
<1> DEFINE asks == [r.asks EXCEPT ![p] = IF @ = "none" THEN @ ELSE "waiting"]
<1>2. asks \in [Players -> Answers] /\ \A m \in Players : asks[m] # "none" <=> r.asks[m] # "none"
  BY <1>1 DEF Answers
<1>3. s = [r EXCEPT !.online = @ \ {p}, !.grace = @ \/ r.leader = p, !.asks = asks]
  BY <1>1 DEF Dropped, PartyRows
<1> HIDE DEF asks
<1>4. /\ s \in PartyRows
      /\ s.active = r.active /\ s.leader = r.leader /\ s.leads = r.leads
      /\ s.grace = (r.grace \/ r.leader = p) /\ s.dormant = r.dormant
      /\ s.members = r.members /\ s.online = r.online \ {p}
      /\ s.asks = asks
  BY <1>2, <1>3 DEF PartyRows
<1>5. AsksMembers(s)
  BY <1>2, <1>4 DEF RowFits, AsksMembers, CheckActive
<1>6. s.grace => s.leader \notin s.online
  BY <1>4 DEF RowFits
<1> QED
  BY <1>4, <1>5, <1>6 DEF RowFits

LEMMA BackFits ==
    ASSUME NEW r \in PartyRows, RowFits(r), NEW p \in r.members
    PROVE  /\ Back(r, p) \in PartyRows /\ RowFits(Back(r, p))
           /\ Back(r, p).members = r.members
<1> DEFINE s == Back(r, p)
<1>1. p \in Players
  BY DEF PartyRows
<1>2. /\ s \in PartyRows
      /\ s.active = r.active /\ s.leader = r.leader /\ s.leads = r.leads
      /\ s.grace = (r.grace /\ r.leader # p) /\ s.dormant = FALSE
      /\ s.members = r.members /\ s.online = r.online \cup {p} /\ s.asks = r.asks
  BY <1>1 DEF Back, PartyRows
<1>3. AsksMembers(s)
  BY <1>2 DEF RowFits, AsksMembers, CheckActive
<1>4. s.grace => s.leader \notin s.online
  BY <1>2 DEF RowFits
<1> QED
  BY <1>2, <1>3, <1>4 DEF RowFits

(* A grace period that nobody can take over leaves a deserted party.       *)
LEMMA DesertedFits ==
    ASSUME NEW r \in PartyRows, RowFits(r), r.grace, r.online \ {r.leader} = {}
    PROVE  /\ [r EXCEPT !.grace = FALSE, !.dormant = TRUE] \in PartyRows
           /\ RowFits([r EXCEPT !.grace = FALSE, !.dormant = TRUE])
           /\ [r EXCEPT !.grace = FALSE, !.dormant = TRUE].members = r.members
<1> DEFINE s == [r EXCEPT !.grace = FALSE, !.dormant = TRUE]
<1>1. /\ s \in PartyRows
      /\ s.active = r.active /\ s.leader = r.leader /\ s.leads = r.leads
      /\ s.grace = FALSE /\ s.dormant = TRUE
      /\ s.members = r.members /\ s.online = r.online /\ s.asks = r.asks
  BY DEF PartyRows
<1>2. AsksMembers(s)
  BY <1>1 DEF RowFits, AsksMembers, CheckActive
<1>3. r.active /\ r.online = {}
  BY DEF RowFits
<1> QED
  BY <1>1, <1>2, <1>3 DEF RowFits

Founded(p) ==
    [NoRow EXCEPT !.active = TRUE, !.leader = p, !.members = {p}, !.leads = {p}, !.online = {p}]

LEMMA FoundedFits ==
    ASSUME NEW p \in Players
    PROVE  Founded(p) \in PartyRows /\ RowFits(Founded(p)) /\ Founded(p).members = {p}
<1> DEFINE s == Founded(p)
<1>1. /\ s \in PartyRows
      /\ s.active = TRUE /\ s.leader = p /\ s.leads = {p}
      /\ s.grace = FALSE /\ s.dormant = FALSE
      /\ s.members = {p} /\ s.online = {p} /\ \A m \in Players : s.asks[m] = "none"
  BY DEF Founded, NoRow, PartyRows, Answers
<1>2. IsFiniteSet({p}) /\ Cardinality({p}) = 1
  BY FS_Singleton
<1> QED
  BY <1>1, <1>2, PartyAssumption DEF RowFits, AsksMembers, CheckActive

-----------------------------------------------------------------------------
(* What the steps do to the calls and to the parties.                      *)

LEMMA WithdrawnType ==
    ASSUME TypeOK, NEW rows
    PROVE  Withdrawn(rows) \in Invitations
  BY DEF TypeOK, Withdrawn, Invitations

LEMMA StaleRow ==
    ASSUME NEW k \in CallRows
    PROVE  /\ [k EXCEPT !.fresh = FALSE] \in CallRows
           /\ [k EXCEPT !.fresh = FALSE].at = k.at /\ [k EXCEPT !.fresh = FALSE].op = k.op
           /\ [k EXCEPT !.fresh = FALSE].who = k.who /\ [k EXCEPT !.fresh = FALSE].q = k.q
           /\ [k EXCEPT !.fresh = FALSE].leads = k.leads
           /\ [k EXCEPT !.fresh = FALSE].rows = k.rows
           /\ [k EXCEPT !.fresh = FALSE].guess = k.guess
           /\ [k EXCEPT !.fresh = FALSE].fresh = FALSE
  BY DEF CallRows

(* The calls after a new revision of q: call c is over, and the others are *)
(* as they were but for their revision.                                    *)
LEMMA OutdatedCalls ==
    ASSUME TypeOK, NEW q, NEW c
    PROVE  /\ Outdated(q, c) \in [Calls -> CallRows]
           /\ \A d \in Calls : d = c => Outdated(q, c)[d] = Idle
           /\ \A d \in Calls \ {c} :
                 /\ Outdated(q, c)[d].at = call[d].at /\ Outdated(q, c)[d].op = call[d].op
                 /\ Outdated(q, c)[d].who = call[d].who /\ Outdated(q, c)[d].q = call[d].q
                 /\ Outdated(q, c)[d].leads = call[d].leads
                 /\ Outdated(q, c)[d].rows = call[d].rows /\ Outdated(q, c)[d].guess = call[d].guess
                 /\ call[d].q = q => ~Outdated(q, c)[d].fresh
                 /\ call[d].q # q => Outdated(q, c)[d].fresh = call[d].fresh
<1>1. call \in [Calls -> CallRows]
  BY DEF TypeOK
<1>2. \A d \in Calls \ {c} :
          /\ Outdated(q, c)[d] \in CallRows
          /\ Outdated(q, c)[d].at = call[d].at /\ Outdated(q, c)[d].op = call[d].op
          /\ Outdated(q, c)[d].who = call[d].who /\ Outdated(q, c)[d].q = call[d].q
          /\ Outdated(q, c)[d].leads = call[d].leads
          /\ Outdated(q, c)[d].rows = call[d].rows /\ Outdated(q, c)[d].guess = call[d].guess
          /\ call[d].q = q => ~Outdated(q, c)[d].fresh
          /\ call[d].q # q => Outdated(q, c)[d].fresh = call[d].fresh
  <2> SUFFICES ASSUME NEW d \in Calls \ {c}
               PROVE  /\ Outdated(q, c)[d] \in CallRows
                      /\ Outdated(q, c)[d].at = call[d].at /\ Outdated(q, c)[d].op = call[d].op
                      /\ Outdated(q, c)[d].who = call[d].who /\ Outdated(q, c)[d].q = call[d].q
                      /\ Outdated(q, c)[d].leads = call[d].leads
                      /\ Outdated(q, c)[d].rows = call[d].rows /\ Outdated(q, c)[d].guess = call[d].guess
                      /\ call[d].q = q => ~Outdated(q, c)[d].fresh
                      /\ call[d].q # q => Outdated(q, c)[d].fresh = call[d].fresh
    OBVIOUS
  <2>1. Outdated(q, c)[d] = IF call[d].q = q THEN [call[d] EXCEPT !.fresh = FALSE] ELSE call[d]
    BY DEF Outdated
  <2>2. CASE call[d].q = q
    <3>1. call[d] \in CallRows
      BY <1>1
    <3> QED
      BY <2>1, <2>2, <3>1, StaleRow
  <2>3. CASE call[d].q # q
    BY <1>1, <2>1, <2>3
  <2> QED
    BY <2>2, <2>3
<1>3. \A d \in Calls : d = c => Outdated(q, c)[d] = Idle
  BY DEF Outdated
<1>4. Outdated(q, c) \in [Calls -> CallRows]
  <2>1. \A d \in Calls : Outdated(q, c)[d] \in CallRows
    BY <1>2, <1>3, IdleIsACall
  <2>2. Outdated(q, c) = [d \in Calls |-> Outdated(q, c)[d]]
    BY DEF Outdated
  <2> QED
    BY <2>1, <2>2
<1> QED
  BY <1>2, <1>3, <1>4

Steady == inv' \in Invitations /\ suspended' = suspended /\ budget' \in 0..Budget

(* A party gets a new row, at a new revision, from call c, which is the    *)
(* only one that may hold it.  Those who are new in it, G, were in no      *)
(* party, are not suspended, and no other call joins one for them.         *)
LEMMA RowChanges ==
    ASSUME PartyInv, NEW q \in Parties, NEW r \in PartyRows, RowFits(r), NEW c,
           Holders(q) \subseteq {c},
           NEW G, \A p \in G : PartiesOf(p) = {} /\ Joiners(p) \subseteq {c} /\ p \notin suspended,
           r.members \subseteq party[q].members \cup G,
           party' = [party EXCEPT ![q] = r], call' = Outdated(q, c), Steady
    PROVE  PartyInv' /\ NoneJoins
<1>0. /\ TypeOK /\ RowsFit /\ RostersApart /\ CallsFit
      /\ HoldersApart /\ JoinersApart /\ JoinersWelcome
      /\ LeadsKnown /\ HeldIsActive /\ RoomIsKept
  BY DEF PartyInv
<1>1. party \in [Parties -> PartyRows] /\ call \in [Calls -> CallRows]
  BY <1>0 DEF TypeOK
<1>2. party'[q] = r /\ \A o \in Parties \ {q} : party'[o] = party[o]
  BY <1>1
<1>3. /\ call' \in [Calls -> CallRows]
      /\ \A d \in Calls : d = c => call'[d] = Idle
      /\ \A d \in Calls \ {c} :
            /\ call'[d].at = call[d].at /\ call'[d].op = call[d].op
            /\ call'[d].who = call[d].who /\ call'[d].q = call[d].q
            /\ call'[d].leads = call[d].leads /\ call'[d].guess = call[d].guess
            /\ call[d].q = q => ~call'[d].fresh
            /\ call[d].q # q => call'[d].fresh = call[d].fresh
  BY <1>0, OutdatedCalls
<1>4. Idle.at = "idle" /\ Idle.op = "none"
  BY DEF Idle
<1>5. \A d \in Calls \ {c} : call[d].at \in Locking => call[d].q # q
  BY DEF Holders, Locking
<1>6. TypeOK'
  BY <1>0, <1>1, <1>3 DEF TypeOK, Steady
<1>7. RowsFit'
  <2> SUFFICES ASSUME NEW o \in Parties PROVE RowFits(party'[o])
    BY DEF RowsFit
  <2>1. CASE o = q
    BY <1>2, <2>1
  <2>2. CASE o # q
    BY <1>0, <1>2, <2>2 DEF RowsFit
  <2> QED
    BY <2>1, <2>2
<1>8. RostersApart'
  <2> SUFFICES ASSUME NEW o \in Parties, NEW u \in Parties, NEW p \in Players,
                      p \in party'[o].members, p \in party'[u].members
               PROVE  o = u
    BY DEF RostersApart
  <2>1. CASE p \in G
    <3>1. \A t \in Parties : p \notin party[t].members
      BY <2>1 DEF PartiesOf
    <3> QED
      BY <1>2, <3>1
  <2>2. CASE p \notin G
    <3>1. \A t \in Parties : p \in party'[t].members => p \in party[t].members
      BY <1>2, <2>2
    <3> QED
      BY <1>0, <3>1 DEF RostersApart
  <2> QED
    BY <2>1, <2>2
<1>9. CallsFit'
  <2> SUFFICES ASSUME NEW d \in Calls PROVE ShapeFits(call'[d])
    BY DEF CallsFit
  <2>1. CASE d = c
    BY <1>3, <2>1, IdleIsACall
  <2>2. CASE d # c
    <3>1. ShapeFits(call[d])
      BY <1>0 DEF CallsFit
    <3>2. /\ call'[d].op = "act" /\ call'[d].at = "locked" => call'[d].fresh \/ call'[d].guess
          /\ call'[d].fresh => ~call'[d].guess
      BY <1>3, <1>5, <2>2, <3>1 DEF ShapeFits, Locking
    <3> QED
      BY <1>3, <2>2, <3>1, <3>2 DEF ShapeFits
  <2> QED
    BY <2>1, <2>2
<1>10. HoldersApart'
  <2> SUFFICES ASSUME NEW d \in Calls, NEW e \in Calls,
                      call'[d].at \in Locking, call'[e].at \in Locking, call'[d].q = call'[e].q
               PROVE  d = e
    BY DEF HoldersApart
  <2>1. d # c /\ e # c
    BY <1>3, <1>4 DEF Locking
  <2> QED
    BY <1>0, <1>3, <2>1 DEF HoldersApart
<1>11. JoinersApart'
  <2> SUFFICES ASSUME NEW d \in Calls, NEW e \in Calls,
                      call'[d].op \in Joins, call'[e].op \in Joins, call'[d].who = call'[e].who
               PROVE  d = e
    BY DEF JoinersApart
  <2>1. d # c /\ e # c
    BY <1>3, <1>4 DEF Joins
  <2> QED
    BY <1>0, <1>3, <2>1 DEF JoinersApart
<1>12. JoinersWelcome'
  <2> SUFFICES ASSUME NEW d \in Calls, call'[d].op \in Joins PROVE call'[d].who \notin suspended
    BY DEF JoinersWelcome, Steady
  <2>1. d # c
    BY <1>3, <1>4 DEF Joins
  <2> QED
    BY <1>0, <1>3, <2>1 DEF JoinersWelcome
<1>13. LeadsKnown'
  <2> SUFFICES ASSUME NEW d \in Calls, call'[d].op = "act", call'[d].fresh
               PROVE  call'[d].leads <=> call'[d].who \in party'[call'[d].q].leads
    BY DEF LeadsKnown
  <2>1. d # c
    BY <1>3, <1>4
  <2>2. call[d].q # q /\ call[d].fresh /\ call[d].op = "act"
    BY <1>3, <2>1
  <2>3. call[d].q \in Parties
    BY <1>0, <2>2 DEF CallsFit, ShapeFits
  <2>4. party'[call[d].q] = party[call[d].q]
    BY <1>2, <2>2, <2>3
  <2> QED
    BY <1>0, <1>3, <2>1, <2>2, <2>4 DEF LeadsKnown
<1>14. \A d \in Calls : call'[d].at \in Locking =>
           /\ d # c /\ call[d].at \in Locking /\ call[d].q \in Parties \ {q}
           /\ party'[call'[d].q] = party[call[d].q]
  <2> SUFFICES ASSUME NEW d \in Calls, call'[d].at \in Locking
               PROVE  /\ d # c /\ call[d].at \in Locking /\ call[d].q \in Parties \ {q}
                      /\ party'[call'[d].q] = party[call[d].q]
    OBVIOUS
  <2>1. d # c /\ call[d].at \in Locking
    BY <1>3, <1>4 DEF Locking
  <2>2. call[d].q \in Parties
    BY <1>0, <2>1 DEF CallsFit, ShapeFits, Locking
  <2> QED
    BY <1>2, <1>3, <1>5, <2>1, <2>2
<1>15. HeldIsActive'
  BY <1>0, <1>14 DEF HeldIsActive
<1>16. RoomIsKept'
  <2> SUFFICES ASSUME NEW d \in Calls, call'[d].at = "joining"
               PROVE  /\ \A o \in Parties : call'[d].who \notin party'[o].members
                      /\ Cardinality(party'[call'[d].q].members) < Capacity
    BY DEF RoomIsKept
  <2>1. /\ d # c /\ call[d].at = "joining" /\ call[d].q \in Parties \ {q}
        /\ party'[call'[d].q] = party[call[d].q] /\ call'[d].who = call[d].who
    BY <1>3, <1>14 DEF Locking
  <2>2. /\ \A o \in Parties : call[d].who \notin party[o].members
        /\ Cardinality(party[call[d].q].members) < Capacity
    BY <1>0, <2>1 DEF RoomIsKept
  <2>3. call[d].op = "accept"
    BY <1>0, <2>1 DEF CallsFit, ShapeFits
  <2>4. call[d].who \notin G
    BY <2>1, <2>3 DEF Joiners
  <2>5. \A o \in Parties : call[d].who \notin party'[o].members
    BY <1>2, <2>2, <2>4
  <2> QED
    BY <2>1, <2>2, <2>5
<1>17. NoneJoins
  <2> SUFFICES ASSUME NEW o \in Parties, NEW p \in suspended,
                      p \in party'[o].members, p \notin party[o].members
               PROVE  FALSE
    BY DEF NoneJoins
  <2> QED
    BY <1>2
<1> QED
  BY <1>6, <1>7, <1>8, <1>9, <1>10, <1>11, <1>12, <1>13, <1>15, <1>16, <1>17 DEF PartyInv

(* Call c becomes k, and the parties stay as they are.                     *)
LEMMA CallChanges ==
    ASSUME PartyInv, NEW c \in Calls, NEW k \in CallRows, ShapeFits(k),
           k.op \in Joins => k.who \notin suspended /\ Joiners(k.who) \subseteq {c},
           k.op = "act" /\ k.fresh => (k.leads <=> k.who \in party[k.q].leads),
           k.at \in Locking => Holders(k.q) \subseteq {c} /\ party[k.q].active,
           k.at = "joining" =>
               /\ \A q \in Parties : k.who \notin party[q].members
               /\ Cardinality(party[k.q].members) < Capacity,
           call' = [call EXCEPT ![c] = k], party' = party, Steady
    PROVE  PartyInv' /\ NoneJoins
<1>0. /\ TypeOK /\ RowsFit /\ RostersApart /\ CallsFit
      /\ HoldersApart /\ JoinersApart /\ JoinersWelcome
      /\ LeadsKnown /\ HeldIsActive /\ RoomIsKept
  BY DEF PartyInv
<1>1. call \in [Calls -> CallRows]
  BY <1>0 DEF TypeOK
<1>2. call'[c] = k /\ \A d \in Calls \ {c} : call'[d] = call[d]
  BY <1>1
<1>3. TypeOK'
  BY <1>0, <1>1 DEF TypeOK, Steady
<1>4. RowsFit' /\ RostersApart'
  BY <1>0 DEF RowsFit, RostersApart
<1>5. CallsFit'
  <2> SUFFICES ASSUME NEW d \in Calls PROVE ShapeFits(call'[d])
    BY DEF CallsFit
  <2>1. CASE d = c
    BY <1>2, <2>1
  <2>2. CASE d # c
    BY <1>0, <1>2, <2>2 DEF CallsFit
  <2> QED
    BY <2>1, <2>2
<1>6. HoldersApart'
  <2> SUFFICES ASSUME NEW d \in Calls, NEW e \in Calls,
                      call'[d].at \in Locking, call'[e].at \in Locking, call'[d].q = call'[e].q
               PROVE  d = e
    BY DEF HoldersApart
  <2>1. CASE d # c /\ e # c
    BY <1>0, <1>2, <2>1 DEF HoldersApart
  <2>2. CASE d = c /\ e # c
    BY <1>2, <2>2 DEF Holders, Locking
  <2>3. CASE d # c /\ e = c
    BY <1>2, <2>3 DEF Holders, Locking
  <2> QED
    BY <2>1, <2>2, <2>3
<1>7. JoinersApart'
  <2> SUFFICES ASSUME NEW d \in Calls, NEW e \in Calls,
                      call'[d].op \in Joins, call'[e].op \in Joins, call'[d].who = call'[e].who
               PROVE  d = e
    BY DEF JoinersApart
  <2>1. CASE d # c /\ e # c
    BY <1>0, <1>2, <2>1 DEF JoinersApart
  <2>2. CASE d = c /\ e # c
    BY <1>2, <2>2 DEF Joiners, Joins
  <2>3. CASE d # c /\ e = c
    BY <1>2, <2>3 DEF Joiners, Joins
  <2> QED
    BY <2>1, <2>2, <2>3
<1>8. JoinersWelcome'
  BY <1>0, <1>2 DEF JoinersWelcome, Steady
<1>9. LeadsKnown'
  <2> SUFFICES ASSUME NEW d \in Calls, call'[d].op = "act", call'[d].fresh
               PROVE  call'[d].leads <=> call'[d].who \in party'[call'[d].q].leads
    BY DEF LeadsKnown
  <2>1. CASE d = c
    BY <1>2, <2>1
  <2>2. CASE d # c
    BY <1>0, <1>2, <2>2 DEF LeadsKnown
  <2> QED
    BY <2>1, <2>2
<1>10. HeldIsActive'
  BY <1>0, <1>2 DEF HeldIsActive
<1>11. RoomIsKept'
  <2> SUFFICES ASSUME NEW d \in Calls, call'[d].at = "joining"
               PROVE  /\ \A q \in Parties : call'[d].who \notin party'[q].members
                      /\ Cardinality(party'[call'[d].q].members) < Capacity
    BY DEF RoomIsKept
  <2>1. CASE d = c
    BY <1>2, <2>1
  <2>2. CASE d # c
    BY <1>0, <1>2, <2>2 DEF RoomIsKept
  <2> QED
    BY <2>1, <2>2
<1>12. NoneJoins
  BY DEF NoneJoins
<1> QED
  BY <1>3, <1>4, <1>5, <1>6, <1>7, <1>8, <1>9, <1>10, <1>11, <1>12 DEF PartyInv

(* A call is over and the parties stay as they are.                        *)
LEMMA EndKeeps ==
    ASSUME PartyInv, NEW c \in Calls, End(c), party' = party, Steady
    PROVE  PartyInv' /\ NoneJoins
  BY CallChanges, IdleIsACall DEF End, Idle, Joins, Locking

(* Only invitations change.                                                *)
LEMMA InvitationsChange ==
    ASSUME PartyInv, party' = party, call' = call, Steady
    PROVE  PartyInv' /\ NoneJoins
  BY DEF PartyInv, TypeOK, RowsFit, RostersApart, CallsFit, HoldersApart, JoinersApart,
     JoinersWelcome, LeadsKnown, HeldIsActive, RoomIsKept, Steady, NoneJoins

LEMMA SteadyNow ==
    ASSUME TypeOK, UNCHANGED <<suspended, budget>>, inv' \in Invitations
    PROVE  Steady
  BY DEF Steady, TypeOK

LEMMA SteadySpent ==
    ASSUME TypeOK, UNCHANGED suspended, Spend, inv' \in Invitations
    PROVE  Steady
  BY PartyAssumption DEF Steady, TypeOK, Spend

(* A call begins.                                                          *)
LEMMA Starts ==
    ASSUME PartyInv, NEW c \in Calls, NEW op \in Ops \ {"none"}, NEW p \in Players,
           NEW q \in Parties \cup {NoParty}, NEW at \in {"read", "row"}, NEW leads \in BOOLEAN,
           NEW rows \in SUBSET (Parties \X Players),
           Start(c, op, p, q, at, leads, rows), UNCHANGED <<party, inv, suspended>>,
           op = "create" => at = "read" /\ q = NoParty, op # "create" => q \in Parties,
           at = "row" <=> op = "cancel",
           op \in Joins => p \notin suspended /\ Joiners(p) = {},
           op = "act" => (leads <=> p \in party[q].leads)
    PROVE  PartyInv' /\ NoneJoins
<1>0. PICK guess \in BOOLEAN :
          call' = [call EXCEPT ![c] = [at |-> at, op |-> op, who |-> p, q |-> q, leads |-> leads,
                                       rows |-> rows, fresh |-> ~guess, guess |-> guess]]
  BY DEF Start
<1> DEFINE k == [at |-> at, op |-> op, who |-> p, q |-> q, leads |-> leads,
                 rows |-> rows, fresh |-> ~guess, guess |-> guess]
<1>1. k \in CallRows
  BY DEF CallRows
<1>2. ShapeFits(k)
  BY DEF ShapeFits, Ops
<1>3. call' = [call EXCEPT ![c] = k]
  BY <1>0
<1>4. /\ k.op \in Joins => k.who \notin suspended /\ Joiners(k.who) \subseteq {c}
      /\ k.op = "act" /\ k.fresh => (k.leads <=> k.who \in party[k.q].leads)
      /\ k.at \notin Locking /\ k.at # "joining"
  BY DEF Locking
<1>5. Steady
  BY SteadySpent DEF PartyInv, TypeOK, Start
<1> HIDE DEF k
<1> QED
  BY <1>1, <1>2, <1>3, <1>4, <1>5, CallChanges

LEMMA StartingFacts ==
    /\ {} \in SUBSET (Parties \X Players) /\ NoParty \in Parties \cup {NoParty}
    /\ \A q \in Parties : q \in Parties \cup {NoParty}
    /\ \A op \in {"create", "act", "drop", "remove", "block", "accept", "cancel"} :
          op \in Ops \ {"none"}
    /\ \A op \in {"act", "drop", "remove", "block", "cancel"} : op \notin Joins
    /\ FALSE \in BOOLEAN /\ TRUE \in BOOLEAN
  BY DEF Ops, Joins

LEMMA BeginKeeps ==
    ASSUME PartyInv, NEW c \in Calls, Begin(c)
    PROVE  PartyInv' /\ NoneJoins
<1>0. TypeOK /\ inv \in Invitations
  BY DEF PartyInv, TypeOK
<1>1. PICK p \in Players :
          \/ BeginCreate(c, p) \/ BeginRemove(c, p)
          \/ \E q \in Parties : BeginAct(c, p, q) \/ BeginRespond(c, p, q) \/ BeginDrop(c, p, q)
          \/ \E q \in Parties, t \in Players : BeginCancel(c, p, q, t)
          \/ \E t \in Players : BeginBlock(c, p, t)
  BY DEF Begin
<1>2. CASE BeginCreate(c, p)
  <2>1. Start(c, "create", p, NoParty, "read", FALSE, {}) /\ UNCHANGED <<party, inv, suspended>>
    BY <1>2 DEF BeginCreate
  <2>2. p \notin suspended /\ Joiners(p) = {}
    BY <1>2 DEF BeginCreate
  <2> QED
    BY <2>1, <2>2, StartingFacts, Starts
<1>3. CASE BeginRemove(c, p)
  <2>1. CASE PartiesOf(p) = {}
    <3>1. UNCHANGED <<party, suspended, call>> /\ Spend /\ inv' = Withdrawn(PendingTo(p))
      BY <1>3, <2>1 DEF BeginRemove
    <3> QED
      BY <1>0, <3>1, WithdrawnType, SteadySpent, InvitationsChange
  <2>2. CASE PartiesOf(p) # {}
    <3>1. PICK q \in PartiesOf(p) :
              Start(c, "remove", p, q, "read", FALSE, PendingTo(p)) /\ UNCHANGED inv
      BY <1>3, <2>2 DEF BeginRemove
    <3>2. q \in Parties /\ PendingTo(p) \in SUBSET (Parties \X Players)
      BY DEF PartiesOf, PendingTo
    <3>3. UNCHANGED <<party, inv, suspended>>
      BY <1>3, <3>1 DEF BeginRemove
    <3> QED
      BY <3>1, <3>2, <3>3, StartingFacts, Starts
  <2> QED
    BY <2>1, <2>2
<1>4. ASSUME NEW q \in Parties, BeginAct(c, p, q) PROVE PartyInv' /\ NoneJoins
  <2>1. PICK leads \in BOOLEAN :
            /\ leads <=> p \in party[q].leads
            /\ Start(c, "act", p, q, "read", leads, {})
    <3>1. Start(c, "act", p, q, "read", p \in party[q].leads, {})
      BY <1>4 DEF BeginAct
    <3>2. CASE p \in party[q].leads
      <4>1. (p \in party[q].leads) = TRUE
        BY <3>2
      <4> QED
        BY <3>1, <3>2, <4>1
    <3>3. CASE p \notin party[q].leads
      <4>1. (p \in party[q].leads) = FALSE
        BY <3>3
      <4> QED
        BY <3>1, <3>3, <4>1
    <3> QED
      BY <3>2, <3>3
  <2>2. UNCHANGED <<party, inv, suspended>>
    BY <1>4 DEF BeginAct
  <2> QED
    BY <2>1, <2>2, StartingFacts, Starts
<1>5. ASSUME NEW q \in Parties, BeginRespond(c, p, q) PROVE PartyInv' /\ NoneJoins
  <2>1. Start(c, "accept", p, q, "read", FALSE, {}) /\ UNCHANGED <<party, inv, suspended>>
    BY <1>5 DEF BeginRespond
  <2>2. p \notin suspended /\ Joiners(p) = {}
    BY <1>5 DEF BeginRespond
  <2> QED
    BY <2>1, <2>2, StartingFacts, Starts
<1>6. ASSUME NEW q \in Parties, BeginDrop(c, p, q) PROVE PartyInv' /\ NoneJoins
  <2>1. Start(c, "drop", p, q, "read", FALSE, {}) /\ UNCHANGED <<party, inv, suspended>>
    BY <1>6 DEF BeginDrop
  <2> QED
    BY <2>1, StartingFacts, Starts
<1>7. ASSUME NEW q \in Parties, NEW t \in Players, BeginCancel(c, p, q, t)
      PROVE  PartyInv' /\ NoneJoins
  <2>1. Start(c, "cancel", p, q, "row", FALSE, {<<q, t>>}) /\ UNCHANGED <<party, inv, suspended>>
    BY <1>7 DEF BeginCancel
  <2>2. {<<q, t>>} \in SUBSET (Parties \X Players)
    OBVIOUS
  <2> QED
    BY <2>1, <2>2, StartingFacts, Starts
<1>8. ASSUME NEW t \in Players, BeginBlock(c, p, t) PROVE PartyInv' /\ NoneJoins
  <2>1. CASE PartiesOf(p) \cap PartiesOf(t) = {}
    <3>1. UNCHANGED <<party, suspended, call>> /\ Spend /\ inv' = Withdrawn(Between(p, t))
      BY <1>8, <2>1 DEF BeginBlock
    <3> QED
      BY <1>0, <3>1, WithdrawnType, SteadySpent, InvitationsChange
  <2>2. CASE PartiesOf(p) \cap PartiesOf(t) # {}
    <3>1. PICK q \in PartiesOf(p) \cap PartiesOf(t) :
              Start(c, "block", p, q, "read", FALSE, Between(p, t)) /\ UNCHANGED inv
      BY <1>8, <2>2 DEF BeginBlock
    <3>2. q \in Parties /\ Between(p, t) \in SUBSET (Parties \X Players)
      BY DEF PartiesOf, Between
    <3>3. UNCHANGED <<party, inv, suspended>>
      BY <1>8, <3>1 DEF BeginBlock
    <3> QED
      BY <3>1, <3>2, <3>3, StartingFacts, Starts
  <2> QED
    BY <2>1, <2>2
<1> QED
  BY <1>1, <1>2, <1>3, <1>4, <1>5, <1>6, <1>7, <1>8

-----------------------------------------------------------------------------
(* The operations on a party that is held, or that nobody holds.           *)

LEMMA BumpKeeps ==
    ASSUME PartyInv, NEW q \in Parties, NEW r \in PartyRows, RowFits(r), NEW c,
           Holders(q) \subseteq {c},
           NEW G, \A p \in G : PartiesOf(p) = {} /\ Joiners(p) \subseteq {c} /\ p \notin suspended,
           r.members \subseteq party[q].members \cup G,
           Bump(q, r, c) \/ BumpUnsynced(q, r, c), Steady
    PROVE  PartyInv' /\ NoneJoins
<1>1. PICK b \in BOOLEAN : party' = [party EXCEPT ![q] = Synced(r, b)] /\ call' = Outdated(q, c)
  BY DEF Bump, BumpUnsynced, Synced
<1>2. /\ Synced(r, b) \in PartyRows /\ RowFits(Synced(r, b))
      /\ Synced(r, b).members \subseteq party[q].members \cup G
  BY SyncedFits
<1> QED
  BY <1>1, <1>2, RowChanges

LEMMA BumpShrinks ==
    ASSUME PartyInv, NEW q \in Parties, NEW r \in PartyRows, RowFits(r), NEW c,
           Holders(q) \subseteq {c}, r.members \subseteq party[q].members,
           Bump(q, r, c) \/ BumpUnsynced(q, r, c), Steady
    PROVE  PartyInv' /\ NoneJoins
<1>1. \A p \in {} : PartiesOf(p) = {} /\ Joiners(p) \subseteq {c} /\ p \notin suspended
  OBVIOUS
<1>2. r.members \subseteq party[q].members \cup {}
  OBVIOUS
<1> QED
  BY <1>1, <1>2, BumpKeeps

LEMMA RowShrinks ==
    ASSUME PartyInv, NEW q \in Parties, NEW r \in PartyRows, RowFits(r), NEW c,
           Holders(q) \subseteq {c}, r.members \subseteq party[q].members,
           party' = [party EXCEPT ![q] = r], call' = Outdated(q, c), Steady
    PROVE  PartyInv' /\ NoneJoins
<1>1. PICK G : G = {}
  OBVIOUS
<1>2. \A p \in G : PartiesOf(p) = {} /\ Joiners(p) \subseteq {c} /\ p \notin suspended
  BY <1>1
<1>3. r.members \subseteq party[q].members \cup G
  BY <1>1
<1> QED
  BY <1>2, <1>3, RowChanges

LEMMA CloseKeeps ==
    ASSUME PartyInv, NEW q \in Parties, NEW c, Holders(q) \subseteq {c}, NEW rows,
           CloseParty(q, c, rows), UNCHANGED <<suspended, budget>>
    PROVE  PartyInv' /\ NoneJoins
<1>1. TypeOK
  BY DEF PartyInv
<1>2. Steady
  BY <1>1, WithdrawnType, SteadyNow DEF CloseParty
<1>3. NoRow.members \subseteq party[q].members
  BY DEF NoRow
<1>4. party' = [party EXCEPT ![q] = NoRow] /\ call' = Outdated(q, c)
  BY DEF CloseParty
<1> QED
  BY <1>2, <1>3, <1>4, NoRowFits, RowShrinks

LEMMA RemoveKeeps ==
    ASSUME PartyInv, NEW q \in Parties, party[q].active, NEW p \in Players, NEW c,
           Holders(q) \subseteq {c}, NEW rows,
           RemoveMember(q, p, c, rows), UNCHANGED <<suspended, budget>>
    PROVE  PartyInv' /\ NoneJoins
<1> DEFINE left == Without(party[q], p)
<1>0. TypeOK /\ party[q] \in PartyRows /\ RowFits(party[q])
  BY DEF PartyInv, TypeOK, RowsFit
<1>1. /\ left \in PartyRows /\ left.active /\ ~CheckActive(left)
      /\ left.members = party[q].members \ {p}
      /\ left.online \subseteq left.members /\ left.leads = party[q].leads \ {p}
      /\ IsFiniteSet(left.members) /\ Cardinality(left.members) <= Capacity
  BY <1>0, WithoutRow
<1>2. inv' \in Invitations => Steady
  BY <1>0, SteadyNow
<1>3. CASE p \notin party[q].leads
  <2>1. Bump(q, left, c) /\ inv' = Withdrawn(rows)
    BY <1>3 DEF RemoveMember
  <2>2. RowFits(left)
    BY <1>0, <1>3, WithoutFits
  <2> QED
    BY <1>0, <1>1, <1>2, <2>1, <2>2, WithdrawnType, BumpShrinks
<1>4. CASE p \in party[q].leads /\ left.members = {}
  <2>1. CloseParty(q, c, rows)
    BY <1>4 DEF RemoveMember
  <2> QED
    BY <2>1, CloseKeeps
<1>5. CASE p \in party[q].leads /\ left.members # {}
  <2>1. PICK n \in Heirs(left) : Bump(q, PassedOn(left, p, n), c) /\ inv' = Withdrawn(rows)
    BY <1>5 DEF RemoveMember
  <2>2. n \in left.members
    BY <1>1 DEF Heirs
  <2>3. left.leads \subseteq {p} /\ AsksMembers(left)
    BY <1>0, <1>1, <1>5 DEF RowFits, AsksMembers
  <2> HIDE DEF left
  <2>4. /\ PassedOn(left, p, n) \in PartyRows /\ RowFits(PassedOn(left, p, n))
        /\ PassedOn(left, p, n).members = left.members
    BY <1>1, <2>2, <2>3, PassedOnFits
  <2>5. PassedOn(left, p, n).members \subseteq party[q].members
    BY <1>1, <2>4
  <2> QED
    BY <1>0, <1>2, <2>1, <2>4, <2>5, WithdrawnType, BumpShrinks
<1> QED
  BY <1>3, <1>4, <1>5

(* A call that holds its party holds it alone.                             *)
LEMMA HeldParty ==
    ASSUME PartyInv, NEW c \in Calls, call[c].at \in Locking
    PROVE  /\ call[c].q \in Parties /\ call[c].who \in Players
           /\ Holders(call[c].q) \subseteq {c}
           /\ party[call[c].q] \in PartyRows /\ RowFits(party[call[c].q])
           /\ party[call[c].q].active
<1>0. TypeOK /\ RowsFit /\ CallsFit /\ HoldersApart /\ HeldIsActive
  BY DEF PartyInv
<1>1. call[c].q \in Parties /\ call[c].who \in Players
  BY <1>0 DEF CallsFit, ShapeFits, Locking
<1>2. Holders(call[c].q) \subseteq {c}
  BY <1>0 DEF HoldersApart, Holders, Locking
<1> QED
  BY <1>0, <1>1, <1>2 DEF TypeOK, RowsFit, HeldIsActive

(* What a call read before it waited for the party still holds, unless it  *)
(* guessed the revision.                                                   *)
LEMMA ActingLeader ==
    ASSUME PartyInv, NEW c \in Calls, Acts(c)
    PROVE  /\ call[c].at \in Locking
           /\ ~call[c].guess => (call[c].leads <=> call[c].who = party[call[c].q].leader)
           /\ party[call[c].q].leads = {party[call[c].q].leader}
<1>0. CallsFit /\ LeadsKnown
  BY DEF PartyInv
<1>1. call[c].at \in Locking /\ call[c].op = "act"
  BY DEF Acts, Locking
<1>2. call[c].fresh \/ call[c].guess
  BY <1>0 DEF CallsFit, ShapeFits, Acts
<1>3. ~call[c].guess => (call[c].leads <=> call[c].who \in party[call[c].q].leads)
  BY <1>0, <1>1, <1>2 DEF LeadsKnown
<1>4. party[call[c].q].leads = {party[call[c].q].leader}
  BY <1>1, HeldParty DEF RowFits
<1> QED
  BY <1>1, <1>3, <1>4

LEMMA EndsOnly ==
    ASSUME PartyInv, NEW c \in Calls, End(c), party' = party, inv' \in Invitations,
           UNCHANGED <<suspended, budget>>
    PROVE  PartyInv' /\ NoneJoins
<1>1. Steady
  BY SteadyNow DEF PartyInv
<1> QED
  BY <1>1, EndKeeps

LEMMA RefuseKeeps ==
    ASSUME PartyInv, NEW c \in Calls, Refuse(c)
    PROVE  PartyInv' /\ NoneJoins
  BY EndsOnly DEF Refuse, PartyInv, TypeOK

LEMMA LockPartyKeeps ==
    ASSUME PartyInv, NEW c \in Calls, LockParty(c)
    PROVE  PartyInv' /\ NoneJoins
<1> DEFINE k == [call[c] EXCEPT !.at = "locked"]
<1>0. TypeOK /\ CallsFit /\ JoinersApart /\ JoinersWelcome /\ LeadsKnown
  BY DEF PartyInv
<1>1. call[c] \in CallRows /\ call \in [Calls -> CallRows]
  BY <1>0 DEF TypeOK
<1>2. /\ k \in CallRows /\ k.at = "locked" /\ k.op = call[c].op /\ k.who = call[c].who
      /\ k.q = call[c].q /\ k.leads = call[c].leads /\ k.fresh = call[c].fresh
      /\ k.guess = call[c].guess
  BY <1>1 DEF CallRows
<1>3. /\ call[c].at = "read" /\ call[c].q # NoParty /\ Holders(call[c].q) = {}
      /\ party[call[c].q].active /\ StillMeant(c)
      /\ call' = [call EXCEPT ![c] = k]
      /\ UNCHANGED <<party, inv, suspended, budget>>
  BY <1>1 DEF LockParty
<1>4. call[c].q \in Parties
  BY <1>1, <1>3 DEF CallRows
<1>5. ShapeFits(call[c])
  BY <1>0 DEF CallsFit
<1>6. call[c].op # "create"
  BY <1>3, <1>5 DEF ShapeFits
<1>7. ShapeFits(k)
  BY <1>2, <1>3, <1>5, <1>6 DEF ShapeFits, StillMeant, Revised
<1>8. k.op \in Joins => k.who \notin suspended /\ Joiners(k.who) \subseteq {c}
  BY <1>0, <1>2 DEF JoinersApart, JoinersWelcome, Joiners, Joins
<1>9. k.op = "act" /\ k.fresh => (k.leads <=> k.who \in party[k.q].leads)
  BY <1>0, <1>2 DEF LeadsKnown
<1>10. Holders(k.q) \subseteq {c} /\ party[k.q].active
  BY <1>2, <1>3
<1>11. Steady
  BY <1>0, <1>3, SteadyNow DEF TypeOK
<1> HIDE DEF k
<1> QED
  BY <1>2, <1>3, <1>7, <1>8, <1>9, <1>10, <1>11, CallChanges

LEMMA TakeInvitationsKeeps ==
    ASSUME PartyInv, NEW c \in Calls, TakeInvitations(c)
    PROVE  PartyInv' /\ NoneJoins
<1> DEFINE k == [call[c] EXCEPT !.at = "joining", !.rows = PendingTo(call[c].who)]
<1>0. TypeOK /\ CallsFit /\ JoinersApart /\ JoinersWelcome /\ LeadsKnown
  BY DEF PartyInv
<1>1. call[c] \in CallRows /\ call \in [Calls -> CallRows]
  BY <1>0 DEF TypeOK
<1>2. /\ call[c].op = "accept" /\ call[c].at = "locked" /\ call[c].at \in Locking
      /\ PartiesOf(call[c].who) = {} /\ HasRoom(call[c].q)
      /\ UNCHANGED <<party, inv, suspended, budget>>
  BY DEF TakeInvitations, Responds, MayJoin, Locking
<1>3. /\ call[c].q \in Parties /\ call[c].who \in Players
      /\ Holders(call[c].q) \subseteq {c} /\ party[call[c].q].active
  BY <1>2, HeldParty
<1>4. PendingTo(call[c].who) \in SUBSET (Parties \X Players)
  BY <1>3 DEF PendingTo
<1>5. /\ k \in CallRows /\ k.at = "joining" /\ k.op = "accept" /\ k.who = call[c].who
      /\ k.q = call[c].q /\ k.fresh = call[c].fresh /\ k.guess = call[c].guess
  BY <1>1, <1>2, <1>4 DEF CallRows
<1>6. call' = [call EXCEPT ![c] = k]
  BY <1>1 DEF TakeInvitations
<1>7. ShapeFits(k)
  BY <1>0, <1>3, <1>5 DEF CallsFit, ShapeFits
<1>8. k.who \notin suspended /\ Joiners(k.who) \subseteq {c}
  BY <1>0, <1>2, <1>5 DEF JoinersApart, JoinersWelcome, Joiners, Joins
<1>9. /\ \A q \in Parties : k.who \notin party[q].members
      /\ Cardinality(party[k.q].members) < Capacity
  BY <1>2, <1>5 DEF PartiesOf, HasRoom
<1>10. Steady
  BY <1>0, <1>2, SteadyNow DEF TypeOK
<1> HIDE DEF k
<1> QED
  BY <1>2, <1>3, <1>5, <1>6, <1>7, <1>8, <1>9, <1>10, CallChanges

(* The player of a call that joins is new to every party.                  *)
LEMMA JoinKeeps ==
    ASSUME PartyInv, NEW c \in Calls, Join(c)
    PROVE  PartyInv' /\ NoneJoins
<1> DEFINE q == call[c].q  p == call[c].who  G == {p}
<1>0. TypeOK /\ CallsFit /\ JoinersApart /\ JoinersWelcome /\ RoomIsKept
  BY DEF PartyInv
<1>1. call[c].at = "joining" /\ call[c].at \in Locking
  BY DEF Join, Locking
<1>2. /\ q \in Parties /\ p \in Players /\ Holders(q) \subseteq {c}
      /\ party[q] \in PartyRows /\ RowFits(party[q]) /\ party[q].active
  BY <1>1, HeldParty
<1>3. (\A o \in Parties : p \notin party[o].members) /\ Cardinality(party[q].members) < Capacity
  BY <1>0, <1>1 DEF RoomIsKept
<1>4. /\ Joined(party[q], p) \in PartyRows /\ RowFits(Joined(party[q], p))
      /\ Joined(party[q], p).members \subseteq party[q].members \cup G
  BY <1>2, <1>3, JoinedFits
<1>5. call[c].op = "accept"
  BY <1>0, <1>1 DEF CallsFit, ShapeFits
<1>6. \A m \in G : PartiesOf(m) = {} /\ Joiners(m) \subseteq {c} /\ m \notin suspended
  BY <1>0, <1>3, <1>5 DEF PartiesOf, Joiners, JoinersApart, JoinersWelcome, Joins
<1>7. Bump(q, Joined(party[q], p), c) /\ inv' = Withdrawn(call[c].rows)
  BY DEF Join
<1>8. Steady
  BY <1>0, <1>7, WithdrawnType, SteadyNow DEF Join
<1> HIDE DEF q, p, G
<1> QED
  BY <1>2, <1>4, <1>6, <1>7, <1>8, BumpKeeps

LEMMA CreateKeeps ==
    ASSUME PartyInv, NEW c \in Calls, NEW q \in Parties, Create(c, q)
    PROVE  PartyInv' /\ NoneJoins
<1> DEFINE p == call[c].who  G == {p}
<1>0. TypeOK /\ CallsFit /\ JoinersApart /\ JoinersWelcome
  BY DEF PartyInv
<1>1. /\ call[c].op = "create" /\ PartiesOf(p) = {} /\ \A d \in Calls : call[d].q # q
      /\ party' = [party EXCEPT ![q] = Founded(p)]
      /\ call' = [call EXCEPT ![c] = Idle] /\ UNCHANGED <<inv, suspended, budget>>
  BY DEF Create, End, Founded
<1>2. p \in Players
  BY <1>0, <1>1 DEF CallsFit, ShapeFits
<1>3. Holders(q) \subseteq {c}
  BY <1>1 DEF Holders
<1>4. \A m \in G : PartiesOf(m) = {} /\ Joiners(m) \subseteq {c} /\ m \notin suspended
  BY <1>0, <1>1 DEF Joiners, JoinersApart, JoinersWelcome, Joins
<1>5. call' = Outdated(q, c)
  BY <1>0, <1>1 DEF Outdated, TypeOK
<1>6. /\ Founded(p) \in PartyRows /\ RowFits(Founded(p))
      /\ Founded(p).members \subseteq party[q].members \cup G
  BY <1>2, FoundedFits
<1>7. Steady
  BY <1>0, <1>1, SteadyNow DEF TypeOK
<1> HIDE DEF p, G
<1> QED
  BY <1>1, <1>3, <1>4, <1>5, <1>6, <1>7, RowChanges

LEMMA PartyChangedKeeps ==
    ASSUME PartyInv, NEW c \in Calls, PartyChanged(c)
    PROVE  PartyInv' /\ NoneJoins
<1>1. inv' \in Invitations
  BY WithdrawnType DEF PartyChanged, PartyInv, TypeOK
<1> QED
  BY <1>1, EndsOnly DEF PartyChanged

LEMMA LeaveKeeps ==
    ASSUME PartyInv, NEW c \in Calls, Leave(c)
    PROVE  PartyInv' /\ NoneJoins
<1>1. call[c].at \in Locking
  BY DEF Leave, Acts, Locking
<1> QED
  BY <1>1, HeldParty, RemoveKeeps DEF Leave

LEMMA KickKeeps ==
    ASSUME PartyInv, NEW c \in Calls, NEW t \in Players, Kick(c, t)
    PROVE  PartyInv' /\ NoneJoins
<1>1. call[c].at \in Locking
  BY DEF Kick, Acts, Locking
<1> QED
  BY <1>1, HeldParty, RemoveKeeps DEF Kick

LEMMA DisbandKeeps ==
    ASSUME PartyInv, NEW c \in Calls, Disband(c)
    PROVE  PartyInv' /\ NoneJoins
<1>1. call[c].at \in Locking
  BY DEF Disband, Acts, Locking
<1> QED
  BY <1>1, HeldParty, CloseKeeps DEF Disband

LEMMA RemovalKeeps ==
    ASSUME PartyInv, NEW c \in Calls, Remove(c)
    PROVE  PartyInv' /\ NoneJoins
<1>1. call[c].at \in Locking
  BY DEF Remove, Locking
<1>2. CASE call[c].who \in party[call[c].q].members
  <2>1. RemoveMember(call[c].q, call[c].who, c, call[c].rows) /\ UNCHANGED <<suspended, budget>>
    BY <1>2 DEF Remove
  <2> QED
    BY <1>1, <2>1, HeldParty, RemoveKeeps
<1>3. CASE call[c].who \notin party[call[c].q].members
  BY <1>3, EndsOnly DEF Remove, PartyInv, TypeOK
<1> QED
  BY <1>2, <1>3

(* The calls that give their party a new row with the members it has.      *)
LEMMA HolderBumps ==
    ASSUME PartyInv, NEW c \in Calls, call[c].at \in Locking,
           NEW r \in PartyRows, RowFits(r), r.members \subseteq party[call[c].q].members,
           Bump(call[c].q, r, c) \/ BumpUnsynced(call[c].q, r, c),
           inv' \in Invitations, UNCHANGED <<suspended, budget>>
    PROVE  PartyInv' /\ NoneJoins
<1>1. Steady
  BY SteadyNow DEF PartyInv
<1> QED
  BY <1>1, HeldParty, BumpShrinks

LEMMA PromoteKeeps ==
    ASSUME PartyInv, NEW c \in Calls, NEW t \in Players, Promote(c, t)
    PROVE  PartyInv' /\ NoneJoins
<1> DEFINE r == party[call[c].q]  s == Unasked(r)
<1>1. /\ Acts(c) /\ t \in r.members /\ r.leads \subseteq {call[c].who, t}
      /\ Bump(call[c].q, PassedOn(s, call[c].who, t), c)
      /\ UNCHANGED <<inv, suspended, budget>>
  BY DEF Promote
<1>2. call[c].at \in Locking
  BY <1>1, ActingLeader
<1>3. call[c].who \in Players /\ r \in PartyRows /\ RowFits(r) /\ r.active
  BY <1>2, HeldParty
<1>4. /\ s \in PartyRows /\ RowFits(s) /\ s.active /\ s.leads \subseteq {call[c].who, t}
      /\ s.members = r.members
  BY <1>1, <1>3, UnaskedFits
<1>5. /\ s.online \subseteq s.members /\ IsFiniteSet(s.members)
      /\ Cardinality(s.members) <= Capacity /\ AsksMembers(s)
  BY <1>4 DEF RowFits
<1> HIDE DEF s
<1>6. /\ PassedOn(s, call[c].who, t) \in PartyRows /\ RowFits(PassedOn(s, call[c].who, t))
      /\ PassedOn(s, call[c].who, t).members \subseteq r.members
  BY <1>1, <1>3, <1>4, <1>5, PassedOnFits
<1>7. inv' \in Invitations
  BY <1>1 DEF PartyInv, TypeOK
<1> QED
  BY <1>1, <1>2, <1>6, <1>7, HolderBumps

LEMMA InviteKeeps ==
    ASSUME PartyInv, NEW c \in Calls, NEW t \in Players, Invite(c, t)
    PROVE  PartyInv' /\ NoneJoins
<1>1. call[c].at \in Locking
  BY DEF Invite, Acts, Locking
<1>2. inv' \in Invitations
  BY <1>1, HeldParty DEF Invite, Invitations, PartyInv, TypeOK
<1> QED
  BY <1>1, <1>2, HeldParty, HolderBumps DEF Invite

LEMMA CheckKeeps ==
    ASSUME PartyInv, NEW c \in Calls, StartCheck(c) \/ Prepare(c)
    PROVE  PartyInv' /\ NoneJoins
<1> DEFINE r == [party[call[c].q] EXCEPT !.asks = Asked(party[call[c].q])]
<1>1. /\ call[c].at \in Locking /\ UNCHANGED <<inv, suspended, budget>>
      /\ Bump(call[c].q, r, c) \/ BumpUnsynced(call[c].q, r, c)
  BY DEF StartCheck, Prepare, Acts, Locking
<1>2. r \in PartyRows /\ RowFits(r) /\ r.members = party[call[c].q].members
  BY <1>1, HeldParty, AskedFits
<1>3. inv' \in Invitations
  BY <1>1 DEF PartyInv, TypeOK
<1> HIDE DEF r
<1> QED
  BY <1>1, <1>2, <1>3, HolderBumps

LEMMA AnswerKeeps ==
    ASSUME PartyInv, NEW c \in Calls, Answer(c)
    PROVE  PartyInv' /\ NoneJoins
<1> DEFINE r == Answered(party[call[c].q], call[c].who)
<1>1. /\ call[c].at \in Locking /\ UNCHANGED <<inv, suspended, budget>>
      /\ party[call[c].q].asks[call[c].who] # "none" /\ Bump(call[c].q, r, c)
  BY DEF Answer, Acts, Locking
<1>2. r \in PartyRows /\ RowFits(r) /\ r.members = party[call[c].q].members
  BY <1>1, HeldParty, AnsweredFits
<1>3. inv' \in Invitations
  BY <1>1 DEF PartyInv, TypeOK
<1> HIDE DEF r
<1> QED
  BY <1>1, <1>2, <1>3, HolderBumps

LEMMA DropKeeps ==
    ASSUME PartyInv, NEW c \in Calls, Drop(c)
    PROVE  PartyInv' /\ NoneJoins
<1> DEFINE r == Dropped(party[call[c].q], call[c].who)
<1>1. /\ call[c].at \in Locking /\ UNCHANGED <<inv, suspended, budget>>
      /\ Bump(call[c].q, r, c)
  BY DEF Drop, Locking
<1>2. r \in PartyRows /\ RowFits(r) /\ r.members = party[call[c].q].members
  BY <1>1, HeldParty, DroppedFits
<1>3. inv' \in Invitations
  BY <1>1 DEF PartyInv, TypeOK
<1> HIDE DEF r
<1> QED
  BY <1>1, <1>2, <1>3, HolderBumps

LEMMA DeclineKeeps ==
    ASSUME PartyInv, NEW c \in Calls, Decline(c)
    PROVE  PartyInv' /\ NoneJoins
<1>1. inv' \in Invitations
  BY WithdrawnType DEF Decline, PartyInv
<1> QED
  BY <1>1, EndsOnly DEF Decline

LEMMA CancelKeeps ==
    ASSUME PartyInv, NEW c \in Calls, Cancel(c)
    PROVE  PartyInv' /\ NoneJoins
<1>0. TypeOK /\ RowsFit /\ CallsFit
  BY DEF PartyInv
<1>1. call[c].at = "row" /\ Holders(call[c].q) = {} /\ UNCHANGED <<suspended, budget>>
  BY DEF Cancel
<1>2. call[c].q \in Parties
  BY <1>0, <1>1 DEF CallsFit, ShapeFits
<1>3. party[call[c].q] \in PartyRows /\ RowFits(party[call[c].q])
  BY <1>0, <1>2 DEF TypeOK, RowsFit
<1>4. CASE party[call[c].q].leader = call[c].who
  <2>1. Bump(call[c].q, party[call[c].q], c) /\ inv' = Withdrawn(call[c].rows)
    BY <1>4 DEF Cancel
  <2>2. Steady
    BY <1>0, <1>1, <2>1, WithdrawnType, SteadyNow
  <2> QED
    BY <1>1, <1>2, <1>3, <2>1, <2>2, BumpShrinks
<1>5. CASE party[call[c].q].leader # call[c].who
  BY <1>0, <1>5, EndsOnly DEF Cancel, TypeOK
<1> QED
  BY <1>4, <1>5

LEMMA ContinueKeeps ==
    ASSUME PartyInv, NEW c \in Calls, Continue(c)
    PROVE  PartyInv' /\ NoneJoins
<1>1. ASSUME AlreadyInParty(c) \/ RefuseAct(c) \/ RefuseResponse(c)
      PROVE  PartyInv' /\ NoneJoins
  BY <1>1, RefuseKeeps DEF AlreadyInParty, RefuseAct, RefuseResponse
<1> QED
  BY <1>1, LockPartyKeeps, PartyChangedKeeps, CreateKeeps, LeaveKeeps, DisbandKeeps, CheckKeeps,
     AnswerKeeps, KickKeeps, PromoteKeeps, InviteKeeps, DeclineKeeps, TakeInvitationsKeeps,
     JoinKeeps, CancelKeeps, DropKeeps, RemovalKeeps DEF Continue

-----------------------------------------------------------------------------
(* What happens without a call.                                            *)

LEMMA SuspendKeeps ==
    ASSUME PartyInv, NEW p \in Players, Suspend(p)
    PROVE  PartyInv' /\ NoneJoins
<1>1. /\ suspended' = suspended \cup {p} /\ Joiners(p) = {} /\ Spend
      /\ UNCHANGED <<party, inv, call>>
  BY DEF Suspend, MayBeSuspended
<1>2. TypeOK'
  BY <1>1, PartyAssumption DEF PartyInv, TypeOK, Spend
<1>3. JoinersWelcome'
  BY <1>1 DEF PartyInv, JoinersWelcome, Joiners, Joins
<1> QED
  BY <1>1, <1>2, <1>3 DEF PartyInv, RowsFit, RostersApart, CallsFit, HoldersApart, JoinersApart,
     LeadsKnown, HeldIsActive, RoomIsKept, NoneJoins

LEMMA BootstrapKeeps ==
    ASSUME PartyInv, NEW p \in Players, NEW q \in Parties, Bootstrap(p, q)
    PROVE  PartyInv' /\ NoneJoins
<1>1. /\ p \in party[q].members /\ Holders(q) = {} /\ Bump(q, Back(party[q], p), NoCall)
      /\ UNCHANGED <<inv, suspended, budget>>
  BY DEF Bootstrap
<1>2. TypeOK /\ party[q] \in PartyRows /\ RowFits(party[q])
  BY DEF PartyInv, TypeOK, RowsFit
<1>3. /\ Back(party[q], p) \in PartyRows /\ RowFits(Back(party[q], p))
      /\ Back(party[q], p).members \subseteq party[q].members
  BY <1>1, <1>2, BackFits
<1>4. Steady
  BY <1>1, <1>2, SteadyNow DEF TypeOK
<1> QED
  BY <1>1, <1>3, <1>4, BumpShrinks

LEMMA GraceKeeps ==
    ASSUME PartyInv, NEW q \in Parties, GraceExpires(q)
    PROVE  PartyInv' /\ NoneJoins
<1> DEFINE r == party[q]
<1>1. r.grace /\ Holders(q) = {} /\ UNCHANGED <<inv, suspended, budget>>
  BY DEF GraceExpires
<1>2. TypeOK /\ r \in PartyRows /\ RowFits(r)
  BY DEF PartyInv, TypeOK, RowsFit
<1>3. Steady
  BY <1>1, <1>2, SteadyNow DEF TypeOK
<1>4. CASE r.online \ {r.leader} # {}
  <2>1. PICK n \in r.online \ {r.leader} : Bump(q, PassedOn(r, r.leader, n), NoCall)
    BY <1>4 DEF GraceExpires
  <2>2. /\ r.active /\ r.leads \subseteq {r.leader} /\ r.online \subseteq r.members
        /\ IsFiniteSet(r.members) /\ Cardinality(r.members) <= Capacity /\ AsksMembers(r)
        /\ n \in r.members /\ r.leader \in r.members
    BY <1>1, <1>2 DEF RowFits
  <2>3. r.leader \in Players
    BY <1>2, <2>2 DEF PartyRows
  <2>4. /\ PassedOn(r, r.leader, n) \in PartyRows /\ RowFits(PassedOn(r, r.leader, n))
        /\ PassedOn(r, r.leader, n).members \subseteq r.members
    BY <1>2, <2>2, <2>3, PassedOnFits
  <2> QED
    BY <1>1, <1>3, <2>1, <2>4, BumpShrinks
<1>5. CASE r.online \ {r.leader} = {}
  <2> DEFINE s == [r EXCEPT !.grace = FALSE, !.dormant = TRUE]
  <2>1. BumpUnsynced(q, s, NoCall)
    BY <1>5 DEF GraceExpires
  <2>2. s \in PartyRows /\ RowFits(s) /\ s.members = r.members
    BY <1>1, <1>2, <1>5, DesertedFits
  <2> HIDE DEF s
  <2> QED
    BY <1>1, <1>3, <2>1, <2>2, BumpShrinks
<1> QED
  BY <1>4, <1>5

(* A check that expires does not move the revision of the party.           *)
LEMMA CheckExpiresKeeps ==
    ASSUME PartyInv, NEW q \in Parties, CheckExpires(q)
    PROVE  PartyInv' /\ NoneJoins
<1>0. /\ TypeOK /\ RowsFit /\ RostersApart /\ CallsFit
      /\ HoldersApart /\ JoinersApart /\ JoinersWelcome
      /\ LeadsKnown /\ HeldIsActive /\ RoomIsKept
  BY DEF PartyInv
<1>1. /\ party' = [party EXCEPT ![q] = Unasked(party[q])]
      /\ UNCHANGED <<inv, suspended, call, budget>>
  BY <1>0 DEF CheckExpires, TypeOK
<1>2. party \in [Parties -> PartyRows] /\ party[q] \in PartyRows /\ RowFits(party[q])
  BY <1>0 DEF TypeOK, RowsFit
<1>3. \A o \in Parties :
          /\ party'[o] \in PartyRows /\ RowFits(party'[o])
          /\ party'[o].members = party[o].members /\ party'[o].leads = party[o].leads
          /\ party'[o].active = party[o].active
  <2> SUFFICES ASSUME NEW o \in Parties
               PROVE  /\ party'[o] \in PartyRows /\ RowFits(party'[o])
                      /\ party'[o].members = party[o].members /\ party'[o].leads = party[o].leads
                      /\ party'[o].active = party[o].active
    OBVIOUS
  <2>1. CASE o = q
    BY <1>1, <1>2, <2>1, UnaskedFits
  <2>2. CASE o # q
    BY <1>0, <1>1, <1>2, <2>2 DEF RowsFit
  <2> QED
    BY <2>1, <2>2
<1>4. TypeOK'
  <2>1. party' \in [Parties -> PartyRows]
    BY <1>1, <1>2, UnaskedFits
  <2> QED
    BY <1>0, <1>1, <2>1 DEF TypeOK
<1>5. RowsFit' /\ RostersApart' /\ NoneJoins
  BY <1>0, <1>3 DEF RowsFit, RostersApart, NoneJoins
<1>6. CallsFit' /\ HoldersApart' /\ JoinersApart' /\ JoinersWelcome'
  BY <1>0, <1>1 DEF CallsFit, HoldersApart, JoinersApart, JoinersWelcome
<1>7. \A c \in Calls : call[c].op = "act" \/ call[c].at \in Locking => call[c].q \in Parties
  BY <1>0 DEF CallsFit, ShapeFits, Locking
<1>8. LeadsKnown'
  BY <1>0, <1>1, <1>3, <1>7 DEF LeadsKnown
<1>9. HeldIsActive'
  BY <1>0, <1>1, <1>3, <1>7 DEF HeldIsActive
<1>10. RoomIsKept'
  BY <1>0, <1>1, <1>3, <1>7 DEF RoomIsKept, Locking
<1> QED
  BY <1>4, <1>5, <1>6, <1>8, <1>9, <1>10 DEF PartyInv

LEMMA PartyStep == PartyInv /\ [Next]_vars => PartyInv' /\ NoneJoins
<1> SUFFICES ASSUME PartyInv, [Next]_vars PROVE PartyInv' /\ NoneJoins
  OBVIOUS
<1>0. TypeOK
  BY DEF PartyInv
<1>1. ASSUME NEW c \in Calls, BreakDeadlock(c) PROVE PartyInv' /\ NoneJoins
  BY <1>1, RefuseKeeps DEF BreakDeadlock
<1>2. ASSUME NEW q \in Parties, DormantExpires(q) PROVE PartyInv' /\ NoneJoins
  <2>1. Holders(q) \subseteq {NoCall}
    BY <1>2 DEF DormantExpires
  <2> QED
    BY <1>2, <2>1, CloseKeeps DEF DormantExpires
<1>3. ASSUME NEW q \in Parties, NEW p \in Players, InvitationExpires(q, p)
      PROVE  PartyInv' /\ NoneJoins
  <2>1. inv' \in Invitations
    BY <1>0, <1>3, WithdrawnType DEF InvitationExpires
  <2>2. Steady
    BY <1>0, <1>3, <2>1, SteadyNow DEF InvitationExpires
  <2> QED
    BY <1>3, <2>2, InvitationsChange DEF InvitationExpires
<1>4. CASE UNCHANGED vars
  <2>1. Steady
    BY <1>0, <1>4, SteadyNow DEF vars, TypeOK
  <2> QED
    BY <1>4, <2>1, InvitationsChange DEF vars
<1> QED
  BY <1>1, <1>2, <1>3, <1>4, BeginKeeps, ContinueKeeps, SuspendKeeps, BootstrapKeeps, GraceKeeps,
     CheckExpiresKeeps DEF Next

(* The rows of the parties and the calls in progress fit together in every *)
(* reachable state: one call at a time holds a party, what it read of it   *)
(* before is still so (if it carries the revision its client was shown),   *)
(* and nobody else adds the player that it adds.                           *)
THEOREM PartyInvariant == Spec => []PartyInv
  BY PartyInit, PartyStep, PTL DEF Spec

LEMMA InvMeansRosterSound == PartyInv => RosterSound
<1> SUFFICES ASSUME PartyInv PROVE RosterSound
  OBVIOUS
<1>0. TypeOK /\ RowsFit /\ RostersApart
  BY DEF PartyInv
<1>1. OneParty
  <2> SUFFICES ASSUME NEW p \in Players PROVE Cardinality(PartiesOf(p)) <= 1
    BY DEF OneParty
  <2>1. CASE PartiesOf(p) = {}
    BY <2>1, FS_EmptySet
  <2>2. CASE PartiesOf(p) # {}
    <3>1. PICK q \in PartiesOf(p) : TRUE
      BY <2>2
    <3>2. PartiesOf(p) = {q}
      BY <1>0, <3>1 DEF RostersApart, PartiesOf
    <3>3. Cardinality({q}) = 1
      BY FS_Singleton
    <3> QED
      BY <3>2, <3>3
  <2> QED
    BY <2>1, <2>2
<1>2. OneLeader /\ WithinCapacity /\ DormantIsDeserted
  BY <1>0 DEF RowsFit, RowFits, OneLeader, WithinCapacity, DormantIsDeserted
<1> QED
  BY <1>1, <1>2 DEF RosterSound

(* RosterSound: a player is in one party at most, an active party has one  *)
(* leader, who is a member and whom its row names, no party exceeds its    *)
(* capacity, and one that waits for its dormant deadline has nobody        *)
(* online, for every number of players, parties and overlapping calls.     *)
THEOREM RostersAreSound == Spec => []RosterSound
  BY PartyInvariant, InvMeansRosterSound, PTL

LEMMA InvMeansChecksAskMembers == PartyInv => ChecksAskMembers
  BY DEF PartyInv, TypeOK, RowsFit, PartyRows, RowFits, AsksMembers, ChecksAskMembers

(* ChecksAskMembers: a ready check in progress asks exactly the members    *)
(* the party has now.                                                      *)
THEOREM ChecksFollowMembers == Spec => []ChecksAskMembers
  BY PartyInvariant, InvMeansChecksAskMembers, PTL

(* SuspendedNeverJoins: no step makes a suspended player a member of a     *)
(* party of others, wherever the suspension falls between the locks of the *)
(* acceptance.                                                             *)
THEOREM SuspendedStayOut == Spec => SuspendedNeverJoins
<1>1. PartyInv /\ [Next]_vars =>
          [\A q \in Parties : party[q].active =>
              (party'[q].members \ party[q].members) \cap suspended = {}]_vars
  BY PartyStep DEF NoneJoins
<1> QED
  BY <1>1, PartyInvariant, PTL DEF Spec, SuspendedNeverJoins

-----------------------------------------------------------------------------
(* Which steps end a call: its own.                                        *)
Apart(c) == \A d \in Calls : d # c => call'[d].at = call[d].at

LEMMA OutdatedApart ==
    ASSUME TypeOK, NEW q, NEW c, call' = Outdated(q, c)
    PROVE  Apart(c)
  BY OutdatedCalls DEF Apart

LEMMA EndApart ==
    ASSUME TypeOK, NEW c, End(c)
    PROVE  Apart(c)
  BY DEF Apart, TypeOK, End

LEMMA RemovalOutdates ==
    ASSUME NEW q, NEW p, NEW c, NEW rows, RemoveMember(q, p, c, rows)
    PROVE  call' = Outdated(q, c)
  BY DEF RemoveMember, Bump, CloseParty

LEMMA StartApart ==
    ASSUME TypeOK, NEW c, NEW op, NEW p, NEW q, NEW at, NEW leads, NEW rows,
           Start(c, op, p, q, at, leads, rows)
    PROVE  Apart(c) /\ call[c].at = "idle"
  BY DEF Apart, TypeOK, Start

LEMMA BeginApart ==
    ASSUME TypeOK, NEW c \in Calls, Begin(c)
    PROVE  Apart(c) /\ call[c].at = "idle"
<1>1. ASSUME NEW p \in Players, BeginRemove(c, p) PROVE Apart(c) /\ call[c].at = "idle"
  <2>1. CASE PartiesOf(p) = {}
    BY <1>1, <2>1 DEF BeginRemove, Apart
  <2>2. CASE PartiesOf(p) # {}
    BY <1>1, <2>2, StartApart DEF BeginRemove
  <2> QED
    BY <2>1, <2>2
<1>2. ASSUME NEW p \in Players, NEW t \in Players, BeginBlock(c, p, t)
      PROVE  Apart(c) /\ call[c].at = "idle"
  <2>1. CASE PartiesOf(p) \cap PartiesOf(t) = {}
    BY <1>2, <2>1 DEF BeginBlock, Apart
  <2>2. CASE PartiesOf(p) \cap PartiesOf(t) # {}
    BY <1>2, <2>2, StartApart DEF BeginBlock
  <2> QED
    BY <2>1, <2>2
<1>3. ASSUME NEW p \in Players, BeginCreate(c, p) PROVE Apart(c) /\ call[c].at = "idle"
  BY <1>3, StartApart DEF BeginCreate
<1>4. ASSUME NEW p \in Players, NEW q \in Parties,
             BeginAct(c, p, q) \/ BeginRespond(c, p, q) \/ BeginDrop(c, p, q)
      PROVE  Apart(c) /\ call[c].at = "idle"
  BY <1>4, StartApart DEF BeginAct, BeginRespond, BeginDrop
<1>5. ASSUME NEW p \in Players, NEW q \in Parties, NEW t \in Players, BeginCancel(c, p, q, t)
      PROVE  Apart(c) /\ call[c].at = "idle"
  BY <1>5, StartApart DEF BeginCancel
<1> QED
  BY <1>1, <1>2, <1>3, <1>4, <1>5 DEF Begin

LEMMA ContinueApart ==
    ASSUME TypeOK, NEW c \in Calls, Continue(c)
    PROVE  Apart(c)
<1>1. ASSUME \/ AlreadyInParty(c) \/ RefuseAct(c) \/ RefuseResponse(c) \/ PartyChanged(c)
             \/ Decline(c) \/ \E q \in Parties : Create(c, q)
      PROVE  Apart(c)
  <2>1. End(c)
    BY <1>1 DEF AlreadyInParty, RefuseAct, RefuseResponse, Refuse, PartyChanged, Decline, Create
  <2> QED
    BY <2>1, EndApart
<1>2. CASE LockParty(c)
  BY <1>2 DEF LockParty, Apart, TypeOK
<1>3. CASE TakeInvitations(c)
  BY <1>3 DEF TakeInvitations, Apart, TypeOK
<1>4. ASSUME Leave(c) \/ \E t \in Players : Kick(c, t)
      PROVE  Apart(c)
  BY <1>4, RemovalOutdates, OutdatedApart DEF Leave, Kick
<1>5. CASE Remove(c)
  <2>1. End(c) \/ call' = Outdated(call[c].q, c)
    BY <1>5, RemovalOutdates DEF Remove
  <2> QED
    BY <2>1, EndApart, OutdatedApart
<1>6. CASE Cancel(c)
  <2>1. End(c) \/ call' = Outdated(call[c].q, c)
    BY <1>6 DEF Cancel, Bump
  <2> QED
    BY <2>1, EndApart, OutdatedApart
<1>7. ASSUME \/ Disband(c) \/ StartCheck(c) \/ Prepare(c) \/ Answer(c) \/ Join(c) \/ Drop(c)
             \/ \E t \in Players : Promote(c, t) \/ Invite(c, t)
      PROVE  Apart(c)
  <2>1. call' = Outdated(call[c].q, c)
    BY <1>7 DEF Disband, CloseParty, StartCheck, Prepare, Answer, Join, Drop, Promote, Invite,
       Bump, BumpUnsynced
  <2> QED
    BY <2>1, OutdatedApart
<1> QED
  BY <1>1, <1>2, <1>3, <1>4, <1>5, <1>6, <1>7 DEF Continue

LEMMA EndsItself ==
    ASSUME TypeOK, [Next]_vars, NEW c \in Calls, call[c].at # "idle", call'[c] = Idle
    PROVE  Continue(c) \/ BreakDeadlock(c)
<1>0. call'[c].at # call[c].at
  BY DEF Idle
<1>1. ASSUME NEW d \in Calls, d # c, Apart(d) PROVE FALSE
  BY <1>0, <1>1 DEF Apart
<1>2. ASSUME NEW d \in Calls, Begin(d) PROVE FALSE
  <2>1. Apart(d) /\ call[d].at = "idle"
    BY <1>2, BeginApart
  <2> QED
    BY <1>1, <2>1
<1>3. ASSUME NEW d \in Calls, Continue(d) PROVE d = c
  BY <1>1, <1>3, ContinueApart
<1>4. ASSUME NEW d \in Calls, BreakDeadlock(d) PROVE d = c
  <2>1. End(d)
    BY <1>4 DEF BreakDeadlock, Refuse
  <2> QED
    BY <1>1, <2>1, EndApart
<1>5. ASSUME NEW q \in Parties,
             \/ \E p \in Players : Bootstrap(p, q)
             \/ GraceExpires(q) \/ DormantExpires(q)
      PROVE  FALSE
  <2>1. call' = Outdated(q, NoCall)
    BY <1>5 DEF Bootstrap, GraceExpires, DormantExpires, Bump, BumpUnsynced, CloseParty
  <2>2. Apart(NoCall) /\ NoCall # c
    BY <2>1, OutdatedApart, PartyAssumption
  <2> QED
    BY <1>0, <2>2 DEF Apart
<1>6. ASSUME \/ \E q \in Parties : CheckExpires(q) \/ \E p \in Players : InvitationExpires(q, p)
             \/ \E p \in Players : Suspend(p)
             \/ UNCHANGED vars
      PROVE  FALSE
  BY <1>0, <1>6 DEF CheckExpires, InvitationExpires, Suspend, vars
<1> QED
  BY <1>2, <1>3, <1>4, <1>5, <1>6 DEF Next

(* A call of w leaves party q to its leader: at most w itself goes.        *)
LeavesAlone(q, w) ==
    /\ party[q].members \subseteq party'[q].members \cup {w}
    /\ party'[q].leader = party[q].leader
    /\ inv'[q] = inv[q]
    /\ CheckActive(party'[q]) => CheckActive(party[q])

LEMMA BumpedRow ==
    ASSUME TypeOK, NEW q \in Parties, NEW r \in PartyRows, RowFits(r), NEW c, Bump(q, r, c)
    PROVE  /\ party'[q].members = r.members /\ party'[q].leader = r.leader
           /\ CheckActive(party'[q]) <=> CheckActive(r)
<1>1. party'[q] = Synced(r, TRUE)
  BY DEF Bump, Synced, TypeOK
<1> QED
  BY <1>1, SyncedFits

LEMMA LeaveLeavesAlone ==
    ASSUME PartyInv, NEW c \in Calls, Leave(c), call[c].who # party[call[c].q].leader
    PROVE  LeavesAlone(call[c].q, call[c].who)
<1> DEFINE q == call[c].q  w == call[c].who  left == Without(party[q], w)
<1>0. TypeOK
  BY DEF PartyInv
<1>1. Acts(c) /\ RemoveMember(q, w, c, {})
  BY DEF Leave
<1>2. call[c].at \in Locking /\ party[q].leads = {party[q].leader}
  BY <1>1, ActingLeader
<1>3. q \in Parties /\ w \in Players /\ party[q] \in PartyRows /\ RowFits(party[q]) /\ party[q].active
  BY <1>2, HeldParty
<1>4. w \notin party[q].leads
  BY <1>2
<1>5. Bump(q, left, c) /\ inv' = Withdrawn({})
  BY <1>1, <1>4 DEF RemoveMember
<1>6. /\ left \in PartyRows /\ RowFits(left) /\ ~CheckActive(left)
      /\ left.members = party[q].members \ {w} /\ left.leader = party[q].leader
  BY <1>3, <1>4, WithoutRow, WithoutFits
<1>7. inv'[q] = inv[q]
  BY <1>0, <1>3, <1>5 DEF Withdrawn, TypeOK, Invitations
<1> HIDE DEF left
<1>8. /\ party'[q].members = left.members /\ party'[q].leader = left.leader
      /\ ~CheckActive(party'[q])
  BY <1>0, <1>3, <1>5, <1>6, BumpedRow
<1> QED
  BY <1>6, <1>7, <1>8 DEF LeavesAlone

LEMMA AnswerLeavesAlone ==
    ASSUME PartyInv, NEW c \in Calls, Answer(c)
    PROVE  LeavesAlone(call[c].q, call[c].who)
<1> DEFINE q == call[c].q  w == call[c].who  r == Answered(party[q], w)
<1>0. TypeOK
  BY DEF PartyInv
<1>1. Acts(c) /\ party[q].asks[w] # "none" /\ Bump(q, r, c) /\ inv' = inv
  BY DEF Answer
<1>2. q \in Parties /\ w \in Players /\ party[q] \in PartyRows /\ RowFits(party[q])
  BY <1>1, HeldParty DEF Acts, Locking
<1>3. /\ r \in PartyRows /\ RowFits(r) /\ r.members = party[q].members
      /\ r.leader = party[q].leader /\ CheckActive(party[q])
  BY <1>1, <1>2, AnsweredFits
<1> HIDE DEF r
<1>4. party'[q].members = r.members /\ party'[q].leader = r.leader
  BY <1>0, <1>1, <1>2, <1>3, BumpedRow
<1> QED
  BY <1>1, <1>3, <1>4 DEF LeavesAlone

LEMMA NothingLeavesAlone ==
    ASSUME NEW q, NEW w, party' = party, inv' = inv
    PROVE  LeavesAlone(q, w)
  BY DEF LeavesAlone

LEMMA OthersLeaveAlone ==
    ASSUME PartyInv, NEW c \in Calls, Continue(c) \/ BreakDeadlock(c),
           call[c].op \in {"act", "cancel"}, ~call[c].guess,
           call[c].who # party[call[c].q].leader
    PROVE  LeavesAlone(call[c].q, call[c].who)
<1>0. CallsFit
  BY DEF PartyInv
<1>1. ASSUME Acts(c), call[c].leads PROVE FALSE
  BY <1>1, ActingLeader
<1>2. ASSUME \/ BreakDeadlock(c) \/ AlreadyInParty(c) \/ RefuseAct(c) \/ RefuseResponse(c)
             \/ LockParty(c)
      PROVE  LeavesAlone(call[c].q, call[c].who)
  BY <1>2, NothingLeavesAlone DEF BreakDeadlock, AlreadyInParty, RefuseAct, RefuseResponse, Refuse, LockParty
<1>3. CASE PartyChanged(c)
  BY <1>3, NothingLeavesAlone DEF PartyChanged
<1>4. CASE Cancel(c)
  BY <1>4, NothingLeavesAlone DEF Cancel
<1>5. CASE Leave(c)
  BY <1>5, LeaveLeavesAlone
<1>6. CASE Answer(c)
  BY <1>6, AnswerLeavesAlone
<1>7. ASSUME \/ Disband(c) \/ StartCheck(c) \/ Prepare(c)
             \/ \E t \in Players : Kick(c, t) \/ Promote(c, t) \/ Invite(c, t)
      PROVE  FALSE
  BY <1>1, <1>7 DEF Disband, StartCheck, Prepare, Kick, Promote, Invite
<1>8. ASSUME \/ Decline(c) \/ TakeInvitations(c) \/ Drop(c) \/ Remove(c)
             \/ \E q \in Parties : Create(c, q)
      PROVE  FALSE
  BY <1>8 DEF Decline, TakeInvitations, Responds, Drop, Remove, Create
<1>9. CASE Join(c)
  BY <1>0, <1>9 DEF Join, CallsFit, ShapeFits
<1> QED
  BY <1>2, <1>3, <1>4, <1>5, <1>6, <1>7, <1>8, <1>9 DEF Continue

LEMMA LeadersStep ==
    ASSUME PartyInv, [Next]_vars, NEW c \in Calls,
           Ended(c, "act") \/ Ended(c, "cancel"), ~call[c].guess,
           call[c].who # party[call[c].q].leader
    PROVE  LeavesAlone(call[c].q, call[c].who)
<1>1. call[c].at # "idle" /\ call'[c] = Idle /\ call[c].op \in {"act", "cancel"}
  BY DEF Ended
<1>2. Continue(c) \/ BreakDeadlock(c)
  BY <1>1, EndsItself DEF PartyInv
<1> QED
  BY <1>1, <1>2, OthersLeaveAlone

(* OnlyLeadersAct: a call that carries the revision its client was shown,  *)
(* and whose player does not lead the party when it ends, removes nobody   *)
(* else, passes nothing on, invites nobody and starts no ready check,      *)
(* whatever it read before it waited for the party and whatever others     *)
(* that guess their revisions do meanwhile.                                *)
THEOREM LeadersAlone == Spec => OnlyLeadersAct
<1>1. PartyInv /\ [Next]_vars =>
          [\A c \in Calls :
              LET q == call[c].q  w == call[c].who IN
              /\ Ended(c, "act") \/ Ended(c, "cancel")
              /\ ~call[c].guess /\ w # party[q].leader
              =>
                  /\ party[q].members \subseteq party'[q].members \cup {w}
                  /\ party'[q].leader = party[q].leader
                  /\ inv'[q] = inv[q]
                  /\ CheckActive(party'[q]) => CheckActive(party[q])]_vars
  BY LeadersStep DEF LeavesAlone
<1> QED
  BY <1>1, PartyInvariant, PTL DEF Spec, OnlyLeadersAct
=============================================================================
