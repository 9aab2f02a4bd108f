-------------------------------- MODULE Party --------------------------------
(***************************************************************************)
(* Parties, their invitations and ready checks: the functions of           *)
(* 20260715130000_friends_parties_social_graph.sql as READ COMMITTED       *)
(* transactions.  A call first reads its player's member row without a     *)
(* lock, then locks the party and compares the revision its client showed; *)
(* what it changes, it changes under that lock.  An acceptance locks its   *)
(* player's profile and moderation rows before the party, and invitation   *)
(* rows after it; a cancellation locks the invitation before the party.    *)
(*                                                                         *)
(* A revision is only ever compared with the current one and never comes   *)
(* back, so a call keeps whether the one it carries still is (`fresh`).    *)
(* But the client may send any number, one that is still to come included: *)
(* such a call (`guess`) may find that the party has got to its revision,  *)
(* whatever it read before.                                                *)
(* The row of a party that has ended is used again for a new one when no   *)
(* call can still mean the old one.                                        *)
(***************************************************************************)
EXTENDS Naturals, FiniteSets, Relation

CONSTANTS Players, Parties, Calls, NoPlayer, NoParty, NoCall,
          Capacity,   \* player_parties.capacity
          Budget,     \* calls and suspensions that happen
          MayGuess    \* may a call carry a revision its client was not shown?

ASSUME PartyAssumption ==
    /\ NoPlayer \notin Players /\ NoParty \notin Parties /\ NoCall \notin Calls
    /\ Capacity \in Nat \ {0} /\ Budget \in Nat /\ MayGuess \in BOOLEAN

VARIABLES
    party,      \* player_parties with its active members and its ready check
    inv,        \* inv[q][p]: who sent p the pending invitation to q, if anybody
    suspended,  \* players suspended in player_moderation_states
    call,       \* the transactions in progress
    budget      \* how much of Budget is left

vars == <<party, inv, suspended, call, budget>>

Answers == {"none", "waiting", "answered"}

NoRow == [active |-> FALSE, leader |-> NoPlayer, members |-> {}, leads |-> {}, online |-> {},
          former |-> {}, grace |-> FALSE, dormant |-> FALSE, synced |-> TRUE,
          asks |-> [p \in Players |-> "none"]]
Idle == [at |-> "idle", op |-> "none", who |-> NoPlayer, q |-> NoParty,
         leads |-> FALSE, rows |-> {}, fresh |-> TRUE, guess |-> FALSE]

Ops == {"none", "create", "act", "drop", "remove", "block", "accept", "cancel"}

PartyRows ==
    [active : BOOLEAN, leader : Players \cup {NoPlayer}, members : SUBSET Players,
     leads : SUBSET Players, online : SUBSET Players, former : SUBSET Players,
     grace : BOOLEAN, dormant : BOOLEAN, synced : BOOLEAN, asks : [Players -> Answers]]
CallRows ==
    [at : {"idle", "read", "row", "locked", "joining"}, op : Ops,
     who : Players \cup {NoPlayer}, q : Parties \cup {NoParty}, leads : BOOLEAN,
     rows : SUBSET (Parties \X Players), fresh : BOOLEAN, guess : BOOLEAN]
Invitations == [Parties -> [Players -> Players \cup {NoPlayer}]]

TypeOK ==
    /\ party \in [Parties -> PartyRows] /\ inv \in Invitations
    /\ suspended \subseteq Players /\ budget \in 0..Budget
    /\ call \in [Calls -> CallRows]

Init ==
    /\ party = [q \in Parties |-> NoRow]
    /\ inv = [q \in Parties |-> [p \in Players |-> NoPlayer]]
    /\ suspended = {} /\ budget = Budget
    /\ call = [c \in Calls |-> Idle]

-----------------------------------------------------------------------------
(* social_graph_active_party_id.                                           *)
PartiesOf(p) == {q \in Parties : p \in party[q].members}
CheckActive(r) == \E p \in Players : r.asks[p] # "none"

Pending(q) == {<<q, p>> : p \in {p \in Players : inv[q][p] # NoPlayer}}
PendingTo(p) == {<<q, p>> : q \in {q \in Parties : inv[q][p] # NoPlayer}}

(* Locks.                                                                  *)
Holders(q) == {c \in Calls : call[c].q = q /\ call[c].at \in {"locked", "joining"}}
RowHolders(rows) == {c \in Calls : call[c].rows \cap rows # {}}
(* Faulty variant: a creation does not lock the player's profile.          *)
Accepters(p) == {c \in Calls : call[c].who = p /\ call[c].op = "accept"}
Joiners(p) == {c \in Calls : call[c].who = p /\ call[c].op \in {"create", "accept"}}
RowsFree(c, rows) == RowHolders(rows) \subseteq {c}

(* What a call in progress waits for.                                      *)
Needed(c) ==
    IF call[c].op = "accept" /\ call[c].at = "locked" THEN PendingTo(call[c].who)
    ELSE IF call[c].at \in {"locked", "joining", "row"} THEN Pending(call[c].q)
    ELSE {}
Blockers(c) ==
    (RowHolders(Needed(c)) \cup
        IF call[c].at \in {"read", "row"} /\ call[c].op # "create"
        THEN Holders(call[c].q) ELSE {}) \ {c}

(* One of Budget happens.                                                  *)
Spend == budget > 0 /\ budget' = budget - 1

(* The calls that carry a revision.                                        *)
Revised == {"act", "accept", "cancel"}

Start(c, op, p, q, at, leads, rows) ==
    /\ call[c].at = "idle" /\ Spend
    /\ \E guess \in IF MayGuess /\ op \in Revised THEN BOOLEAN ELSE {FALSE} :
          call' = [call EXCEPT ![c] = [at |-> at, op |-> op, who |-> p, q |-> q, leads |-> leads,
                                       rows |-> rows, fresh |-> ~guess, guess |-> guess]]

End(c) == call' = [call EXCEPT ![c] = Idle]
Refuse(c) == End(c) /\ UNCHANGED <<party, inv, suspended, budget>>

(* The calls that carry the revision of q are stale once it has moved on.  *)
Outdated(q, c) ==
    [d \in Calls |-> IF d = c THEN Idle
                     ELSE IF call[d].q = q THEN [call[d] EXCEPT !.fresh = FALSE]
                     ELSE call[d]]

(* The row of q becomes r at the next revision, the end of call c if any.  *)
(* social_graph_sync_pending_invitation_revisions gives it to the pending  *)
(* invitations, which waits for their rows.                                *)
Bump(q, r, c) ==
    /\ RowsFree(c, Pending(q))
    /\ party' = [party EXCEPT ![q] = [r EXCEPT !.synced = TRUE]]
    /\ call' = Outdated(q, c)
BumpUnsynced(q, r, c) ==
    /\ party' = [party EXCEPT ![q] = [r EXCEPT !.synced = Pending(q) = {}]]
    /\ call' = Outdated(q, c)

Withdrawn(rows) ==
    [q \in Parties |-> [p \in Players |-> IF <<q, p>> \in rows THEN NoPlayer ELSE inv[q][p]]]

(* social_graph_invalidate_ready_check.                                    *)
Unasked(r) == [r EXCEPT !.asks = [p \in Players |-> "none"]]

(* The party ends with all of its memberships and invitations.             *)
CloseParty(q, c, rows) ==
    /\ RowsFree(c, Pending(q))
    /\ party' = [party EXCEPT ![q] = NoRow]
    /\ inv' = Withdrawn(rows \cup Pending(q))
    /\ call' = Outdated(q, c)

(* social_graph_remove_party_member.  A leader is succeeded by a member    *)
(* that is online, or else by any; joined_at decides between equals.  The  *)
(* invitations in rows are withdrawn by the same call.                     *)
Without(r, p) ==
    [Unasked(r) EXCEPT !.members = @ \ {p}, !.online = @ \ {p}, !.leads = @ \ {p},
                       !.former = @ \cup {p}]
Heirs(r) == IF r.online # {} THEN r.online ELSE r.members
PassedOn(r, from, to) ==
    [r EXCEPT !.leader = to, !.leads = (@ \ {from}) \cup {to},
              !.grace = FALSE, !.dormant = FALSE]

RemoveMember(q, p, c, rows) ==
    LET left == Without(party[q], p) IN
    IF p \notin party[q].leads THEN Bump(q, left, c) /\ inv' = Withdrawn(rows)
    ELSE IF left.members = {} THEN CloseParty(q, c, rows)
    ELSE \E n \in Heirs(left) : Bump(q, PassedOn(left, p, n), c) /\ inv' = Withdrawn(rows)

-----------------------------------------------------------------------------
(* Calls of a player who has a session that social_graph_active_session    *)
(* accepts.  What is refused before the party is read changes nothing.     *)

(* create_realtime_party locks the profile.                                *)
BeginCreate(c, p) ==
    /\ p \notin suspended /\ Joiners(p) = {}
    /\ Start(c, "create", p, NoParty, "read", FALSE, {})
    /\ UNCHANGED <<party, inv, suspended>>

Create(c, q) ==
    LET p == call[c].who IN
    /\ call[c].op = "create" /\ PartiesOf(p) = {}
    /\ ~party[q].active /\ \A d \in Calls : call[d].q # q
    /\ party' = [party EXCEPT ![q] =
          [NoRow EXCEPT !.active = TRUE, !.leader = p, !.members = {p}, !.leads = {p},
                        !.online = {p}]]
    /\ End(c)
    /\ UNCHANGED <<inv, suspended, budget>>

AlreadyInParty(c) ==
    call[c].op = "create" /\ PartiesOf(call[c].who) # {} /\ Refuse(c)

(* The calls that read the member row before they lock the party.          *)
BeginAct(c, p, q) ==
    /\ p \notin suspended /\ p \in party[q].members
    /\ Start(c, "act", p, q, "read", p \in party[q].leads, {})
    /\ UNCHANGED <<party, inv, suspended>>

(* The party is locked; an ended one is not found.  A disconnect and a     *)
(* block carry no revision.                                                *)
(* Faulty variant: the revision is not compared.                           *)
AnyRevision(c) == TRUE
StillMeant(c) == call[c].fresh \/ call[c].guess \/ call[c].op \notin Revised
LockParty(c) ==
    LET q == call[c].q IN
    /\ call[c].at = "read" /\ q # NoParty /\ Holders(q) = {}
    /\ party[q].active /\ StillMeant(c)
    /\ call' = [call EXCEPT ![c].at = "locked"]
    /\ UNCHANGED <<party, inv, suspended, budget>>

PartyChanged(c) ==
    LET q == call[c].q IN
    /\ call[c].at \in {"read", "row"} /\ q # NoParty /\ Holders(q) = {}
    /\ ~party[q].active \/ ~StillMeant(c) \/ call[c].guess
    /\ inv' = IF call[c].op = "remove" THEN Withdrawn(call[c].rows) ELSE inv
    /\ End(c)
    /\ UNCHANGED <<party, suspended, budget>>

Acts(c) == call[c].op = "act" /\ call[c].at = "locked"
RefuseAct(c) == Acts(c) /\ Refuse(c)

(* leave_realtime_party raises when its player has left meanwhile.         *)
Leave(c) ==
    /\ Acts(c) /\ call[c].who \in party[call[c].q].members
    /\ RemoveMember(call[c].q, call[c].who, c, {})
    /\ UNCHANGED <<suspended, budget>>

(* kick_realtime_party_member.                                             *)
Kick(c, t) ==
    LET q == call[c].q IN
    /\ Acts(c) /\ call[c].leads /\ t # call[c].who
    /\ t \in party[q].members \ party[q].leads
    /\ RemoveMember(q, t, c, {})
    /\ UNCHANGED <<suspended, budget>>

(* promote_realtime_party_leader; a second leader beside one whose role    *)
(* the caller did not take away is refused by a unique index.              *)
Promote(c, t) ==
    LET q == call[c].q IN
    /\ Acts(c) /\ call[c].leads /\ t \in party[q].members \ {call[c].who}
    /\ party[q].leads \subseteq {call[c].who, t}
    /\ Bump(q, PassedOn(Unasked(party[q]), call[c].who, t), c)
    /\ UNCHANGED <<inv, suspended, budget>>

(* disband_realtime_party.                                                 *)
Disband(c) ==
    /\ Acts(c) /\ call[c].leads
    /\ CloseParty(call[c].q, c, {})
    /\ UNCHANGED <<suspended, budget>>

(* send_realtime_party_invitation; friendship, nearness and blocks may     *)
(* refuse it.                                                              *)
Invite(c, t) ==
    LET q == call[c].q IN
    /\ Acts(c) /\ call[c].leads /\ t # call[c].who
    /\ PartiesOf(t) = {} /\ inv[q][t] = NoPlayer
    /\ Bump(q, party[q], c)
    /\ inv' = [inv EXCEPT ![q][t] = call[c].who]
    /\ UNCHANGED <<suspended, budget>>

(* Members who are away are asked too; their answer is "disconnected"      *)
(* instead of "waiting", which counts alike.                               *)
Asked(r) == [p \in Players |-> IF p \in r.members THEN "waiting" ELSE "none"]

(* start_realtime_party_ready_check.                                       *)
StartCheck(c) ==
    LET q == call[c].q IN
    /\ Acts(c) /\ call[c].leads /\ ~CheckActive(party[q])
    /\ Bump(q, [party[q] EXCEPT !.asks = Asked(party[q])], c)
    /\ UNCHANGED <<inv, suspended, budget>>

(* prepare_realtime_cooperative_activity_entry replaces the check in       *)
(* progress, and leaves the invitations at the revision they had.          *)
Prepare(c) ==
    LET q == call[c].q IN
    /\ Acts(c) /\ call[c].leads /\ Cardinality(party[q].members) > 1
    /\ party[q].members \subseteq party[q].online \ suspended
    /\ BumpUnsynced(q, [party[q] EXCEPT !.asks = Asked(party[q])], c)
    /\ UNCHANGED <<inv, suspended, budget>>

(* respond_realtime_party_ready_check; the last answer completes it.       *)
Answered(r, p) ==
    LET asks == [r.asks EXCEPT ![p] = "answered"] IN
    IF \E m \in Players : asks[m] = "waiting"
    THEN [r EXCEPT !.asks = asks] ELSE Unasked(r)
Answer(c) ==
    LET q == call[c].q p == call[c].who IN
    /\ Acts(c) /\ party[q].asks[p] # "none"
    /\ Bump(q, Answered(party[q], p), c)
    /\ UNCHANGED <<inv, suspended, budget>>

-----------------------------------------------------------------------------
(* respond_realtime_party_invitation.                                      *)

(* The profile and the moderation row are locked; the revision that the    *)
(* client shows may be the current one.                                    *)
BeginRespond(c, p, q) ==
    /\ p \notin suspended /\ Joiners(p) = {} /\ inv[q][p] # NoPlayer
    /\ Start(c, "accept", p, q, "read", FALSE, {})
    /\ UNCHANGED <<party, inv, suspended>>

Responds(c) == call[c].op = "accept" /\ call[c].at = "locked"
Invited(c) == inv[call[c].q][call[c].who] # NoPlayer /\ party[call[c].q].synced

Decline(c) ==
    LET row == {<<call[c].q, call[c].who>>} IN
    /\ Responds(c) /\ Invited(c) /\ RowsFree(c, row)
    /\ inv' = Withdrawn(row)
    /\ End(c)
    /\ UNCHANGED <<party, suspended, budget>>

(* Who left a party once has a row in it, and a second is refused by its   *)
(* unique constraint.                                                      *)
HasRoom(q) == Cardinality(party[q].members) < Capacity
MayJoin(c) ==
    /\ Invited(c) /\ PartiesOf(call[c].who) = {} /\ HasRoom(call[c].q)
    /\ call[c].who \notin party[call[c].q].former

(* The member is inserted and the invitation accepted, and the player's    *)
(* other invitations are invalidated; nobody sees this before it commits.  *)
TakeInvitations(c) ==
    LET rows == PendingTo(call[c].who) IN
    /\ Responds(c) /\ MayJoin(c) /\ RowsFree(c, rows)
    /\ call' = [call EXCEPT ![c].at = "joining", ![c].rows = rows]
    /\ UNCHANGED <<party, inv, suspended, budget>>

RefuseResponse(c) == Responds(c) /\ Refuse(c)

(* Faulty variant: a ready check outlives the membership change.           *)
JoinedUnasked(r, p) ==
    [r EXCEPT !.members = @ \cup {p}, !.online = @ \cup {p}, !.dormant = FALSE]
Joined(r, p) ==
    [Unasked(r) EXCEPT !.members = @ \cup {p}, !.online = @ \cup {p}, !.dormant = FALSE]
Join(c) ==
    LET q == call[c].q IN
    /\ call[c].at = "joining"
    /\ Bump(q, Joined(party[q], call[c].who), c)
    /\ inv' = Withdrawn(call[c].rows)
    /\ UNCHANGED <<suspended, budget>>

-----------------------------------------------------------------------------
(* cancel_realtime_party_invitation: the invitation is locked first.       *)
BeginCancel(c, p, q, t) ==
    /\ p \notin suspended /\ inv[q][t] = p /\ RowsFree(c, {<<q, t>>})
    /\ Start(c, "cancel", p, q, "row", FALSE, {<<q, t>>})
    /\ UNCHANGED <<party, inv, suspended>>

Cancel(c) ==
    LET q == call[c].q IN
    /\ call[c].at = "row" /\ Holders(q) = {} /\ party[q].active /\ StillMeant(c)
    /\ IF party[q].leader = call[c].who
       THEN Bump(q, party[q], c) /\ inv' = Withdrawn(call[c].rows)
       ELSE End(c) /\ UNCHANGED <<party, inv>>
    /\ UNCHANGED <<suspended, budget>>

-----------------------------------------------------------------------------
(* handle_realtime_social_graph_disconnect, which the finalization of a    *)
(* connection calls; the player may be back by then.                       *)

BeginDrop(c, p, q) ==
    /\ p \in party[q].members
    /\ Start(c, "drop", p, q, "read", FALSE, {})
    /\ UNCHANGED <<party, inv, suspended>>

(* The member row is updated by its id, whether it has ended or not.       *)
Dropped(r, p) ==
    [r EXCEPT !.online = @ \ {p}, !.grace = @ \/ r.leader = p,
              !.asks[p] = IF @ = "none" THEN @ ELSE "waiting"]
Drop(c) ==
    LET q == call[c].q IN
    /\ call[c].op = "drop" /\ call[c].at = "locked"
    /\ Bump(q, Dropped(party[q], call[c].who), c)
    /\ UNCHANGED <<inv, suspended, budget>>

(* Suspension, access loss: the player's invitations go first.             *)
BeginRemove(c, p) ==
    /\ RowsFree(c, PendingTo(p))
    /\ IF PartiesOf(p) = {}
       THEN call[c].at = "idle" /\ Spend /\ inv' = Withdrawn(PendingTo(p)) /\ UNCHANGED call
       ELSE \E q \in PartiesOf(p) :
               Start(c, "remove", p, q, "read", FALSE, PendingTo(p)) /\ UNCHANGED inv
    /\ UNCHANGED <<party, suspended>>

(* invalidate_realtime_social_graph_pair, when p blocks t: the invitations *)
(* between them go, and p leaves the party they share.                     *)
Between(p, t) == {i \in Parties \X Players : {inv[i[1]][i[2]], i[2]} = {p, t}}
BeginBlock(c, p, t) ==
    LET shared == PartiesOf(p) \cap PartiesOf(t) IN
    /\ p \notin suspended /\ p # t /\ RowsFree(c, Between(p, t))
    /\ IF shared = {}
       THEN call[c].at = "idle" /\ Spend /\ inv' = Withdrawn(Between(p, t)) /\ UNCHANGED call
       ELSE \E q \in shared :
               Start(c, "block", p, q, "read", FALSE, Between(p, t)) /\ UNCHANGED inv
    /\ UNCHANGED <<party, suspended>>

(* A member row that ended meanwhile raises, which undoes the call.        *)
Remove(c) ==
    LET q == call[c].q IN
    /\ call[c].op \in {"remove", "block"} /\ call[c].at = "locked"
    /\ IF call[c].who \in party[q].members
       THEN RemoveMember(q, call[c].who, c, call[c].rows)
       ELSE End(c) /\ UNCHANGED <<party, inv>>
    /\ UNCHANGED <<suspended, budget>>

(* get_realtime_social_graph_bootstrap brings a member back online, or to  *)
(* another place.                                                          *)
Back(r, p) ==
    [r EXCEPT !.online = @ \cup {p}, !.grace = @ /\ r.leader # p, !.dormant = FALSE]
Bootstrap(p, q) ==
    /\ p \notin suspended /\ p \in party[q].members /\ Holders(q) = {}
    /\ Bump(q, Back(party[q], p), NoCall)
    /\ UNCHANGED <<inv, suspended, budget>>

-----------------------------------------------------------------------------
(* cleanup_social_graph, once a deadline has passed; parties that are      *)
(* locked are skipped.                                                     *)
GraceExpires(q) ==
    LET r == party[q] IN
    /\ r.grace /\ Holders(q) = {}
    /\ IF r.online \ {r.leader} # {}
       THEN \E n \in r.online \ {r.leader} : Bump(q, PassedOn(r, r.leader, n), NoCall)
       ELSE BumpUnsynced(q, [r EXCEPT !.grace = FALSE, !.dormant = TRUE], NoCall)
    /\ UNCHANGED <<inv, suspended, budget>>

DormantExpires(q) ==
    /\ party[q].dormant /\ Holders(q) = {}
    /\ CloseParty(q, NoCall, {})
    /\ UNCHANGED <<suspended, budget>>

(* Also done by the bootstraps.                                            *)
InvitationExpires(q, p) ==
    /\ inv[q][p] # NoPlayer /\ RowHolders({<<q, p>>}) = {}
    /\ inv' = Withdrawn({<<q, p>>})
    /\ UNCHANGED <<party, suspended, call, budget>>

CheckExpires(q) ==
    /\ CheckActive(party[q])
    /\ party' = [party EXCEPT ![q] = Unasked(@)]
    /\ UNCHANGED <<inv, suspended, call, budget>>

(* Faulty variant: a suspension does not wait for the player's joining.    *)
AlwaysSuspended(p) == TRUE
(* admin_suspend_player locks the profile and the moderation row, which a  *)
(* creation and an acceptance hold.                                        *)
MayBeSuspended(p) == Joiners(p) = {}
Suspend(p) ==
    /\ p \notin suspended /\ MayBeSuspended(p) /\ Spend
    /\ suspended' = suspended \cup {p}
    /\ UNCHANGED <<party, inv, call>>

(* PostgreSQL ends a transaction that waits for itself.                    *)
Deadlocked(c) == TransitiveClosure([d, e \in Calls |-> e \in Blockers(d)], Calls)[c, c]
BreakDeadlock(c) == Deadlocked(c) /\ Refuse(c)

-----------------------------------------------------------------------------
Continue(c) ==
    \/ LockParty(c) \/ PartyChanged(c) \/ AlreadyInParty(c)
    \/ \E q \in Parties : Create(c, q)
    \/ Leave(c) \/ Disband(c) \/ StartCheck(c) \/ Prepare(c) \/ Answer(c) \/ RefuseAct(c)
    \/ \E t \in Players : Kick(c, t) \/ Promote(c, t) \/ Invite(c, t)
    \/ Decline(c) \/ TakeInvitations(c) \/ RefuseResponse(c) \/ Join(c)
    \/ Cancel(c) \/ Drop(c) \/ Remove(c)

Begin(c) ==
    \E p \in Players :
        \/ BeginCreate(c, p) \/ BeginRemove(c, p)
        \/ \E q \in Parties : BeginAct(c, p, q) \/ BeginRespond(c, p, q) \/ BeginDrop(c, p, q)
        \/ \E q \in Parties, t \in Players : BeginCancel(c, p, q, t)
        \/ \E t \in Players : BeginBlock(c, p, t)

Next ==
    \/ \E c \in Calls : Begin(c) \/ Continue(c) \/ BreakDeadlock(c)
    \/ \E p \in Players : Suspend(p) \/ \E q \in Parties : Bootstrap(p, q)
    \/ \E q \in Parties : GraceExpires(q) \/ DormantExpires(q) \/ CheckExpires(q)
    \/ \E q \in Parties, p \in Players : InvitationExpires(q, p)

Spec == Init /\ [][Next]_vars

-----------------------------------------------------------------------------
OneParty == \A p \in Players : Cardinality(PartiesOf(p)) <= 1
OneLeader ==
    \A q \in Parties : party[q].active =>
        party[q].leads = {party[q].leader} /\ party[q].leads \subseteq party[q].members
WithinCapacity == \A q \in Parties : Cardinality(party[q].members) <= Capacity
DormantIsDeserted ==
    \A q \in Parties : party[q].dormant => party[q].online = {}

(* A player is in one party at most; a party has exactly one member with   *)
(* the role of leader, whom its own row names, and no more members than    *)
(* its capacity; and one that waits for its dormant deadline has nobody    *)
(* online whom the expiry would throw out, however acceptances, removals,  *)
(* promotions and successions overlap.                                     *)
RosterSound == OneParty /\ OneLeader /\ WithinCapacity /\ DormantIsDeserted

(* A ready check in progress asks exactly the members the party has now:   *)
(* no answer of somebody who left completes it, and nobody who joined is   *)
(* left out ("Membership changes invalidate active ready checks").         *)
ChecksAskMembers ==
    \A q \in Parties : CheckActive(party[q]) =>
        {p \in Players : party[q].asks[p] # "none"} = party[q].members

Ended(c, op) == call[c].op = op /\ call[c].at # "idle" /\ call'[c] = Idle

(* A call that read "I am the leader" before it waited for the party, and  *)
(* carries the revision its client was shown, does what only the leader    *)
(* may do only if its player is the leader still.  (A call that guesses    *)
(* the revision its own promotion of another is about to make is not       *)
(* stopped, as README.md describes.)                                       *)
OnlyLeadersAct ==
    [][\A c \in Calls :
          LET q == call[c].q  w == call[c].who IN
          /\ Ended(c, "act") \/ Ended(c, "cancel")
          /\ ~call[c].guess /\ w # party[q].leader
          =>
              /\ party[q].members \subseteq party'[q].members \cup {w}
              /\ party'[q].leader = party[q].leader
              /\ inv'[q] = inv[q]
              /\ CheckActive(party'[q]) => CheckActive(party[q])]_vars

(* "Either the join commits first and is removed by suspension, or the     *)
(* join observes the suspension and is denied": nobody joins the party of  *)
(* others after their suspension committed.                                *)
SuspendedNeverJoins ==
    [][\A q \in Parties : party[q].active =>
          (party'[q].members \ party[q].members) \cap suspended = {}]_vars

(* "Invitation acceptance locks moderation, party, and invitation state in *)
(* a stable order; this prevents over-capacity joins, suspension races,    *)
(* and cross-invitation deadlocks."  It does not hold, as README.md        *)
(* describes: only BreakDeadlock ends the wait.                            *)
NoDeadlock == \A c \in Calls : ~Deadlocked(c)
=============================================================================
