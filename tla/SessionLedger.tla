---------------------------- MODULE SessionLedger ----------------------------
(***************************************************************************)
(* What the realtime tables of 20260715100000_realtime_presence_foundation *)
(* promise to their callers: one-use connection tickets, the durable       *)
(* session of each connection and the cross-process claim of channel       *)
(* slots, with every database function taken as ONE step.                  *)
(*                                                                         *)
(* RealtimeStore shows that the functions, run as PostgreSQL transactions  *)
(* that interleave, implement this; PresenceServer uses it as its database.*)
(***************************************************************************)
EXTENDS Integers, FiniteSets

CONSTANTS Conns,      \* connection ids: one randomUUID per accepted socket
          Tickets,    \* ticket hashes
          Players,
          Channels,   \* the enabled channels of the one published world
          Capacity,   \* realtime_channels.capacity
          NoPlayer, NoChannel, NoTicket

ASSUME LedgerAssumption ==
    /\ Capacity \in Nat \ {0}
    /\ NoPlayer \notin Players
    /\ NoChannel \notin Channels
    /\ NoTicket \notin Tickets

VARIABLES ticket,   \* realtime_connection_tickets, by ticket
          owner,    \* player_profile_id of a ticket
          status,   \* realtime_sessions.status, by the connection it belongs to
          holder,   \* player_profile_id of a session
          chan,     \* channel_id of a session
          fresh,    \* last_heartbeat_at > now() - 30 s
          source,   \* the ticket a session was admitted with
          allowed   \* players for whom realtime_access_denial returns null

ledgerVars == <<ticket, owner, status, holder, chan, fresh, source, allowed>>

TypeOK ==
    /\ ticket \in [Tickets -> {"none", "inserting", "open", "used", "void"}]
    /\ owner \in [Tickets -> Players \cup {NoPlayer}]
    /\ status \in [Conns -> {"none", "active", "closed"}]
    /\ holder \in [Conns -> Players \cup {NoPlayer}]
    /\ chan \in [Conns -> Channels \cup {NoChannel}]
    /\ fresh \in [Conns -> BOOLEAN]
    /\ source \in [Conns -> Tickets \cup {NoTicket}]
    /\ allowed \in SUBSET Players

Init ==
    /\ ticket = [t \in Tickets |-> "none"]
    /\ owner = [t \in Tickets |-> NoPlayer]
    /\ status = [c \in Conns |-> "none"]
    /\ holder = [c \in Conns |-> NoPlayer]
    /\ chan = [c \in Conns |-> NoChannel]
    /\ fresh = [c \in Conns |-> FALSE]
    /\ source = [c \in Conns |-> NoTicket]
    /\ allowed = Players

(* The sessions that count against a channel: active, with a heartbeat     *)
(* younger than 30 seconds.                                                *)
Population(ch) == {c \in Conns : status[c] = "active" /\ chan[c] = ch /\ fresh[c]}

ActiveOf(p) == {c \in Conns : holder[c] = p /\ status[c] = "active"}

HasRoom(ch) == Cardinality(Population(ch)) < Capacity
-----------------------------------------------------------------------------
(* issue_player_realtime_ticket, its delete: the player's unconsumed       *)
(* tickets go, and the new row is not yet visible to others.               *)
IssueBegin(t, p) ==
    /\ ticket[t] = "none"
    /\ p \in allowed
    /\ ticket' = [u \in Tickets |->
                    IF u = t THEN "inserting"
                    ELSE IF owner[u] = p /\ ticket[u] = "open" THEN "void"
                    ELSE ticket[u]]
    /\ owner' = [owner EXCEPT ![t] = p]
    /\ UNCHANGED <<status, holder, chan, fresh, source, allowed>>

(* ... and the commit of its insert. *)
IssueCommit(t) ==
    /\ ticket[t] = "inserting"
    /\ ticket' = [ticket EXCEPT ![t] = "open"]
    /\ UNCHANGED <<owner, status, holder, chan, fresh, source, allowed>>

(* expires_at passes before the ticket is presented. *)
ExpireTicket(t) ==
    /\ ticket[t] = "open"
    /\ ticket' = [ticket EXCEPT ![t] = "void"]
    /\ UNCHANGED <<owner, status, holder, chan, fresh, source, allowed>>

(* admit_player_realtime_ticket, what the admitted outcome writes:         *)
(* `closing` are the player's sessions it replaces.                        *)
Opens(c, t, ch, closing) ==
    /\ status[c] = "none"
    /\ ticket[t] = "open"
    /\ ticket' = [ticket EXCEPT ![t] = "used"]
    /\ status' = [d \in Conns |-> IF d = c THEN "active"
                                  ELSE IF d \in closing THEN "closed"
                                  ELSE status[d]]
    /\ holder' = [holder EXCEPT ![c] = owner[t]]
    /\ chan' = [chan EXCEPT ![c] = ch]
    /\ fresh' = [fresh EXCEPT ![c] = TRUE]
    /\ source' = [source EXCEPT ![c] = t]
    /\ UNCHANGED <<owner, allowed>>

(* The slot is counted before they are closed, so the player's own old     *)
(* session can still fill the channel.                                     *)
Admit(c, t, ch, closing) == HasRoom(ch) /\ Opens(c, t, ch, closing)

(* switch_realtime_channel, what the switched outcome writes.              *)
Moves(c, ch) ==
    /\ status[c] = "active"
    /\ ch # chan[c]
    /\ chan' = [chan EXCEPT ![c] = ch]
    /\ fresh' = [fresh EXCEPT ![c] = TRUE]
    /\ UNCHANGED <<ticket, owner, status, holder, source, allowed>>

(* Its count leaves out the session that moves, which cannot be in the     *)
(* channel it moves to.                                                    *)
SwitchChannel(c, ch) == HasRoom(ch) /\ Moves(c, ch)

(* Faulty variant: the update forgets the sessions that are closed.        *)
FaultyHeartbeat(c) ==
    /\ status[c] # "none"
    /\ status' = [status EXCEPT ![c] = "active"]
    /\ fresh' = [fresh EXCEPT ![c] = TRUE]
    /\ UNCHANGED <<ticket, owner, holder, chan, source, allowed>>

(* checkpoint_realtime_session, and revalidate_realtime_session when it    *)
(* answers 'active': a session that is not closed is heartbeated, however  *)
(* old its last heartbeat is and whatever the channel's population is now. *)
Heartbeat(c) ==
    /\ status[c] = "active"
    /\ fresh' = [fresh EXCEPT ![c] = TRUE]
    /\ UNCHANGED <<ticket, owner, status, holder, chan, source, allowed>>

(* close_realtime_session. *)
CloseSession(c) ==
    /\ status[c] = "active"
    /\ status' = [status EXCEPT ![c] = "closed"]
    /\ UNCHANGED <<ticket, owner, holder, chan, fresh, source, allowed>>

(* Thirty seconds go by without a heartbeat. *)
AgeSession(c) ==
    /\ status[c] = "active"
    /\ fresh' = [fresh EXCEPT ![c] = FALSE]
    /\ UNCHANGED <<ticket, owner, status, holder, chan, source, allowed>>

(* The wallet session ends, the player is suspended or must rename, or     *)
(* maintenance starts; and the reverse.                                    *)
Revoke(p) ==
    /\ allowed' = allowed \ {p}
    /\ UNCHANGED <<ticket, owner, status, holder, chan, fresh, source>>

Restore(p) ==
    /\ allowed' = allowed \cup {p}
    /\ UNCHANGED <<ticket, owner, status, holder, chan, fresh, source>>

Next ==
    \/ \E t \in Tickets, p \in Players : IssueBegin(t, p)
    \/ \E t \in Tickets : IssueCommit(t) \/ ExpireTicket(t)
    \/ \E c \in Conns, t \in Tickets, ch \in Channels :
         Admit(c, t, ch, ActiveOf(owner[t]))
    \/ \E c \in Conns, ch \in Channels : SwitchChannel(c, ch)
    \/ \E c \in Conns : Heartbeat(c) \/ CloseSession(c) \/ AgeSession(c)
    \/ \E p \in Players : Revoke(p) \/ Restore(p)

Spec == Init /\ [][Next]_ledgerVars

(* What is left of it when the ticket requests of a player may overlap and *)
(* an expired heartbeat may come back: an admission still opens one        *)
(* session, for a connection that had none, with an open ticket that it    *)
(* spends, and closes sessions of the same player only, though perhaps not *)
(* all of them; a switch still moves a live session.  The room they        *)
(* counted may be gone by the time they commit.                            *)
OverlapNext ==
    \/ \E t \in Tickets, p \in Players : IssueBegin(t, p)
    \/ \E t \in Tickets : IssueCommit(t) \/ ExpireTicket(t)
    \/ \E c \in Conns, t \in Tickets, ch \in Channels :
         \E closing \in SUBSET ActiveOf(owner[t]) : Opens(c, t, ch, closing)
    \/ \E c \in Conns, ch \in Channels : Moves(c, ch)
    \/ \E c \in Conns : Heartbeat(c) \/ CloseSession(c) \/ AgeSession(c)
    \/ \E p \in Players : Revoke(p) \/ Restore(p)

OverlapSpec == Init /\ [][OverlapNext]_ledgerVars
-----------------------------------------------------------------------------
(* At any moment a player has at most one session that is not closed: an   *)
(* admission replaces the sessions that came before it.                    *)
AtMostOneSession ==
    \A c, d \in Conns :
        (status[c] = "active" /\ status[d] = "active" /\ holder[c] = holder[d]) => c = d

(* A ticket admits one connection, whatever else happens to that session   *)
(* later ("expires after 30 seconds and is consumed once").                *)
TicketConsumedOnce ==
    \A c, d \in Conns :
        (source[c] # NoTicket /\ source[c] = source[d]) => c = d

(* The fresh sessions of a channel never exceed its capacity, as long as   *)
(* none of them had expired and was heartbeated again.                     *)
ClaimsWithinCapacity == \A ch \in Channels : Cardinality(Population(ch)) <= Capacity
=============================================================================
