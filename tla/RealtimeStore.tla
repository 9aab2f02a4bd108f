---------------------------- MODULE RealtimeStore ----------------------------
(***************************************************************************)
(* The functions of 20260715100000_realtime_presence_foundation as the     *)
(* PostgreSQL transactions they are.  Every function runs at READ          *)
(* COMMITTED: each of its statements sees what was committed when the      *)
(* statement started, and only the rows it locked (select ... for update,  *)
(* update, delete) stand still until it ends.  An admission is split at    *)
(* its statements (claim the ticket row and the channel row and count;     *)
(* find the player's sessions to close; insert and commit), a switch at    *)
(* its row locks.  The other functions are single statements.              *)
(***************************************************************************)
EXTENDS SessionLedger

CONSTANTS ConcurrentIssue, \* may two ticket requests of one player overlap?
          MayAge           \* may a heartbeat be later than 30 seconds?

ASSUME StoreAssumption == ConcurrentIssue \in BOOLEAN /\ MayAge \in BOOLEAN

VARIABLES pc,       \* the transaction running for a connection, and its phase
          txTicket, \* the ticket row it holds
          txChan,   \* the channel it holds or waits for
          txOld     \* the session rows its replacing update found

txVars == <<pc, txTicket, txChan, txOld>>
vars == <<ledgerVars, txVars>>

Phases == {"idle", "claimed", "replacing", "moving", "moved"}

StoreTypeOK ==
    /\ TypeOK
    /\ pc \in [Conns -> Phases]
    /\ txTicket \in [Conns -> Tickets \cup {NoTicket}]
    /\ txChan \in [Conns -> Channels \cup {NoChannel}]
    /\ txOld \in [Conns -> SUBSET Conns]

StoreInit ==
    /\ Init
    /\ pc = [c \in Conns |-> "idle"]
    /\ txTicket = [c \in Conns |-> NoTicket]
    /\ txChan = [c \in Conns |-> NoChannel]
    /\ txOld = [c \in Conns |-> {}]

Admitting(c) == pc[c] \in {"claimed", "replacing"}
Moving(c) == pc[c] \in {"moving", "moved"}

TicketLocked(t) == \E c \in Conns : Admitting(c) /\ txTicket[c] = t

HoldsChannel(c) == pc[c] \in {"claimed", "replacing", "moved"}

ChannelLocked(ch) == \E c \in Conns : HoldsChannel(c) /\ txChan[c] = ch

(* A session row is locked by the switch that moves it, or by the update   *)
(* of an admission that closes it.                                         *)
RowLocked(c) ==
    \/ Moving(c)
    \/ \E d \in Conns : pc[d] = "replacing" /\ c \in txOld[d]

EndTx(c) ==
    /\ pc' = [pc EXCEPT ![c] = "idle"]
    /\ txTicket' = [txTicket EXCEPT ![c] = NoTicket]
    /\ txChan' = [txChan EXCEPT ![c] = NoChannel]
    /\ txOld' = [txOld EXCEPT ![c] = {}]
-----------------------------------------------------------------------------
(* The delete waits for the row of a ticket that is being admitted, and    *)
(* then finds it consumed.                                                 *)
BeginIssue(t, p) ==
    /\ ConcurrentIssue \/ ~ \E u \in Tickets : owner[u] = p /\ ticket[u] = "inserting"
    /\ \A u \in Tickets : (owner[u] = p /\ ticket[u] = "open") => ~TicketLocked(u)
    /\ IssueBegin(t, p)
    /\ UNCHANGED txVars

CommitIssue(t) == IssueCommit(t) /\ UNCHANGED txVars

(* now() is the start of the transaction, so a claimed ticket no longer    *)
(* expires under the admission that claimed it.                            *)
Expire(t) == ~TicketLocked(t) /\ ExpireTicket(t) /\ UNCHANGED txVars

(* Faulty variants of the next action: the ticket is read without a lock,  *)
(* the channel is counted without one, the player is kept for the ticket.  *)
ClaimUnlockedTicket(c, t, ch) ==
    /\ pc[c] = "idle" /\ status[c] = "none"
    /\ ticket[t] = "open" /\ owner[t] \in allowed
    /\ ~ChannelLocked(ch) /\ HasRoom(ch)
    /\ pc' = [pc EXCEPT ![c] = "claimed"]
    /\ txTicket' = [txTicket EXCEPT ![c] = t]
    /\ txChan' = [txChan EXCEPT ![c] = ch]
    /\ UNCHANGED <<ledgerVars, txOld>>

ClaimUnlockedChannel(c, t, ch) ==
    /\ pc[c] = "idle" /\ status[c] = "none"
    /\ ticket[t] = "open" /\ ~TicketLocked(t) /\ owner[t] \in allowed
    /\ HasRoom(ch)
    /\ pc' = [pc EXCEPT ![c] = "claimed"]
    /\ txTicket' = [txTicket EXCEPT ![c] = t]
    /\ txChan' = [txChan EXCEPT ![c] = ch]
    /\ UNCHANGED <<ledgerVars, txOld>>

(* select ticket for update; realtime_access_denial; select the requested  *)
(* or the first candidate channel for update; count its population.  A     *)
(* denial ends the transaction with nothing changed and is no step.        *)
AdmitClaim(c, t, ch) ==
    /\ pc[c] = "idle" /\ status[c] = "none"
    /\ ticket[t] = "open" /\ ~TicketLocked(t)
    /\ owner[t] \in allowed
    /\ ~ChannelLocked(ch)
    /\ HasRoom(ch)
    /\ pc' = [pc EXCEPT ![c] = "claimed"]
    /\ txTicket' = [txTicket EXCEPT ![c] = t]
    /\ txChan' = [txChan EXCEPT ![c] = ch]
    /\ UNCHANGED <<ledgerVars, txOld>>

(* Faulty variant: it closes the sessions of the destination only.         *)
ReplaceInChannel(c) ==
    /\ pc[c] = "claimed"
    /\ pc' = [pc EXCEPT ![c] = "replacing"]
    /\ txOld' = [txOld EXCEPT ![c] = {d \in ActiveOf(owner[txTicket[c]]) : chan[d] = txChan[c]}]
    /\ UNCHANGED <<ledgerVars, txTicket, txChan>>

(* update realtime_sessions set status = 'closed': the rows it will close  *)
(* are those active in the snapshot taken now.                             *)
AdmitReplace(c) ==
    /\ pc[c] = "claimed"
    /\ pc' = [pc EXCEPT ![c] = "replacing"]
    /\ txOld' = [txOld EXCEPT ![c] = ActiveOf(owner[txTicket[c]])]
    /\ UNCHANGED <<ledgerVars, txTicket, txChan>>

(* Once it has every one of those rows it closes the ones still active,    *)
(* inserts the new session, consumes the ticket and commits.               *)
AdmitCommit(c) ==
    /\ pc[c] = "replacing"
    /\ \A d \in txOld[c] : ~Moving(d)
    /\ ticket' = [ticket EXCEPT ![txTicket[c]] = "used"]
    /\ status' = [d \in Conns |-> IF d = c THEN "active"
                                  ELSE IF d \in txOld[c] THEN "closed"
                                  ELSE status[d]]
    /\ holder' = [holder EXCEPT ![c] = owner[txTicket[c]]]
    /\ chan' = [chan EXCEPT ![c] = txChan[c]]
    /\ fresh' = [fresh EXCEPT ![c] = TRUE]
    /\ source' = [source EXCEPT ![c] = txTicket[c]]
    /\ UNCHANGED <<owner, allowed>>
    /\ EndTx(c)

(* The database connection fails and the transaction is rolled back. *)
Abort(c) ==
    /\ pc[c] # "idle"
    /\ EndTx(c)
    /\ UNCHANGED ledgerVars

(* select session for update: waits for an admission that closes the row,  *)
(* and then finds it no longer active.                                     *)
SwitchBegin(c, ch) ==
    /\ pc[c] = "idle" /\ status[c] = "active" /\ ~RowLocked(c)
    /\ pc' = [pc EXCEPT ![c] = "moving"]
    /\ txChan' = [txChan EXCEPT ![c] = ch]
    /\ UNCHANGED <<ledgerVars, txTicket, txOld>>

(* Faulty variant: a switch waits for a place in a full channel.           *)
WaitForRoom(c) ==
    /\ pc[c] = "moving" /\ ~ChannelLocked(txChan[c])
    /\ IF txChan[c] = chan[c]
       THEN EndTx(c)
       ELSE /\ HasRoom(txChan[c])
            /\ pc' = [pc EXCEPT ![c] = "moved"]
            /\ UNCHANGED <<txTicket, txChan, txOld>>
    /\ UNCHANGED ledgerVars

(* select destination for update; count its population. *)
SwitchClaim(c) ==
    /\ pc[c] = "moving" /\ ~ChannelLocked(txChan[c])
    /\ IF txChan[c] # chan[c] /\ HasRoom(txChan[c])
       THEN /\ pc' = [pc EXCEPT ![c] = "moved"]
            /\ UNCHANGED <<txTicket, txChan, txOld>>
       ELSE EndTx(c)   \* 'unchanged' or 'channel_full'
    /\ UNCHANGED ledgerVars

SwitchCommit(c) ==
    /\ pc[c] = "moved"
    /\ chan' = [chan EXCEPT ![c] = txChan[c]]
    /\ fresh' = [fresh EXCEPT ![c] = TRUE]
    /\ UNCHANGED <<ticket, owner, status, holder, source, allowed>>
    /\ EndTx(c)

(* The functions that are one update of one session row. *)
Checkpoint(c) == ~RowLocked(c) /\ Heartbeat(c) /\ UNCHANGED txVars
Close(c) == ~RowLocked(c) /\ CloseSession(c) /\ UNCHANGED txVars

Age(c) == MayAge /\ AgeSession(c) /\ UNCHANGED txVars

ChangeAccess(p) == (Revoke(p) \/ Restore(p)) /\ UNCHANGED txVars

(* An admission holds its channel and waits for a session row, while the   *)
(* switch of that row holds it and waits for the channel: the two take     *)
(* their locks in opposite orders.  PostgreSQL finds the cycle and rolls   *)
(* one of them back.                                                       *)
LockCycle(c, d) ==
    /\ pc[c] = "replacing" /\ d \in txOld[c]
    /\ pc[d] = "moving" /\ txChan[d] = txChan[c]

BreakDeadlock ==
    /\ \E c, d \in Conns : LockCycle(c, d) /\ (EndTx(c) \/ EndTx(d))
    /\ UNCHANGED ledgerVars

StoreNext ==
    \/ \E t \in Tickets, p \in Players : BeginIssue(t, p)
    \/ \E t \in Tickets : CommitIssue(t) \/ Expire(t)
    \/ \E c \in Conns, t \in Tickets, ch \in Channels : AdmitClaim(c, t, ch)
    \/ \E c \in Conns, ch \in Channels : SwitchBegin(c, ch)
    \/ \E c \in Conns : \/ AdmitReplace(c) \/ AdmitCommit(c) \/ Abort(c)
                        \/ SwitchClaim(c) \/ SwitchCommit(c)
                        \/ Checkpoint(c) \/ Close(c) \/ Age(c)
    \/ \E p \in Players : ChangeAccess(p)
    \/ BreakDeadlock

StoreSpec == StoreInit /\ [][StoreNext]_vars

(* A running transaction executes its next statement when its locks allow  *)
(* it, and PostgreSQL's deadlock detector runs.                            *)
FairStore ==
    /\ StoreSpec
    /\ \A c \in Conns : /\ WF_vars(AdmitReplace(c)) /\ WF_vars(AdmitCommit(c))
                        /\ SF_vars(SwitchClaim(c)) /\ WF_vars(SwitchCommit(c))
    /\ WF_vars(BreakDeadlock)
-----------------------------------------------------------------------------
(* What an admission in progress holds: an open ticket that no other       *)
(* admission holds, a connection that has no session yet, and the sessions *)
(* it found, which exist.                                                  *)
ClaimHeld ==
    /\ \A c \in Conns : Admitting(c) =>
         /\ txTicket[c] \in Tickets
         /\ ticket[txTicket[c]] = "open"
         /\ status[c] = "none"
         /\ \A d \in Conns : (Admitting(d) /\ txTicket[d] = txTicket[c]) => c = d
    /\ \A c \in Conns : \A d \in txOld[c] : status[d] # "none"

SourceUsed ==
    \A c \in Conns : /\ status[c] = "none" <=> source[c] = NoTicket
                     /\ source[c] # NoTicket => ticket[source[c]] = "used"

(* Why AtMostOneSession holds when the ticket requests of a player do not  *)
(* overlap.  A player has one live ticket, so the admission that claimed   *)
(* it is the only one that can insert a session for that player, and what  *)
(* its replacing update found is still every active session of the player  *)
(* when it commits.                                                        *)
OneLiveTicket ==
    \A t, u \in Tickets :
        (/\ ticket[t] \in {"inserting", "open"}
         /\ ticket[u] \in {"inserting", "open"}
         /\ owner[t] = owner[u]) => t = u

(* While its switch holds a row, an admission that found it waits.         *)
ReplacesAll ==
    \A c \in Conns : pc[c] = "replacing" =>
        txOld[c] = ActiveOf(owner[txTicket[c]])

SerialInv == OneLiveTicket /\ ReplacesAll /\ AtMostOneSession

(* Why a claim still fits when it commits, as long as no session comes     *)
(* back from an expired heartbeat: whoever counted a channel holds its row *)
(* until it has inserted or moved its session.                             *)
ChannelClaim ==
    /\ \A c \in Conns : status[c] = "active" => fresh[c]
    /\ \A c \in Conns : Moving(c) => status[c] = "active" /\ txChan[c] \in Channels
    /\ \A c \in Conns : pc[c] = "moved" => txChan[c] # chan[c]
    /\ \A c \in Conns : HoldsChannel(c) => /\ txChan[c] \in Channels
                                           /\ HasRoom(txChan[c])
    /\ \A c, d \in Conns :
          (HoldsChannel(c) /\ HoldsChannel(d) /\ txChan[c] = txChan[d]) => c = d

(* A session that was closed stays closed: a late checkpoint, revalidation *)
(* or switch of a connection that was replaced cannot bring it back, and a *)
(* consumed ticket is never open again.                                    *)
ClosedIsFinal ==
    [][ /\ \A c \in Conns : status[c] = "closed" => status'[c] = "closed"
        /\ \A t \in Tickets : ticket[t] \in {"used", "void"} => ticket'[t] = ticket[t]
      ]_vars

(* Every admission and every switch ends, although they take the channel   *)
(* row and the session row in opposite orders.                             *)
TransactionsEnd == \A c \in Conns : (pc[c] # "idle") ~> (pc[c] = "idle")

(* The interleaved transactions implement the one-step ledger: every commit*)
(* is one of its steps, with the effect it has when it runs alone.         *)
ImplementsLedger == Spec

(* However the requests of a player overlap and heartbeats expire, what    *)
(* the transactions do to the tables is what the functions do one at a     *)
(* time, except that a claim may not fit any more and an admission may     *)
(* have missed a session.                                                  *)
ImplementsOverlapLedger == OverlapSpec

(* Why: the rows an admission is about to close belong to the player it    *)
(* admits, and the row a switch holds stays live and where it was.         *)
OverlapInv ==
    /\ \A c \in Conns : pc[c] = "replacing" =>
         \A d \in txOld[c] : holder[d] = owner[txTicket[c]]
    /\ \A c \in Conns : Admitting(c) => txChan[c] \in Channels
    /\ \A c \in Conns : Moving(c) => status[c] = "active" /\ txChan[c] \in Channels
    /\ \A c \in Conns : pc[c] = "moved" => txChan[c] # chan[c]
=============================================================================
