-------------------------- MODULE RealtimeStoreProofs --------------------------
(***************************************************************************)
(* Theorems about RealtimeStore, for every number of connections, tickets, *)
(* players and channels and every capacity.                                *)
(***************************************************************************)
EXTENDS RealtimeStore, TLAPS, FiniteSetTheorems

StoreInv == StoreTypeOK /\ ClaimHeld /\ SourceUsed

(* Before the first ticket nothing is claimed and nothing was admitted.    *)
LEMMA StoreInvInit == StoreInit => StoreInv
  BY LedgerAssumption
  DEF StoreInit, Init, StoreInv, StoreTypeOK, TypeOK, Phases, ClaimHeld, SourceUsed, Admitting

(* Every transaction and every one-statement function preserves the types, *)
(* the claim an admission holds and the use of a ticket by one session.    *)
LEMMA StoreInvStep == StoreInv /\ [StoreNext]_vars => StoreInv'
<1> SUFFICES ASSUME StoreInv, [StoreNext]_vars PROVE StoreInv'
  OBVIOUS
<1> USE LedgerAssumption, StoreAssumption
<1> USE DEF StoreInv, StoreTypeOK, TypeOK, Phases, ClaimHeld, SourceUsed, Admitting
<1>1. ASSUME NEW t \in Tickets, NEW p \in Players, BeginIssue(t, p) PROVE StoreInv'
  BY <1>1 DEF BeginIssue, IssueBegin, txVars, TicketLocked
<1>2. ASSUME NEW t \in Tickets, CommitIssue(t) PROVE StoreInv'
  BY <1>2 DEF CommitIssue, IssueCommit, txVars
<1>3. ASSUME NEW t \in Tickets, Expire(t) PROVE StoreInv'
  BY <1>3 DEF Expire, ExpireTicket, txVars, TicketLocked
<1>4. ASSUME NEW c \in Conns, NEW t \in Tickets, NEW ch \in Channels, AdmitClaim(c, t, ch)
      PROVE  StoreInv'
  BY <1>4 DEF AdmitClaim, ledgerVars, TicketLocked
<1>5. ASSUME NEW c \in Conns, AdmitReplace(c) PROVE StoreInv'
  BY <1>5 DEF AdmitReplace, ledgerVars, ActiveOf
<1>6. ASSUME NEW c \in Conns, AdmitCommit(c) PROVE StoreInv'
  <2> DEFINE t == txTicket[c]
  <2>1. t \in Tickets /\ ticket[t] = "open" /\ status[c] = "none"
    BY <1>6 DEF AdmitCommit
  <2>2. StoreTypeOK'
    BY <1>6, <2>1 DEF AdmitCommit, EndTx
  <2>3. ClaimHeld'
    BY <1>6, <2>1 DEF AdmitCommit, EndTx
  <2>4. SourceUsed'
    BY <1>6, <2>1 DEF AdmitCommit
  <2> QED
    BY <2>2, <2>3, <2>4
<1>7. ASSUME NEW c \in Conns, Abort(c) PROVE StoreInv'
  BY <1>7 DEF Abort, EndTx, ledgerVars
<1>8. ASSUME NEW c \in Conns, NEW ch \in Channels, SwitchBegin(c, ch) PROVE StoreInv'
  BY <1>8 DEF SwitchBegin, ledgerVars
<1>9. ASSUME NEW c \in Conns, SwitchClaim(c) PROVE StoreInv'
  BY <1>9 DEF SwitchClaim, EndTx, ledgerVars
<1>10. ASSUME NEW c \in Conns, SwitchCommit(c) PROVE StoreInv'
  BY <1>10 DEF SwitchCommit, EndTx
<1>11. ASSUME NEW c \in Conns, Checkpoint(c) \/ Age(c) PROVE StoreInv'
  <2>1. /\ fresh' \in [Conns -> BOOLEAN]
        /\ UNCHANGED <<ticket, owner, status, holder, chan, source, allowed, txVars>>
    BY <1>11 DEF Checkpoint, Heartbeat, Age, AgeSession
  <2> QED
    BY <2>1 DEF txVars
<1>12. ASSUME NEW c \in Conns, Close(c) PROVE StoreInv'
  BY <1>12 DEF Close, CloseSession, txVars
<1>13. ASSUME NEW p \in Players, ChangeAccess(p) PROVE StoreInv'
  BY <1>13 DEF ChangeAccess, Revoke, Restore, txVars
<1>14. ASSUME BreakDeadlock PROVE StoreInv'
  BY <1>14 DEF BreakDeadlock, EndTx, ledgerVars
<1>15. CASE UNCHANGED vars
  BY <1>15 DEF vars, ledgerVars, txVars
<1> QED
  BY <1>1, <1>2, <1>3, <1>4, <1>5, <1>6, <1>7, <1>8, <1>9, <1>10, <1>11, <1>12, <1>13,
     <1>14, <1>15 DEF StoreNext

(* The variables of the store keep their types, and with them the claims   *)
(* that the later theorems rest on.                                        *)
THEOREM StoreTypeCorrect == StoreSpec => []StoreInv
<1>1. QED
  BY StoreInvInit, StoreInvStep, PTL DEF StoreSpec
-----------------------------------------------------------------------------
(* A ticket admits one connection.  Its row is locked from the moment an   *)
(* admission reads it unconsumed until that admission has consumed it, so  *)
(* an overlapping presentation of the ticket waits and finds it used.      *)
THEOREM TicketOnce == StoreSpec => []TicketConsumedOnce
<1>1. StoreInit => TicketConsumedOnce
  BY DEF StoreInit, Init, TicketConsumedOnce
<1>2. TicketConsumedOnce /\ StoreInv /\ [StoreNext]_vars => TicketConsumedOnce'
  <2> SUFFICES ASSUME TicketConsumedOnce, StoreInv, [StoreNext]_vars
               PROVE  TicketConsumedOnce'
    OBVIOUS
  <2>1. CASE UNCHANGED source
    BY <2>1 DEF TicketConsumedOnce
  <2>2. ASSUME NEW c \in Conns, AdmitCommit(c) PROVE TicketConsumedOnce'
    <3>1. /\ source' = [source EXCEPT ![c] = txTicket[c]]
          /\ \A d \in Conns : source[d] # txTicket[c]
      BY <2>2, LedgerAssumption
      DEF AdmitCommit, StoreInv, ClaimHeld, SourceUsed, Admitting
    <3> QED
      BY <3>1 DEF TicketConsumedOnce, StoreInv, StoreTypeOK, TypeOK
  <2>3. (\E c \in Conns : AdmitCommit(c)) \/ UNCHANGED source
    BY DEF StoreNext, vars, ledgerVars, BeginIssue, IssueBegin, CommitIssue, IssueCommit,
           Expire, ExpireTicket, AdmitClaim, AdmitReplace, Abort, SwitchBegin, SwitchClaim,
           SwitchCommit, Checkpoint, Heartbeat, Close, CloseSession, Age, AgeSession,
           ChangeAccess, Revoke, Restore, BreakDeadlock
  <2> QED
    BY <2>1, <2>2, <2>3
<1> QED
  BY <1>1, <1>2, StoreTypeCorrect, PTL DEF StoreSpec
-----------------------------------------------------------------------------
(* A closed session stays closed and a spent ticket spent.  Only an        *)
(* admission makes a session active, and it does so for a connection that  *)
(* had none, since StoreInv keeps what it found when it claimed its ticket.*)
THEOREM ClosedStaysClosed == StoreSpec => ClosedIsFinal
<1> DEFINE Final ==
        /\ \A c \in Conns : status[c] = "closed" => status'[c] = "closed"
        /\ \A t \in Tickets : ticket[t] \in {"used", "void"} => ticket'[t] = ticket[t]
<1>1. StoreInv /\ [StoreNext]_vars => Final
  <2> SUFFICES ASSUME StoreInv, [StoreNext]_vars PROVE Final
    OBVIOUS
  <2> USE LedgerAssumption DEF StoreInv, StoreTypeOK, TypeOK
  <2>1. CASE UNCHANGED <<ticket, status>>
    BY <2>1
  <2>2. ASSUME NEW t \in Tickets,
               \/ \E p \in Players : BeginIssue(t, p)
               \/ CommitIssue(t) \/ Expire(t)
        PROVE  Final
    BY <2>2 DEF BeginIssue, IssueBegin, CommitIssue, IssueCommit, Expire, ExpireTicket
  <2>3. ASSUME NEW c \in Conns, AdmitCommit(c) PROVE Final
    BY <2>3 DEF AdmitCommit, ClaimHeld, Admitting
  <2>4. ASSUME NEW c \in Conns, Close(c) PROVE Final
    BY <2>4 DEF Close, CloseSession
  <2> QED
    BY <2>1, <2>2, <2>3, <2>4
    DEF StoreNext, vars, ledgerVars, AdmitClaim, AdmitReplace, Abort, SwitchBegin, SwitchClaim,
        SwitchCommit, Checkpoint, Heartbeat, Age, AgeSession, ChangeAccess, Revoke, Restore,
        BreakDeadlock
<1> QED
  BY <1>1, StoreTypeCorrect, PTL DEF ClosedIsFinal, StoreSpec
-----------------------------------------------------------------------------
(* The steps that touch neither tickets nor the life of a session leave    *)
(* every part of SerialInv as it was.                                      *)
LEMMA SerialFrame ==
    ASSUME SerialInv, UNCHANGED <<ticket, owner, status, holder>>,
           \A c \in Conns : pc'[c] = "replacing" =>
               /\ pc[c] = "replacing"
               /\ txOld'[c] = txOld[c] /\ txTicket'[c] = txTicket[c]
    PROVE  SerialInv'
  BY DEF SerialInv, OneLiveTicket, ReplacesAll, AtMostOneSession, ActiveOf

(* When the ticket requests of a player do not overlap, its admissions     *)
(* exclude each other, and each of them closes every session before it.    *)
LEMMA SerialStep ==
    ASSUME ConcurrentIssue = FALSE, StoreInv, SerialInv, [StoreNext]_vars
    PROVE  SerialInv'
<1> USE LedgerAssumption
<1> USE DEF StoreInv, StoreTypeOK, TypeOK, Phases
<1>1. ASSUME NEW t \in Tickets, NEW p \in Players, BeginIssue(t, p) PROVE SerialInv'
  <2>1. OneLiveTicket'
    BY <1>1 DEF BeginIssue, IssueBegin, SerialInv, OneLiveTicket
  <2>2. ReplacesAll'
    BY <1>1 DEF BeginIssue, IssueBegin, SerialInv, ReplacesAll, ActiveOf, txVars,
                ClaimHeld, Admitting
  <2>3. AtMostOneSession'
    BY <1>1 DEF BeginIssue, IssueBegin, SerialInv, AtMostOneSession
  <2> QED
    BY <2>1, <2>2, <2>3 DEF SerialInv
<1>2. ASSUME NEW t \in Tickets, CommitIssue(t) \/ Expire(t) PROVE SerialInv'
  <2>1. OneLiveTicket'
    BY <1>2 DEF CommitIssue, IssueCommit, Expire, ExpireTicket, SerialInv, OneLiveTicket
  <2>2. ReplacesAll' /\ AtMostOneSession'
    BY <1>2 DEF CommitIssue, IssueCommit, Expire, ExpireTicket, SerialInv, ReplacesAll,
                AtMostOneSession, ActiveOf, txVars
  <2> QED
    BY <2>1, <2>2 DEF SerialInv
<1>3. ASSUME NEW c \in Conns, AdmitReplace(c) PROVE SerialInv'
  BY <1>3 DEF AdmitReplace, ledgerVars, SerialInv, OneLiveTicket, ReplacesAll,
              AtMostOneSession, ActiveOf
<1>4. ASSUME NEW c \in Conns, AdmitCommit(c) PROVE SerialInv'
  <2> DEFINE t == txTicket[c]
  <2> DEFINE p == owner[t]
  <2>1. /\ t \in Tickets /\ ticket[t] = "open" /\ status[c] = "none"
        /\ txOld[c] = ActiveOf(p)
    BY <1>4 DEF AdmitCommit, SerialInv, ReplacesAll, ClaimHeld, Admitting
  <2>2. /\ ticket' = [ticket EXCEPT ![t] = "used"]
        /\ status' = [d \in Conns |-> IF d = c THEN "active"
                                      ELSE IF d \in ActiveOf(p) THEN "closed"
                                      ELSE status[d]]
        /\ holder' = [holder EXCEPT ![c] = p]
        /\ UNCHANGED owner
        /\ pc' = [pc EXCEPT ![c] = "idle"]
        /\ txTicket' = [txTicket EXCEPT ![c] = NoTicket]
        /\ txOld' = [txOld EXCEPT ![c] = {}]
    BY <1>4, <2>1 DEF AdmitCommit, EndTx
  <2>3. OneLiveTicket'
    BY <2>1, <2>2 DEF SerialInv, OneLiveTicket
  <2>4. AtMostOneSession'
    BY <2>1, <2>2 DEF SerialInv, AtMostOneSession, ActiveOf
  <2>5. ASSUME NEW d \in Conns, pc'[d] = "replacing"
        PROVE  txOld'[d] = ActiveOf(owner[txTicket[d]])'
    <3>1. d # c /\ pc[d] = "replacing" /\ txTicket'[d] = txTicket[d] /\ txOld'[d] = txOld[d]
      BY <2>2, <2>5
    <3>2. txTicket[d] \in Tickets /\ owner[txTicket[d]] # p
      BY <1>4, <2>1, <3>1
      DEF AdmitCommit, SerialInv, OneLiveTicket, ClaimHeld, Admitting
    <3>3. ActiveOf(owner[txTicket[d]])' = ActiveOf(owner[txTicket[d]])
      BY <2>1, <2>2, <3>1, <3>2 DEF ActiveOf
    <3> QED
      BY <3>1, <3>3 DEF SerialInv, ReplacesAll
  <2> QED
    BY <2>3, <2>4, <2>5 DEF SerialInv, ReplacesAll
<1>5. ASSUME NEW c \in Conns, Close(c) PROVE SerialInv'
  <2>1. /\ status' = [status EXCEPT ![c] = "closed"]
        /\ UNCHANGED <<ticket, owner, holder, txVars>>
        /\ ~RowLocked(c) /\ status[c] = "active"
    BY <1>5 DEF Close, CloseSession
  <2>2. OneLiveTicket' /\ AtMostOneSession'
    BY <2>1 DEF SerialInv, OneLiveTicket, AtMostOneSession
  <2>3. ReplacesAll'
    BY <2>1 DEF SerialInv, ReplacesAll, RowLocked, ActiveOf, txVars
  <2> QED
    BY <2>2, <2>3 DEF SerialInv
<1>6. ASSUME NEW c \in Conns, NEW t \in Tickets, NEW ch \in Channels, AdmitClaim(c, t, ch)
      PROVE  SerialInv'
  BY <1>6, SerialFrame DEF AdmitClaim, ledgerVars
<1>7. ASSUME NEW c \in Conns, Abort(c) PROVE SerialInv'
  BY <1>7, SerialFrame DEF Abort, EndTx, ledgerVars
<1>8. ASSUME NEW c \in Conns, NEW ch \in Channels, SwitchBegin(c, ch) PROVE SerialInv'
  BY <1>8, SerialFrame DEF SwitchBegin, ledgerVars
<1>9. ASSUME NEW c \in Conns, SwitchClaim(c) \/ SwitchCommit(c) PROVE SerialInv'
  BY <1>9, SerialFrame DEF SwitchClaim, SwitchCommit, EndTx, ledgerVars
<1>10. ASSUME NEW c \in Conns, Checkpoint(c) \/ Age(c) PROVE SerialInv'
  BY <1>10, SerialFrame DEF Checkpoint, Heartbeat, Age, AgeSession, txVars
<1>11. ASSUME NEW p \in Players, ChangeAccess(p) PROVE SerialInv'
  BY <1>11, SerialFrame DEF ChangeAccess, Revoke, Restore, txVars
<1>12. ASSUME BreakDeadlock PROVE SerialInv'
  BY <1>12, SerialFrame DEF BreakDeadlock, EndTx, ledgerVars
<1>13. CASE UNCHANGED vars
  BY <1>13, SerialFrame DEF vars, ledgerVars, txVars
<1> QED
  BY <1>1, <1>2, <1>3, <1>4, <1>5, <1>6, <1>7, <1>8, <1>9, <1>10, <1>11, <1>12, <1>13
  DEF StoreNext

(* In the serial regime, which nothing in the code enforces: a player      *)
(* whose ticket requests do not overlap has at most one session that is    *)
(* not closed, whatever else its connections do.                           *)
LEMMA OneSessionPerPlayer ==
    ASSUME ConcurrentIssue = FALSE
    PROVE  StoreSpec => []AtMostOneSession
<1>1. StoreInit => SerialInv
  BY DEF StoreInit, Init, SerialInv, OneLiveTicket, ReplacesAll, AtMostOneSession
<1>2. StoreInv /\ SerialInv /\ [StoreNext]_vars => SerialInv'
  BY SerialStep
<1>3. SerialInv => AtMostOneSession
  BY DEF SerialInv
<1> QED
  BY <1>1, <1>2, <1>3, StoreTypeCorrect, PTL DEF StoreSpec
-----------------------------------------------------------------------------
(* The population of a channel is a finite set, and a channel whose        *)
(* population did not grow still has the room it had.                      *)
LEMMA RoomKept ==
    ASSUME IsFiniteSet(Conns), StoreInv, NEW ch,
           HasRoom(ch), Population(ch)' \subseteq Population(ch)
    PROVE  HasRoom(ch)'
<1>1. IsFiniteSet(Population(ch))
  BY FS_Subset DEF Population
<1>2. /\ IsFiniteSet(Population(ch)')
      /\ Cardinality(Population(ch)') <= Cardinality(Population(ch))
  BY <1>1, FS_Subset
<1>3. Cardinality(Population(ch)) \in Nat /\ Cardinality(Population(ch)') \in Nat
  BY <1>1, <1>2, FS_CardinalityType
<1> QED
  BY <1>2, <1>3, LedgerAssumption DEF HasRoom

(* A step that adds no session to a channel and starts no claim keeps      *)
(* every claim.                                                            *)
LEMMA ClaimFrame ==
    ASSUME IsFiniteSet(Conns), StoreInv, ChannelClaim,
           \A c \in Conns : status'[c] = "active" =>
               fresh'[c] /\ status[c] = "active" /\ fresh[c] /\ chan'[c] = chan[c],
           \A c \in Conns : Moving(c)' => status'[c] = "active" /\ txChan'[c] \in Channels,
           \A c \in Conns : HoldsChannel(c)' => /\ HoldsChannel(c)
                                               /\ txChan'[c] = txChan[c],
           \A c \in Conns : pc'[c] = "moved" => pc[c] = "moved"
    PROVE  ChannelClaim'
<1>1. \A ch : Population(ch)' \subseteq Population(ch)
  BY DEF Population
<1>2. ASSUME NEW c \in Conns, HoldsChannel(c)'
      PROVE  (txChan[c] \in Channels /\ HasRoom(txChan[c]))'
  <2>1. PICK ch \in Channels : ch = txChan[c] /\ HasRoom(ch)
    BY <1>2 DEF ChannelClaim
  <2>2. ch = txChan'[c]
    BY <1>2, <2>1
  <2>3. HasRoom(ch)'
    BY <1>1, <2>1, RoomKept
  <2> QED
    BY <2>2, <2>3
<1>3. ASSUME NEW c \in Conns, pc'[c] = "moved" PROVE txChan'[c] # chan'[c]
  BY <1>3 DEF ChannelClaim, Moving, HoldsChannel
<1>4. ASSUME NEW c \in Conns, NEW d \in Conns, HoldsChannel(c)', HoldsChannel(d)',
             txChan'[c] = txChan'[d]
      PROVE  c = d
  BY <1>4 DEF ChannelClaim
<1> QED
  BY <1>2, <1>3, <1>4 DEF ChannelClaim

(* When a session enters the channel that c claims and c's claim ends, the *)
(* other claims are untouched: they are on other channels.                 *)
LEMMA ClaimSpent ==
    ASSUME IsFiniteSet(Conns), StoreInv, ChannelClaim,
           NEW c \in Conns, HoldsChannel(c),
           status'[c] = "active", chan'[c] = txChan[c], fresh'[c],
           \A d \in Conns \ {c} : status'[d] = "active" =>
               fresh'[d] /\ status[d] = "active" /\ chan'[d] = chan[d],
           \A d \in Conns \ {c} : Moving(d) => status'[d] = "active",
           \A d \in Conns \ {c} : pc'[d] = pc[d] /\ txChan'[d] = txChan[d],
           pc'[c] = "idle"
    PROVE  ChannelClaim'
<1>1. ASSUME NEW d \in Conns, HoldsChannel(d)'
      PROVE  (txChan[d] \in Channels /\ HasRoom(txChan[d]))'
  <2>1. PICK ch \in Channels : ch = txChan[d] /\ ch # txChan[c] /\ d # c /\ HasRoom(ch)
    BY <1>1 DEF ChannelClaim, HoldsChannel
  <2>2. Population(ch)' \subseteq Population(ch)
    BY <2>1 DEF Population, ChannelClaim
  <2>3. HasRoom(ch)' /\ ch = txChan'[d]
    BY <2>1, <2>2, RoomKept
  <2> QED
    BY <2>3
<1>2. \A d \in Conns : pc'[d] # "idle" => d # c /\ pc'[d] = pc[d] /\ txChan'[d] = txChan[d]
  OBVIOUS
<1>3. \A d \in Conns : status'[d] = "active" => fresh'[d]
  OBVIOUS
<1>4. \A d \in Conns : Moving(d)' => status'[d] = "active" /\ txChan'[d] \in Channels
  BY <1>2 DEF Moving, ChannelClaim
<1>5. ASSUME NEW d \in Conns, pc'[d] = "moved" PROVE txChan'[d] # chan'[d]
  BY <1>2, <1>5 DEF Moving, ChannelClaim
<1>6. \A d, e \in Conns :
         (HoldsChannel(d)' /\ HoldsChannel(e)' /\ txChan'[d] = txChan'[e]) => d = e
  BY <1>2 DEF HoldsChannel, ChannelClaim
<1> QED
  BY <1>1, <1>3, <1>4, <1>5, <1>6 DEF ChannelClaim

(* A claim is made of a channel nobody holds, after counting it. *)
LEMMA ClaimMade ==
    ASSUME StoreInv, ChannelClaim, NEW c \in Conns, NEW ch \in Channels,
           HasRoom(ch), ~ChannelLocked(ch), UNCHANGED ledgerVars,
           \/ pc' = [pc EXCEPT ![c] = "claimed"]
           \/ /\ pc' = [pc EXCEPT ![c] = "moved"]
              /\ status[c] = "active" /\ ch # chan[c],
           txChan' = [txChan EXCEPT ![c] = ch]
    PROVE  ChannelClaim'
<1> USE DEF StoreInv, StoreTypeOK, TypeOK
<1>1. \A x : HasRoom(x)' = HasRoom(x)
  BY DEF HasRoom, Population, ledgerVars
<1>2. ASSUME NEW d \in Conns, HoldsChannel(d)'
      PROVE  (txChan[d] \in Channels /\ HasRoom(txChan[d]))'
  <2>1. PICK x \in Channels : x = txChan'[d] /\ HasRoom(x)
    BY <1>2 DEF ChannelClaim, HoldsChannel
  <2> QED
    BY <1>1, <2>1
<1> QED
  BY <1>2 DEF ChannelClaim, HoldsChannel, ChannelLocked, Moving, ledgerVars

(* Whoever counted a channel keeps the room it found until it uses it or   *)
(* gives it up, whatever step the others take.                             *)
LEMMA ChannelClaimStep ==
    ASSUME IsFiniteSet(Conns), MayAge = FALSE,
           StoreInv, ChannelClaim, [StoreNext]_vars
    PROVE  ChannelClaim'
<1> USE DEF StoreInv, StoreTypeOK, TypeOK, Phases
<1>1. ASSUME NEW c \in Conns, NEW t \in Tickets, NEW ch \in Channels, AdmitClaim(c, t, ch)
      PROVE  ChannelClaim'
  BY <1>1, ClaimMade DEF AdmitClaim
<1>2. ASSUME NEW c \in Conns, SwitchClaim(c) PROVE ChannelClaim'
  <2>1. CASE txChan[c] # chan[c] /\ HasRoom(txChan[c])
    <3>1. /\ ~ChannelLocked(txChan[c]) /\ txChan[c] \in Channels /\ status[c] = "active"
          /\ pc' = [pc EXCEPT ![c] = "moved"] /\ UNCHANGED ledgerVars
          /\ txChan' = [txChan EXCEPT ![c] = txChan[c]]
      BY <1>2, <2>1 DEF SwitchClaim, ChannelClaim, Moving
    <3> QED
      BY <2>1, <3>1, ClaimMade
  <2>2. CASE ~(txChan[c] # chan[c] /\ HasRoom(txChan[c]))
    BY <1>2, <2>2, ClaimFrame
    DEF SwitchClaim, EndTx, ledgerVars, ChannelClaim, Moving, HoldsChannel
  <2> QED
    BY <2>1, <2>2
<1>3. ASSUME NEW c \in Conns, AdmitCommit(c) PROVE ChannelClaim'
  <2>1. HoldsChannel(c) /\ \A d \in Conns : Moving(d) => d # c /\ d \notin txOld[c]
    BY <1>3 DEF AdmitCommit, HoldsChannel, Moving
  <2>2. \A d \in Conns : Moving(d) => status'[d] = "active"
    BY <1>3, <2>1 DEF AdmitCommit, ChannelClaim
  <2> QED
    BY <1>3, <2>1, <2>2, ClaimSpent DEF AdmitCommit, EndTx, ChannelClaim
<1>4. ASSUME NEW c \in Conns, SwitchCommit(c) PROVE ChannelClaim'
  <2>1. HoldsChannel(c) /\ \A d \in Conns : Moving(d) => status'[d] = "active"
    BY <1>4 DEF SwitchCommit, HoldsChannel, ChannelClaim
  <2>2. status'[c] = "active"
    BY <1>4, <2>1 DEF SwitchCommit, Moving
  <2> QED
    BY <1>4, <2>1, <2>2, ClaimSpent DEF SwitchCommit, EndTx, ChannelClaim
<1>5. ASSUME NEW c \in Conns, NEW ch \in Channels, SwitchBegin(c, ch) PROVE ChannelClaim'
  BY <1>5, ClaimFrame DEF SwitchBegin, ledgerVars, ChannelClaim, Moving, HoldsChannel
<1>6. ASSUME NEW c \in Conns, AdmitReplace(c) PROVE ChannelClaim'
  BY <1>6, ClaimFrame DEF AdmitReplace, ledgerVars, ChannelClaim, Moving, HoldsChannel
<1>7. ASSUME NEW c \in Conns, EndTx(c), UNCHANGED ledgerVars PROVE ChannelClaim'
  BY <1>7, ClaimFrame DEF EndTx, ledgerVars, ChannelClaim, Moving, HoldsChannel
<1>8. ASSUME NEW c \in Conns, Checkpoint(c) PROVE ChannelClaim'
  BY <1>8, ClaimFrame DEF Checkpoint, Heartbeat, txVars, ChannelClaim, Moving, HoldsChannel
<1>9. ASSUME NEW c \in Conns, Close(c) PROVE ChannelClaim'
  BY <1>9, ClaimFrame
  DEF Close, CloseSession, RowLocked, txVars, ChannelClaim, Moving, HoldsChannel
<1>10. ASSUME UNCHANGED <<status, chan, fresh, txVars>> PROVE ChannelClaim'
  BY <1>10, ClaimFrame DEF txVars, ChannelClaim, Moving, HoldsChannel
<1>11. \/ UNCHANGED <<status, chan, fresh, txVars>>
       \/ \E c \in Conns : \/ EndTx(c) /\ UNCHANGED ledgerVars
                           \/ \E t \in Tickets, ch \in Channels : AdmitClaim(c, t, ch)
                           \/ \E ch \in Channels : SwitchBegin(c, ch)
                           \/ AdmitReplace(c) \/ AdmitCommit(c) \/ SwitchClaim(c)
                           \/ SwitchCommit(c) \/ Checkpoint(c) \/ Close(c)
  BY DEF StoreNext, vars, ledgerVars, BeginIssue, IssueBegin, CommitIssue, IssueCommit,
         Expire, ExpireTicket, Abort, Age, ChangeAccess, Revoke, Restore, BreakDeadlock
<1> QED
  BY <1>1, <1>2, <1>3, <1>4, <1>5, <1>6, <1>7, <1>8, <1>9, <1>10, <1>11

(* Nobody holds a channel at first.                                        *)
LEMMA ChannelClaimInit == StoreInit => ChannelClaim
  BY DEF StoreInit, Init, ChannelClaim, Moving, HoldsChannel

(* Without expired heartbeats the fresh sessions of a channel never exceed *)
(* its capacity: the row lock of the channel makes the count that a claim  *)
(* rests on still right when the session is inserted or moved.             *)
THEOREM CapacityHeld ==
    ASSUME IsFiniteSet(Conns), MayAge = FALSE
    PROVE  StoreSpec => []ClaimsWithinCapacity
<1>1. StoreInit => ClaimsWithinCapacity
  <2> SUFFICES ASSUME StoreInit, NEW ch \in Channels
               PROVE  Cardinality(Population(ch)) <= Capacity
    BY DEF ClaimsWithinCapacity
  <2>1. Population(ch) = {}
    BY DEF StoreInit, Init, Population
  <2> QED
    BY <2>1, FS_EmptySet, LedgerAssumption
<1>2. StoreInv /\ ChannelClaim /\ ClaimsWithinCapacity /\ [StoreNext]_vars
      => ClaimsWithinCapacity'
  <2> SUFFICES ASSUME StoreInv, ChannelClaim, ClaimsWithinCapacity, [StoreNext]_vars,
                      NEW ch \in Channels
               PROVE  Cardinality(Population(ch)') <= Capacity
    BY DEF ClaimsWithinCapacity
  <2> USE LedgerAssumption DEF StoreInv, StoreTypeOK, TypeOK
  <2>1. /\ IsFiniteSet(Population(ch)) /\ Cardinality(Population(ch)) \in Nat
        /\ Cardinality(Population(ch)) <= Capacity
    BY FS_Subset, FS_CardinalityType DEF Population, ClaimsWithinCapacity
  <2>2. CASE Population(ch)' \subseteq Population(ch)
    <3>1. /\ Cardinality(Population(ch)') \in Nat
          /\ Cardinality(Population(ch)') <= Cardinality(Population(ch))
      BY <2>1, <2>2, FS_Subset, FS_CardinalityType
    <3> QED
      BY <2>1, <3>1
  <2>3. ASSUME NEW c \in Conns, HoldsChannel(c), txChan[c] = ch,
               Population(ch)' \subseteq Population(ch) \cup {c}
        PROVE  Cardinality(Population(ch)') <= Capacity
    <3>1. Cardinality(Population(ch)) < Capacity
      BY <2>3 DEF ChannelClaim, HasRoom
    <3>2. /\ IsFiniteSet(Population(ch) \cup {c})
          /\ Cardinality(Population(ch) \cup {c}) <= Cardinality(Population(ch)) + 1
      <4> DEFINE S == Population(ch)
      <4>1. IsFiniteSet(S) /\ Cardinality(S) \in Nat
        BY <2>1
      <4> HIDE DEF S
      <4>2. /\ IsFiniteSet(S \cup {c})
            /\ \/ Cardinality(S \cup {c}) = Cardinality(S)
               \/ Cardinality(S \cup {c}) = Cardinality(S) + 1
        BY <4>1, FS_AddElement
      <4> QED
        BY <4>1, <4>2 DEF S
    <3>3. /\ Cardinality(Population(ch)') \in Nat
          /\ Cardinality(Population(ch) \cup {c}) \in Nat
          /\ Cardinality(Population(ch)') <= Cardinality(Population(ch) \cup {c})
      BY <2>3, <3>2, FS_Subset, FS_CardinalityType
    <3> QED
      BY <2>1, <3>1, <3>2, <3>3
  <2>4. ASSUME NEW c \in Conns, AdmitCommit(c)
        PROVE  Cardinality(Population(ch)') <= Capacity
    <3>1. HoldsChannel(c) /\ Population(ch)' \subseteq Population(ch) \cup {c}
      BY <2>4 DEF AdmitCommit, HoldsChannel, Population
    <3>2. txChan[c] # ch => Population(ch)' \subseteq Population(ch)
      BY <2>4 DEF AdmitCommit, Population
    <3> QED
      BY <2>2, <2>3, <3>1, <3>2
  <2>5. ASSUME NEW c \in Conns, SwitchCommit(c)
        PROVE  Cardinality(Population(ch)') <= Capacity
    <3>1. HoldsChannel(c) /\ Population(ch)' \subseteq Population(ch) \cup {c}
      BY <2>5 DEF SwitchCommit, HoldsChannel, Population
    <3>2. txChan[c] # ch => Population(ch)' \subseteq Population(ch)
      BY <2>5 DEF SwitchCommit, Population
    <3> QED
      BY <2>2, <2>3, <3>1, <3>2
  <2>6. ASSUME NEW c \in Conns, Checkpoint(c) \/ Close(c)
        PROVE  Population(ch)' \subseteq Population(ch)
    BY <2>6 DEF Checkpoint, Heartbeat, Close, CloseSession, Population, ChannelClaim
  <2>7. UNCHANGED <<status, chan, fresh>> => Population(ch)' = Population(ch)
    BY DEF Population
  <2>8. \/ UNCHANGED <<status, chan, fresh>>
        \/ \E c \in Conns : \/ AdmitCommit(c) \/ SwitchCommit(c)
                            \/ Checkpoint(c) \/ Close(c)
    BY DEF StoreNext, vars, ledgerVars, BeginIssue, IssueBegin, CommitIssue, IssueCommit,
           Expire, ExpireTicket, AdmitClaim, AdmitReplace, Abort, SwitchBegin, SwitchClaim,
           Age, ChangeAccess, Revoke, Restore, BreakDeadlock
  <2> QED
    BY <2>2, <2>4, <2>5, <2>6, <2>7, <2>8
<1>3. StoreInv /\ ChannelClaim /\ [StoreNext]_vars => ChannelClaim'
  BY ChannelClaimStep
<1> QED
  BY <1>1, <1>2, <1>3, ChannelClaimInit, StoreTypeCorrect, PTL DEF StoreSpec
-----------------------------------------------------------------------------
(* In the same regime, and while no heartbeat is late: every commit of the *)
(* interleaved transactions is one step of the ledger, and every other     *)
(* step of theirs changes nothing the ledger has.                          *)
LEMMA StoreImplementsLedger ==
    ASSUME IsFiniteSet(Conns), ConcurrentIssue = FALSE, MayAge = FALSE
    PROVE  StoreSpec => ImplementsLedger
<1>1. StoreInit => Init
  BY DEF StoreInit
<1>2. StoreInv /\ SerialInv /\ ChannelClaim /\ [StoreNext]_vars => [Next]_ledgerVars
  <2> SUFFICES ASSUME StoreInv, SerialInv, ChannelClaim, [StoreNext]_vars
               PROVE  Next \/ UNCHANGED ledgerVars
    OBVIOUS
  <2>1. ASSUME NEW c \in Conns, AdmitCommit(c) PROVE Next
    <3> DEFINE t == txTicket[c]
    <3>1. /\ t \in Tickets /\ ticket[t] = "open" /\ status[c] = "none"
          /\ txChan[c] \in Channels /\ HasRoom(txChan[c])
          /\ txOld[c] = ActiveOf(owner[t])
      BY <2>1 DEF AdmitCommit, StoreInv, ClaimHeld, Admitting, ChannelClaim, HoldsChannel,
                  SerialInv, ReplacesAll
    <3>2. Admit(c, t, txChan[c], ActiveOf(owner[t]))
      BY <2>1, <3>1 DEF AdmitCommit, Admit, Opens
    <3> QED
      BY <3>1, <3>2 DEF Next
  <2>2. ASSUME NEW c \in Conns, SwitchCommit(c) PROVE Next
    <3>1. /\ txChan[c] \in Channels /\ HasRoom(txChan[c])
          /\ status[c] = "active" /\ txChan[c] # chan[c]
      BY <2>2 DEF SwitchCommit, ChannelClaim, HoldsChannel, Moving
    <3>2. SwitchChannel(c, txChan[c])
      BY <2>2, <3>1 DEF SwitchCommit, SwitchChannel, Moves
    <3> QED
      BY <3>1, <3>2 DEF Next
  <2>3. \/ UNCHANGED ledgerVars
        \/ Next
        \/ \E c \in Conns : AdmitCommit(c) \/ SwitchCommit(c)
    BY DEF StoreNext, vars, Next, BeginIssue, CommitIssue, Expire, AdmitClaim, AdmitReplace,
           Abort, SwitchBegin, SwitchClaim, Checkpoint, Close, Age, ChangeAccess,
           BreakDeadlock
  <2> QED
    BY <2>1, <2>2, <2>3
<1>3. StoreInit => SerialInv
  BY DEF StoreInit, Init, SerialInv, OneLiveTicket, ReplacesAll, AtMostOneSession
<1>4. StoreInv /\ SerialInv /\ [StoreNext]_vars => SerialInv'
  BY SerialStep
<1>5. StoreInv /\ ChannelClaim /\ [StoreNext]_vars => ChannelClaim'
  BY ChannelClaimStep
<1> QED
  BY <1>1, <1>2, <1>3, <1>4, <1>5, ChannelClaimInit, StoreTypeCorrect, PTL
  DEF StoreSpec, ImplementsLedger, Spec
-----------------------------------------------------------------------------
(* The rows an admission is about to close stay its player's, and the row  *)
(* a switch holds stays live and in its channel.                           *)
LEMMA OverlapStep ==
    ASSUME StoreInv, OverlapInv, [StoreNext]_vars
    PROVE  OverlapInv'
<1> USE LedgerAssumption
<1> USE DEF StoreInv, StoreTypeOK, TypeOK, Phases, OverlapInv, Admitting, Moving
<1>1. ASSUME NEW t \in Tickets, NEW p \in Players, BeginIssue(t, p) PROVE OverlapInv'
  BY <1>1 DEF BeginIssue, IssueBegin, txVars, ClaimHeld
<1>2. ASSUME NEW t \in Tickets, CommitIssue(t) \/ Expire(t) PROVE OverlapInv'
  BY <1>2 DEF CommitIssue, IssueCommit, Expire, ExpireTicket, txVars
<1>3. ASSUME NEW c \in Conns, AdmitReplace(c) PROVE OverlapInv'
  BY <1>3 DEF AdmitReplace, ledgerVars, ActiveOf
<1>4. ASSUME NEW c \in Conns, AdmitCommit(c) PROVE OverlapInv'
  <2>1. /\ pc[c] = "replacing"
        /\ \A d \in Conns : pc[d] \in {"moving", "moved"} => d # c /\ d \notin txOld[c]
        /\ \A d \in Conns : txOld[d] \subseteq Conns \ {c}
    BY <1>4 DEF AdmitCommit, ClaimHeld
  <2>2. \A d \in Conns : d # c => /\ pc'[d] = pc[d] /\ txOld'[d] = txOld[d]
                                  /\ txTicket'[d] = txTicket[d] /\ txChan'[d] = txChan[d]
    BY <1>4 DEF AdmitCommit, EndTx
  <2>3. \A d \in Conns : d # c => /\ holder'[d] = holder[d] /\ chan'[d] = chan[d]
                                  /\ d \notin txOld[c] => status'[d] = status[d]
    BY <1>4 DEF AdmitCommit
  <2>4. pc'[c] = "idle" /\ owner' = owner
    BY <1>4 DEF AdmitCommit, EndTx
  <2>5. \A d \in Conns : pc[d] = "replacing" =>
             \A e \in txOld[d] : holder[e] = owner[txTicket[d]]
    OBVIOUS
  <2>6. \A d \in Conns : pc[d] \in {"claimed", "replacing"} => txChan[d] \in Channels
    OBVIOUS
  <2>7. \A d \in Conns : pc[d] = "moved" => txChan[d] # chan[d]
    OBVIOUS
  <2>8. \A d \in Conns : txOld[d] \subseteq Conns \ {c}
    BY <2>1
  <2>9. \A d \in Conns : pc[d] \in {"moving", "moved"} =>
             /\ status[d] = "active" /\ txChan[d] \in Channels
             /\ d # c /\ d \notin txOld[c]
    BY <2>1
  <2> HIDE DEF StoreInv, StoreTypeOK, TypeOK, Phases, OverlapInv, Admitting, Moving
  <2>10. \A d \in Conns : pc'[d] # "idle" => d # c
    BY <2>4
  <2>11. ASSUME NEW d \in Conns, pc'[d] = "replacing", NEW e \in txOld'[d]
         PROVE  holder'[e] = owner'[txTicket'[d]]
    <3>1. d # c /\ pc[d] = "replacing" /\ e \in txOld[d] /\ e \in Conns \ {c}
      BY <2>2, <2>8, <2>10, <2>11
    <3> QED
      BY <2>2, <2>3, <2>4, <2>5, <3>1
  <2>12. ASSUME NEW d \in Conns, pc'[d] \in {"moving", "moved"}
         PROVE  /\ status'[d] = "active" /\ txChan'[d] \in Channels
                /\ pc'[d] = "moved" => txChan'[d] # chan'[d]
    BY <2>2, <2>3, <2>7, <2>9, <2>10, <2>12
  <2>13. ASSUME NEW d \in Conns, pc'[d] \in {"claimed", "replacing"}
         PROVE  txChan'[d] \in Channels
    BY <2>2, <2>6, <2>10, <2>13
  <2> QED
    BY <2>11, <2>12, <2>13 DEF OverlapInv, Admitting, Moving
<1>5. ASSUME NEW c \in Conns, Close(c) PROVE OverlapInv'
  BY <1>5 DEF Close, CloseSession, RowLocked, txVars
<1>6. ASSUME NEW c \in Conns, NEW t \in Tickets, NEW ch \in Channels, AdmitClaim(c, t, ch)
      PROVE  OverlapInv'
  BY <1>6 DEF AdmitClaim, ledgerVars
<1>7. ASSUME NEW c \in Conns, EndTx(c), UNCHANGED ledgerVars PROVE OverlapInv'
  BY <1>7 DEF EndTx, ledgerVars
<1>8. ASSUME NEW c \in Conns, NEW ch \in Channels, SwitchBegin(c, ch) PROVE OverlapInv'
  BY <1>8 DEF SwitchBegin, ledgerVars
<1>9. ASSUME NEW c \in Conns, SwitchClaim(c) PROVE OverlapInv'
  BY <1>7, <1>9 DEF SwitchClaim, ledgerVars
<1>10. ASSUME NEW c \in Conns, SwitchCommit(c) PROVE OverlapInv'
  BY <1>10 DEF SwitchCommit, EndTx
<1>11. ASSUME UNCHANGED <<owner, status, holder, chan, txVars>> PROVE OverlapInv'
  BY <1>11 DEF txVars
<1>12. \/ UNCHANGED <<owner, status, holder, chan, txVars>>
       \/ \E t \in Tickets, p \in Players : BeginIssue(t, p)
       \/ \E c \in Conns : \/ EndTx(c) /\ UNCHANGED ledgerVars
                           \/ \E t \in Tickets, ch \in Channels : AdmitClaim(c, t, ch)
                           \/ \E ch \in Channels : SwitchBegin(c, ch)
                           \/ AdmitReplace(c) \/ AdmitCommit(c) \/ SwitchClaim(c)
                           \/ SwitchCommit(c) \/ Close(c)
  BY DEF StoreNext, vars, ledgerVars, CommitIssue, IssueCommit, Expire, ExpireTicket, Abort,
         Checkpoint, Heartbeat, Age, AgeSession, ChangeAccess, Revoke, Restore, BreakDeadlock
<1> QED
  BY <1>1, <1>3, <1>4, <1>5, <1>6, <1>7, <1>8, <1>9, <1>10, <1>11, <1>12

(* However a player's requests overlap and heartbeats expire: every commit *)
(* of the interleaved transactions is one step of the overlap ledger, so a *)
(* session once closed is never moved or heartbeated, and an admission     *)
(* spends an open ticket and closes sessions of its own player only.       *)
THEOREM StoreImplementsOverlapLedger == StoreSpec => ImplementsOverlapLedger
<1>1. StoreInit => Init /\ OverlapInv
  BY DEF StoreInit, Init, OverlapInv, Admitting, Moving
<1>2. StoreInv /\ OverlapInv /\ [StoreNext]_vars => [OverlapNext]_ledgerVars
  <2> SUFFICES ASSUME StoreInv, OverlapInv, [StoreNext]_vars
               PROVE  OverlapNext \/ UNCHANGED ledgerVars
    OBVIOUS
  <2>1. ASSUME NEW c \in Conns, AdmitCommit(c) PROVE OverlapNext
    <3> DEFINE t == txTicket[c]
    <3> DEFINE closing == {d \in txOld[c] : status[d] = "active"}
    <3>1. /\ t \in Tickets /\ ticket[t] = "open" /\ status[c] = "none"
          /\ txChan[c] \in Channels /\ txOld[c] \subseteq Conns
          /\ \A d \in txOld[c] : holder[d] = owner[t] /\ status[d] \in {"active", "closed"}
          /\ txOld[c] \in SUBSET Conns
      BY <2>1 DEF AdmitCommit, StoreInv, StoreTypeOK, TypeOK, ClaimHeld, Admitting, OverlapInv
    <3>2. closing \in SUBSET ActiveOf(owner[t])
      BY <3>1 DEF ActiveOf
    <3>3. status' = [d \in Conns |-> IF d = c THEN "active"
                                     ELSE IF d \in closing THEN "closed" ELSE status[d]]
      <4>1. status' = [d \in Conns |-> IF d = c THEN "active"
                                       ELSE IF d \in txOld[c] THEN "closed" ELSE status[d]]
        BY <2>1 DEF AdmitCommit
      <4>2. \A d \in Conns : (IF d \in txOld[c] THEN "closed" ELSE status[d])
                              = (IF d \in closing THEN "closed" ELSE status[d])
        BY <3>1
      <4> QED
        BY <4>1, <4>2
    <3> HIDE DEF closing
    <3>4. Opens(c, t, txChan[c], closing)
      BY <2>1, <3>1, <3>3 DEF AdmitCommit, Opens
    <3> QED
      BY <3>1, <3>2, <3>4 DEF OverlapNext
  <2>2. ASSUME NEW c \in Conns, SwitchCommit(c) PROVE OverlapNext
    <3>1. txChan[c] \in Channels /\ status[c] = "active" /\ txChan[c] # chan[c]
      BY <2>2 DEF SwitchCommit, OverlapInv, Moving
    <3>2. Moves(c, txChan[c])
      BY <2>2, <3>1 DEF SwitchCommit, Moves
    <3> QED
      BY <3>1, <3>2 DEF OverlapNext
  <2>3. \/ UNCHANGED ledgerVars
        \/ OverlapNext
        \/ \E c \in Conns : AdmitCommit(c) \/ SwitchCommit(c)
    BY DEF StoreNext, vars, OverlapNext, BeginIssue, CommitIssue, Expire, AdmitClaim,
           AdmitReplace, Abort, SwitchBegin, SwitchClaim, Checkpoint, Close, Age, ChangeAccess,
           BreakDeadlock
  <2> QED
    BY <2>1, <2>2, <2>3
<1>3. StoreInv /\ OverlapInv /\ [StoreNext]_vars => OverlapInv'
  BY OverlapStep
<1> QED
  BY <1>1, <1>2, <1>3, StoreTypeCorrect, PTL
  DEF StoreSpec, ImplementsOverlapLedger, OverlapSpec
=============================================================================
