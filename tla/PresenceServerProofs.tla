------------------------ MODULE PresenceServerProofs ------------------------
(***************************************************************************)
(* Proofs about PresenceServer.  Its invariant says which connections      *)
(* occupy the world on behalf of a player; the properties of the maps      *)
(* follow from there being at most one of them.                            *)
(***************************************************************************)
EXTENDS PresenceServer, FiniteSetTheorems, TLAPS

(* A connection that has not been accepted has done nothing, an accepted   *)
(* one belongs to a player, and an admitted one has a channel.             *)
Untouched ==
    \A c \in Conns : sock[c] = "none" => adm[c] = "idle" /\ c \notin active /\ fin[c] = "no"

Owned ==
    \A c \in Conns : /\ sock[c] # "none" => ticket[c] # "none"
                     /\ ticket[c] # "none" => owner[c] \in Players

InChannel ==
    \A c \in Conns :
        adm[c] \in {"admitted", "replacing", "booting", "booted"} => chan[c] \in Channels

(* A request that is under way names a channel, and its socket was         *)
(* accepted.                                                               *)
Asked ==
    \A c \in Conns, s \in Slots :
        sw[c][s] # "idle" => swTo[c][s] \in Channels /\ sock[c] # "none"

BaseInv == TypeOK /\ Untouched /\ Owned /\ InChannel /\ Asked

(* What a step may do to the ledger.                                       *)
LedgerStep(c) ==
    \/ \E p \in Players : DB!IssueBegin(c, p) \/ DB!Revoke(p) \/ DB!Restore(p)
    \/ DB!IssueCommit(c) \/ DB!ExpireTicket(c) \/ (MayAge /\ DB!AgeSession(c))
    \/ \E ch \in Channels : \/ DB!Admit(c, c, ch, DB!ActiveOf(owner[c]))
                            \/ DB!SwitchChannel(c, ch)
    \/ DB!Heartbeat(c) \/ DB!CloseSession(c)
    \/ UNCHANGED dbVars

LedgerKeeps ==
    /\ DB!TypeOK'
    /\ \A d \in Conns : /\ chan[d] \in Channels => chan'[d] \in Channels
                        /\ ticket[d] # "none" => ticket'[d] # "none" /\ owner'[d] = owner[d]
                        /\ ticket'[d] # "none" => ticket[d] # "none" \/ owner'[d] \in Players

(* The ledger's part of a step: everything keeps its type, the owner of a  *)
(* connection that has a ticket never changes, and no session loses its    *)
(* channel.                                                                *)
LEMMA LedgerFrame ==
    ASSUME DB!TypeOK, NEW c \in Conns, LedgerStep(c)
    PROVE  LedgerKeeps
<1> USE DEF LedgerKeeps
<1>1. ASSUME NEW p \in Players, DB!IssueBegin(c, p) PROVE LedgerKeeps
  <2>1. /\ ticket' \in [Conns -> {"none", "inserting", "open", "used", "void"}]
        /\ ticket'[c] # "none"
        /\ \A d \in Conns \ {c} : ticket'[d] = "none" <=> ticket[d] = "none"
    BY <1>1 DEF DB!IssueBegin, DB!TypeOK
  <2> QED BY <1>1, <2>1 DEF DB!IssueBegin, DB!TypeOK
<1>2. ASSUME NEW ch \in Channels, DB!Admit(c, c, ch, DB!ActiveOf(owner[c])) PROVE LedgerKeeps
  <2>1. status' \in [Conns -> {"none", "active", "closed"}]
    BY <1>2 DEF DB!Admit, DB!Opens, DB!TypeOK
  <2> QED BY <1>2, <2>1 DEF DB!Admit, DB!Opens, DB!TypeOK
<1>3. ASSUME NEW p \in Players, DB!Revoke(p) \/ DB!Restore(p) PROVE LedgerKeeps
  BY <1>3 DEF DB!Revoke, DB!Restore, DB!TypeOK
<1>4. CASE DB!IssueCommit(c) \/ DB!ExpireTicket(c)
  BY <1>4 DEF DB!IssueCommit, DB!ExpireTicket, DB!TypeOK
<1>5. CASE DB!AgeSession(c) \/ DB!Heartbeat(c)
  BY <1>5 DEF DB!AgeSession, DB!Heartbeat, DB!TypeOK
<1>6. CASE DB!CloseSession(c)
  BY <1>6 DEF DB!CloseSession, DB!TypeOK
<1>7. ASSUME NEW ch \in Channels, DB!SwitchChannel(c, ch) PROVE LedgerKeeps
  BY <1>7 DEF DB!SwitchChannel, DB!Moves, DB!TypeOK
<1>8. CASE UNCHANGED dbVars
  BY <1>8 DEF dbVars, DB!TypeOK
<1> QED
  BY <1>1, <1>2, <1>3, <1>4, <1>5, <1>6, <1>7, <1>8 DEF LedgerStep
-----------------------------------------------------------------------------
(* The empty maps of a process that starts satisfy BaseInv.                *)
LEMMA BaseInit == Init => BaseInv
<1> SUFFICES ASSUME Init PROVE BaseInv
  OBVIOUS
<1>1. DB!TypeOK
  BY ServerAssumption DEF Init, DB!Init, DB!TypeOK
<1> QED
  BY <1>1 DEF Init, DB!Init, BaseInv, TypeOK, Untouched, Owned, InChannel, Asked

(* Every action of the server and its clients preserves BaseInv.           *)
LEMMA BaseStep ==
    ASSUME BaseInv, Next
    PROVE  BaseInv'
<1> USE DEF BaseInv, TypeOK, Untouched, Owned, InChannel, Asked, memVars, Closing
<1>1. ASSUME NEW c \in Conns, NEW p \in Players, RequestTicket(c, p) PROVE BaseInv'
  <2>1. LedgerKeeps
    BY <1>1, LedgerFrame DEF RequestTicket, LedgerStep
  <2> QED BY <1>1, <2>1 DEF RequestTicket, LedgerKeeps, DB!IssueBegin
<1>2. ASSUME NEW c \in Conns, ReceiveTicket(c) \/ ExpireTicket(c) \/ Age(c) PROVE BaseInv'
  <2>1. LedgerKeeps
    BY <1>2, LedgerFrame DEF ReceiveTicket, ExpireTicket, Age, LedgerStep
  <2> QED BY <1>2, <2>1 DEF ReceiveTicket, ExpireTicket, Age, LedgerKeeps
<1>3. ASSUME NEW p \in Players, ChangeAccess(p) PROVE BaseInv'
  <2>1. CASE Conns = {}
    BY <1>3, <2>1 DEF ChangeAccess, DB!TypeOK, DB!Revoke, DB!Restore
  <2>2. CASE Conns # {}
    <3>1. LedgerKeeps
      BY <1>3, <2>2, LedgerFrame DEF ChangeAccess, LedgerStep
    <3> QED BY <1>3, <3>1 DEF ChangeAccess, LedgerKeeps
  <2> QED BY <2>1, <2>2
<1>4. ASSUME NEW c \in Conns, Connect(c) \/ GoDown(c) \/ CloseEvent(c) PROVE BaseInv'
  <2>1. LedgerKeeps
    BY <1>4, LedgerFrame DEF Connect, GoDown, CloseEvent, LedgerStep
  <2>2. TypeOK'
    BY <1>4, <2>1 DEF Connect, GoDown, CloseEvent, StartFinalize, LedgerKeeps
  <2>3. Untouched'
    BY <1>4, <2>1 DEF Connect, GoDown, CloseEvent, StartFinalize, LedgerKeeps
  <2>4. Owned'
    <3>1. /\ UNCHANGED dbVars
          /\ \A d \in Conns : sock'[d] # "none" => ticket[d] # "none"
      BY <1>4 DEF Connect, GoDown, CloseEvent
    <3> QED
      BY <3>1 DEF dbVars
  <2>5. InChannel'
    BY <1>4, <2>1 DEF Connect, GoDown, CloseEvent, StartFinalize, LedgerKeeps
  <2>6. Asked'
    BY <1>4, <2>1 DEF Connect, GoDown, CloseEvent, StartFinalize, LedgerKeeps
  <2> QED
    BY <2>2, <2>3, <2>4, <2>5, <2>6
<1>5. ASSUME NEW c \in Conns, Authenticate(c) \/ AdmitDenied(c) \/ Activate(c) PROVE BaseInv'
  <2>1. LedgerKeeps
    BY <1>5, LedgerFrame DEF Authenticate, AdmitDenied, Activate, LedgerStep
  <2>2. adm[c] \in {"booted", "denied"} \/ sock[c] # "none"
    BY <1>5 DEF Authenticate, MaySend, AdmitDenied, Activate
  <2>3. owner[c] \in Players
    BY <2>2
  <2>4. TypeOK'
    <3>1. CASE Authenticate(c) \/ AdmitDenied(c)
      BY <2>1, <2>2, <3>1 DEF Authenticate, AdmitDenied, LedgerKeeps
    <3>2. CASE Activate(c)
      <4>1. chan[c] \in Channels
        BY <3>2 DEF Activate
      <4>2. rooms' \in [Conns -> SUBSET Channels]
        BY <3>2, <4>1 DEF Activate
      <4> QED
        BY <2>1, <2>3, <3>2, <4>1, <4>2 DEF Activate, LedgerKeeps
    <3> QED
      BY <1>5, <3>1, <3>2
  <2>5. Untouched'
    BY <1>5, <2>1, <2>2, <2>3 DEF Authenticate, AdmitDenied, Activate, LedgerKeeps
  <2>6. Owned'
    BY <1>5, <2>1, <2>2, <2>3 DEF Authenticate, AdmitDenied, Activate, LedgerKeeps
  <2>7. InChannel'
    BY <1>5, <2>1, <2>2, <2>3 DEF Authenticate, AdmitDenied, Activate, LedgerKeeps
  <2>8. Asked'
    BY <1>5, <2>1, <2>2, <2>3 DEF Authenticate, AdmitDenied, Activate, LedgerKeeps
  <2> QED
    BY <2>4, <2>5, <2>6, <2>7, <2>8
<1>6. ASSUME NEW c \in Conns, DbAdmit(c) PROVE BaseInv'
  <2>1. LedgerKeeps
    BY <1>6, LedgerFrame DEF DbAdmit, LedgerStep
  <2>2. adm'[c] = "admitted" => chan'[c] \in Channels
    BY <1>6 DEF DbAdmit, DB!Admit, DB!Opens, DB!TypeOK
  <2>3. TypeOK'
    BY <1>6, <2>1, <2>2 DEF DbAdmit, LedgerKeeps
  <2>4. Untouched'
    BY <1>6, <2>1, <2>2 DEF DbAdmit, LedgerKeeps
  <2>5. Owned'
    BY <1>6, <2>1, <2>2 DEF DbAdmit, LedgerKeeps
  <2>6. InChannel'
    BY <1>6, <2>1, <2>2 DEF DbAdmit, LedgerKeeps
  <2>7. Asked'
    BY <1>6, <2>1, <2>2 DEF DbAdmit, LedgerKeeps
  <2> QED
    BY <2>3, <2>4, <2>5, <2>6, <2>7
<1>7. ASSUME NEW c \in Conns, AdmitReplaces(c) PROVE BaseInv'
  <2>1. LedgerKeeps
    BY <1>7, LedgerFrame DEF AdmitReplaces, LedgerStep
  <2>2. index[owner[c]] \in Conns
    BY <1>7 DEF AdmitReplaces
  <2>3. TypeOK'
    BY <1>7, <2>1, <2>2 DEF AdmitReplaces, StartFinalize, LedgerKeeps
  <2>4. Untouched'
    BY <1>7, <2>2 DEF AdmitReplaces, StartFinalize
  <2>5. Owned'
    BY <1>7 DEF AdmitReplaces, dbVars
  <2>6. InChannel' /\ Asked'
    BY <1>7 DEF AdmitReplaces, dbVars
  <2> QED
    BY <2>3, <2>4, <2>5, <2>6
<1>8. ASSUME NEW c \in Conns, AdmitJoins(c) PROVE BaseInv'
  <2> DEFINE r == IF adm[c] = "admitted" THEN index[owner[c]] ELSE waitFor[c]
  <2>1. LedgerKeeps
    BY <1>8, LedgerFrame DEF AdmitJoins, LedgerStep
  <2>2. owner[c] \in Players /\ r \in Conns \cup {NoConn} /\ chan[c] \in Channels
    BY <1>8 DEF AdmitJoins
  <2>3. /\ sock' = IF r = NoConn THEN sock ELSE Closing(r)
        /\ waitFor' = [waitFor EXCEPT ![c] = NoConn]
        /\ UNCHANGED <<dbVars, active, index, shown, rooms, fin, sw, swTo, reval>>
        /\ adm[c] \in {"admitted", "replacing"}
        /\ \/ /\ adm' = [adm EXCEPT ![c] = "booting"]
              /\ member' = [member EXCEPT ![owner[c]] = chan[c]]
           \/ adm' = [adm EXCEPT ![c] = "undoing"] /\ UNCHANGED member
    BY <1>8 DEF AdmitJoins
  <2>4. /\ sock' \in [Conns -> {"none", "open", "closing", "closed"}]
        /\ \A d \in Conns : sock'[d] = "none" <=> sock[d] = "none"
    BY <2>2, <2>3
  <2>5. TypeOK'
    <3>1. member' \in [Players -> Channels \cup {NoChannel}]
      BY <2>2, <2>3
    <3>2. adm' \in [Conns -> {"idle", "calling", "lost", "admitted", "denied", "replacing",
                             "booting", "booted", "undoing", "done", "dead"}]
      BY <2>3
    <3> QED
      BY <2>1, <2>3, <2>4, <3>1, <3>2 DEF LedgerKeeps
  <2>6. Untouched'
    BY <2>1, <2>2, <2>3, <2>4 DEF dbVars, LedgerKeeps
  <2>7. Owned'
    BY <2>1, <2>2, <2>3, <2>4 DEF dbVars, LedgerKeeps
  <2>8. InChannel'
    BY <2>1, <2>2, <2>3, <2>4 DEF dbVars, LedgerKeeps
  <2>9. Asked'
    BY <2>1, <2>2, <2>3, <2>4 DEF dbVars, LedgerKeeps
  <2> QED
    BY <2>5, <2>6, <2>7, <2>8, <2>9
<1>9. ASSUME NEW c \in Conns, Bootstrap(c) \/ UndoAdmission(c) PROVE BaseInv'
  <2>1. LedgerKeeps
    BY <1>9, LedgerFrame DEF Bootstrap, UndoAdmission, LedgerStep
  <2>2. owner[c] \in Players
    BY <1>9 DEF Bootstrap, UndoAdmission
  <2>3. TypeOK'
    BY <1>9, <2>1, <2>2 DEF Bootstrap, UndoAdmission, LedgerKeeps
  <2>4. Untouched'
    BY <1>9, <2>1, <2>2 DEF Bootstrap, UndoAdmission, LedgerKeeps
  <2>5. Owned'
    <3>1. \A d \in Conns : sock'[d] # "none" => sock[d] # "none"
      BY <1>9 DEF Bootstrap, UndoAdmission
    <3> QED
      BY <2>1, <3>1 DEF LedgerKeeps
  <2>6. InChannel'
    BY <1>9, <2>1, <2>2 DEF Bootstrap, UndoAdmission, LedgerKeeps
  <2>7. Asked'
    BY <1>9, <2>1, <2>2 DEF Bootstrap, UndoAdmission, LedgerKeeps
  <2> QED
    BY <2>3, <2>4, <2>5, <2>6, <2>7
<1>10. ASSUME NEW c \in Conns, FinalizeLeaves(c) \/ FinalizeCloses(c) PROVE BaseInv'
  <2>1. LedgerKeeps
    BY <1>10, LedgerFrame DEF FinalizeLeaves, FinalizeCloses, LedgerStep
  <2>2. owner[c] \in Players
    BY <1>10 DEF FinalizeLeaves, FinalizeCloses
  <2>3. CASE FinalizeLeaves(c)
    BY <2>1, <2>2, <2>3 DEF FinalizeLeaves, LedgerKeeps
  <2>4. CASE FinalizeCloses(c)
    BY <2>1, <2>4 DEF FinalizeCloses, LedgerKeeps
  <2> QED
    BY <1>10, <2>3, <2>4
<1>11. ASSUME NEW c \in Conns, RevalidateSteps(c) \/ Checkpoint(c) PROVE BaseInv'
  <2>1. LedgerKeeps
    BY <1>11, LedgerFrame
    DEF RevalidateSteps, Revalidate, DbRevalidate, RevalidateAnswered, Checkpoint, LedgerStep
  <2>2. /\ reval' \in [Conns -> {"idle", "calling", "active", "denied"}]
        /\ sock' \in [Conns -> {"none", "open", "closing", "closed"}]
        /\ \A d \in Conns : sock'[d] = "none" <=> sock[d] = "none"
        /\ UNCHANGED <<adm, waitFor, memVars, fin, sw, swTo>>
    <3>1. sock' = sock \/ sock' = Closing(c)
      BY <1>11 DEF RevalidateSteps, Revalidate, DbRevalidate, RevalidateAnswered, Checkpoint
    <3>2. UNCHANGED <<adm, waitFor, memVars, fin, sw, swTo>>
      BY <1>11 DEF RevalidateSteps, Revalidate, DbRevalidate, RevalidateAnswered, Checkpoint
    <3>3. \/ reval' = reval
          \/ \E to \in {"idle", "calling", "active", "denied"} :
                reval' = [reval EXCEPT ![c] = to]
      BY <1>11 DEF RevalidateSteps, Revalidate, DbRevalidate, RevalidateAnswered, Checkpoint
    <3>4. reval' \in [Conns -> {"idle", "calling", "active", "denied"}]
      BY <3>3
    <3>5. /\ sock' \in [Conns -> {"none", "open", "closing", "closed"}]
          /\ \A d \in Conns : sock'[d] = "none" <=> sock[d] = "none"
      BY <3>1 DEF Closing
    <3> QED
      BY <3>2, <3>4, <3>5
  <2>3. TypeOK'
    BY <2>1, <2>2 DEF LedgerKeeps
  <2>4. Untouched' /\ InChannel' /\ Asked'
    BY <2>1, <2>2 DEF LedgerKeeps
  <2>5. Owned'
    BY <2>1, <2>2 DEF LedgerKeeps
  <2> QED
    BY <2>3, <2>4, <2>5
<1>12. ASSUME NEW c \in Conns, NEW s \in Slots, NEW ch \in Channels, RequestSwitch(c, s, ch)
       PROVE  BaseInv'
  <2>1. LedgerKeeps
    BY <1>12, LedgerFrame DEF RequestSwitch, LedgerStep
  <2> QED
    BY <1>12, <2>1 DEF RequestSwitch, LedgerKeeps
<1>13. ASSUME NEW c \in Conns, NEW s \in Slots, DbSwitch(c, s) PROVE BaseInv'
  <2>1. swTo[c][s] \in Channels
    BY <1>13 DEF DbSwitch
  <2>2. LedgerKeeps
    BY <1>13, <2>1, LedgerFrame DEF DbSwitch, LedgerStep
  <2>3. /\ \E answer \in {"switched", "refused", "closed"} : sw' = [sw EXCEPT ![c][s] = answer]
        /\ sw[c][s] = "calling"
        /\ UNCHANGED <<sock, adm, waitFor, memVars, fin, swTo, reval>>
    BY <1>13 DEF DbSwitch
  <2>4. TypeOK'
    BY <2>1, <2>2, <2>3 DEF LedgerKeeps
  <2>5. Untouched'
    BY <2>1, <2>2, <2>3 DEF LedgerKeeps
  <2>6. Owned'
    BY <2>1, <2>2, <2>3 DEF LedgerKeeps
  <2>7. InChannel'
    BY <2>1, <2>2, <2>3 DEF LedgerKeeps
  <2>8. Asked'
    BY <2>1, <2>2, <2>3 DEF LedgerKeeps
  <2> QED
    BY <2>4, <2>5, <2>6, <2>7, <2>8
<1>14. ASSUME NEW c \in Conns, NEW s \in Slots, ApplySwitch(c, s) PROVE BaseInv'
  <2>1. swTo[c][s] \in Channels
    BY <1>14 DEF ApplySwitch
  <2>2. LedgerKeeps
    BY <1>14, LedgerFrame DEF ApplySwitch, LedgerStep
  <2>3. TypeOK'
    <3>1. owner[c] \in Players \cup {NoPlayer} /\ swTo[c][s] \in Channels
      BY <2>1 DEF DB!TypeOK
    <3>2. /\ member' \in [Players -> Channels \cup {NoChannel}]
          /\ rooms' \in [Conns -> SUBSET Channels]
      <4>1. /\ rooms[c] \ {shown[c]} \in SUBSET Channels
            /\ (rooms[c] \ {shown[c]}) \cup {swTo[c][s]} \in SUBSET Channels
        BY <3>1
      <4> QED
        BY <1>14, <3>1, <4>1 DEF ApplySwitch
    <3>3. /\ sock' \in [Conns -> {"none", "open", "closing", "closed"}]
          /\ shown' \in [Conns -> Channels \cup {NoChannel}]
      BY <1>14, <3>1 DEF ApplySwitch
    <3> QED
      BY <1>14, <2>2, <3>2, <3>3 DEF ApplySwitch, LedgerKeeps
  <2>4. Untouched'
    BY <1>14, <2>1, <2>2 DEF ApplySwitch, LedgerKeeps
  <2>5. Owned'
    BY <1>14, <2>1, <2>2 DEF ApplySwitch, LedgerKeeps
  <2>6. InChannel'
    BY <1>14, <2>1, <2>2 DEF ApplySwitch, LedgerKeeps
  <2>7. Asked'
    BY <1>14, <2>1, <2>2 DEF ApplySwitch, LedgerKeeps
  <2> QED
    BY <2>3, <2>4, <2>5, <2>6, <2>7
<1>15. ASSUME NEW c \in Conns, NEW s \in Slots, SwitchRefused(c, s) PROVE BaseInv'
  <2>1. LedgerKeeps
    BY <1>15, LedgerFrame DEF SwitchRefused, LedgerStep
  <2> QED
    BY <1>15, <2>1 DEF SwitchRefused, LedgerKeeps
<1>16. CASE Crash
  <2>1. DB!TypeOK'
    BY <1>16 DEF Crash, dbVars, DB!TypeOK
  <2>2. adm' \in [Conns -> {"idle", "lost", "dead"}]
    BY <1>16 DEF Crash
  <2>3. \A c \in Conns : sock'[c] = "none" => sock[c] = "none" /\ adm'[c] = "idle" /\ fin'[c] = "no"
    BY <1>16 DEF Crash
  <2> QED
    BY <1>16, <2>1, <2>2, <2>3 DEF Crash, dbVars
<1> QED
  BY <1>1, <1>2, <1>3, <1>4, <1>5, <1>6, <1>7, <1>8, <1>9, <1>10, <1>11, <1>12, <1>13,
     <1>14, <1>15, <1>16
  DEF Next, Client, AdmitSteps, FinalizeSteps, SwitchSteps

(* Whatever the server and its clients do, the ledger sees one of its      *)
(* functions or nothing.                                                   *)
LEMMA ServerSteps ==
    ASSUME BaseInv, Next
    PROVE  \/ \E c \in Conns : LedgerStep(c)
           \/ \E p \in Players : DB!Revoke(p) \/ DB!Restore(p)
           \/ UNCHANGED dbVars
<1>2. ASSUME NEW c \in Conns, Client(c) PROVE LedgerStep(c)
  BY <1>2 DEF Client, LedgerStep, RequestTicket, ReceiveTicket, ExpireTicket, Connect, GoDown,
     Authenticate, RequestSwitch
<1>3. ASSUME NEW c \in Conns, AdmitSteps(c) PROVE LedgerStep(c)
  BY <1>3 DEF AdmitSteps, LedgerStep, DbAdmit, AdmitDenied, AdmitReplaces, AdmitJoins,
     Bootstrap, Activate, UndoAdmission
<1>4. ASSUME NEW c \in Conns, FinalizeSteps(c) \/ RevalidateSteps(c) \/ Checkpoint(c) \/ Age(c)
      PROVE  LedgerStep(c)
  BY <1>4 DEF FinalizeSteps, LedgerStep, CloseEvent, FinalizeLeaves, FinalizeCloses,
     RevalidateSteps, Revalidate, DbRevalidate, RevalidateAnswered, Checkpoint, Age
<1>5. ASSUME NEW c \in Conns, SwitchSteps(c) PROVE LedgerStep(c)
  <2>1. PICK s \in Slots : DbSwitch(c, s) \/ ApplySwitch(c, s) \/ SwitchRefused(c, s)
    BY <1>5 DEF SwitchSteps
  <2>2. sw[c][s] = "calling" => swTo[c][s] \in Channels
    BY DEF BaseInv, Asked
  <2> QED
    BY <2>1, <2>2 DEF LedgerStep, DbSwitch, ApplySwitch, SwitchRefused
<1>6. ASSUME (\E p \in Players : ChangeAccess(p)) \/ Crash
      PROVE  (\E p \in Players : DB!Revoke(p) \/ DB!Restore(p)) \/ UNCHANGED dbVars
  BY <1>6 DEF ChangeAccess, Crash
<1> QED
  BY <1>2, <1>3, <1>4, <1>5, <1>6 DEF Next

(* The variables keep their types, and a connection acts for one player    *)
(* from the moment its socket is accepted.                                 *)
THEOREM PresenceTypeCorrect == Spec => []BaseInv
<1>1. ASSUME BaseInv, UNCHANGED vars PROVE BaseInv'
  BY <1>1 DEF BaseInv, TypeOK, DB!TypeOK, Untouched, Owned, InChannel, Asked, vars,
     dbVars, memVars
<1>2. BaseInv /\ [Next]_vars => BaseInv'
  BY <1>1, BaseStep
<1> QED
  BY BaseInit, <1>2, PTL DEF Spec
-----------------------------------------------------------------------------
(* A connection that was accepted keeps its player.                        *)
LEMMA OwnersStay ==
    ASSUME BaseInv, Next, NEW d \in Conns, sock[d] # "none"
    PROVE  owner'[d] = owner[d]
<1>1. DB!TypeOK /\ ticket[d] # "none"
  BY DEF BaseInv, TypeOK, Owned
<1>2. (\E p \in Players : DB!Revoke(p) \/ DB!Restore(p)) \/ UNCHANGED dbVars => owner' = owner
  BY DEF DB!Revoke, DB!Restore, dbVars
<1> QED
  BY <1>1, <1>2, ServerSteps, LedgerFrame DEF LedgerKeeps

(* The steps that leave the maps, the finalizations and the occupants of   *)
(* the world alone.                                                        *)
Quiet ==
    /\ UNCHANGED <<active, index, member, fin>>
    /\ \A d \in Conns : \/ adm'[d] = adm[d]
                        \/ /\ adm[d] \notin {"booting", "booted", "done", "dead"}
                           /\ adm'[d] \notin {"booting", "booted"}

(* The steps that do not.                                                  *)
LEMMA Effects ==
    ASSUME BaseInv, Next
    PROVE  \/ \E c \in Conns : \/ AdmitReplaces(c) \/ AdmitJoins(c) \/ Bootstrap(c)
                               \/ Activate(c) \/ CloseEvent(c)
                               \/ FinalizeLeaves(c) \/ FinalizeCloses(c)
           \/ \E c \in Conns, s \in Slots : ApplySwitch(c, s)
           \/ Crash
           \/ Quiet
<1>1. adm \in [Conns -> {"idle", "calling", "lost", "admitted", "denied", "replacing",
                        "booting", "booted", "undoing", "done", "dead"}]
  BY DEF BaseInv, TypeOK
<1>2. ASSUME NEW c \in Conns,
             \/ (\E p \in Players : RequestTicket(c, p)) \/ ReceiveTicket(c)
             \/ ExpireTicket(c) \/ Age(c) \/ Connect(c) \/ GoDown(c) \/ RevalidateSteps(c)
             \/ Checkpoint(c)
             \/ \E s \in Slots : \/ \E ch \in Channels : RequestSwitch(c, s, ch)
                                 \/ DbSwitch(c, s) \/ SwitchRefused(c, s)
      PROVE  Quiet
  BY <1>2 DEF Quiet, memVars, RequestTicket, ReceiveTicket, ExpireTicket, Age, Connect, GoDown,
     RevalidateSteps, Revalidate, DbRevalidate, RevalidateAnswered, Checkpoint, RequestSwitch,
     DbSwitch, SwitchRefused
<1>3. ASSUME NEW c \in Conns, Authenticate(c) \/ DbAdmit(c) \/ AdmitDenied(c) \/ UndoAdmission(c)
      PROVE  Quiet
  BY <1>1, <1>3 DEF Quiet, memVars, Authenticate, DbAdmit, AdmitDenied, UndoAdmission
<1>4. ASSUME NEW p \in Players, ChangeAccess(p) PROVE Quiet
  BY <1>4 DEF Quiet, memVars, ChangeAccess
<1> QED
  BY <1>2, <1>3, <1>4 DEF Next, Client, AdmitSteps, FinalizeSteps, SwitchSteps
-----------------------------------------------------------------------------
(* An entry of connectionByPresence is written by the connection that      *)
(* becomes active, and cleared by that connection's finalization.          *)
LEMMA IndexSoundStep ==
    ASSUME BaseInv, IndexSound, Next
    PROVE  IndexSound'
<1> SUFFICES ASSUME NEW p \in Players, index'[p] # NoConn
             PROVE  /\ owner'[index'[p]] = p
                    /\ index'[p] \in active' \/ fin'[index'[p]] = "running"
  BY DEF IndexSound
<1> DEFINE r == index[p]
<1>1. /\ r # NoConn => /\ r \in Conns /\ owner[r] = p /\ sock[r] # "none"
                       /\ r \in active \/ fin[r] = "running"
      /\ TypeOK
  BY DEF BaseInv, TypeOK, IndexSound, Untouched
<1>2. r # NoConn => owner'[r] = p
  BY <1>1, OwnersStay
<1>3. ASSUME NEW c \in Conns,
             AdmitReplaces(c) \/ AdmitJoins(c) \/ Bootstrap(c) \/ CloseEvent(c) \/ FinalizeCloses(c)
      PROVE  /\ index'[p] = r
             /\ (r \in active \/ fin[r] = "running") => (r \in active' \/ fin'[r] = "running")
  BY <1>1, <1>3 DEF TypeOK, AdmitReplaces, AdmitJoins, Bootstrap, CloseEvent, FinalizeCloses,
     StartFinalize, memVars
<1>4. ASSUME NEW c \in Conns, Activate(c)
      PROVE  index'[p] = IF owner[c] = p THEN c ELSE r
  BY <1>1, <1>4 DEF Activate, TypeOK
<1>5. ASSUME NEW c \in Conns, Activate(c)
      PROVE  c \in active' /\ owner'[c] = owner[c] /\ active \subseteq active' /\ fin' = fin
  BY <1>5, OwnersStay DEF Activate, BaseInv, Untouched
<1>6. ASSUME NEW c \in Conns, FinalizeLeaves(c)
      PROVE  index'[p] = r /\ r # c /\ active' = active /\ (fin[r] = "running" => fin'[r] = "running")
  BY <1>1, <1>6 DEF FinalizeLeaves, TypeOK
<1>7. CASE Crash
  BY <1>7 DEF Crash
<1>8. ASSUME NEW c \in Conns, NEW s \in Slots, ApplySwitch(c, s)
      PROVE  UNCHANGED <<index, active, fin>>
  BY <1>8 DEF ApplySwitch
<1> QED
  BY <1>1, <1>2, <1>3, <1>4, <1>5, <1>6, <1>7, <1>8, Effects DEF Quiet

(* Broadcasts, trade offers and replacements are routed through            *)
(* connectionByPresence: what it names is always a connection of that      *)
(* player whose finalization has not left the world yet.                   *)
THEOREM IndexIsSound == Spec => []IndexSound
<1>1. Init => IndexSound
  BY DEF Init, IndexSound
<1>2. IndexSound /\ BaseInv /\ [Next]_vars => IndexSound'
  <2>1. ASSUME IndexSound, UNCHANGED vars PROVE IndexSound'
    BY <2>1 DEF IndexSound, vars, dbVars, memVars
  <2> QED
    BY <2>1, IndexSoundStep
<1> QED
  BY <1>1, <1>2, PresenceTypeCorrect, PTL DEF Spec
-----------------------------------------------------------------------------
(* What stands in the world: a presence is in a channel exactly as long as *)
(* one connection of its player occupies it, and that connection is the    *)
(* one the index finds once it is active.                                  *)
WorldInv == PresenceOwned /\ OneOccupant /\ IndexComplete

(* Without switches, every step of an admission, a replacement or a        *)
(* finalization keeps it so.                                               *)
LEMMA WorldStep ==
    ASSUME Slots = {}, BaseInv, WorldInv, Next
    PROVE  WorldInv'
<1> USE DEF WorldInv
<1>1. TypeOK /\ Occupants \subseteq Conns /\ \A d \in Conns : d \in Occupants => sock[d] # "none" /\ owner[d] \in Players
  BY DEF BaseInv, Untouched, Owned, Occupants
<1>2. \A d \in Conns : d \in Occupants => owner'[d] = owner[d]
  BY <1>1, OwnersStay
<1>3. ASSUME UNCHANGED <<active, index, member>>,
             Occupants' = Occupants,
             \A d \in Conns : adm[d] \in {"done", "dead"} => adm'[d] = adm[d],
             \A d \in Conns : \/ fin'[d] = fin[d]
                              \/ fin[d] = "closing" /\ fin'[d] = "done"
      PROVE  WorldInv'
  <2>1. PresenceOwned'
    BY <1>1, <1>2, <1>3 DEF PresenceOwned, Occupants
  <2>2. \A d \in Conns : (d \in active' \/ fin'[d] = "running") =>
                              (d \in active \/ fin[d] = "running") /\ d \in Occupants
    BY <1>3 DEF Occupants
  <2>3. OneOccupant'
    <3>1. \A d \in Conns : d \in Occupants' => d \in Occupants /\ owner'[d] = owner[d]
      BY <1>2, <1>3
    <3>2. \A d \in Conns : d \in Occupants' => member'[owner'[d]] # NoChannel
      BY <1>3, <3>1 DEF OneOccupant
    <3>3. \A d \in Conns : /\ d \in active' => adm'[d] = "done" /\ fin'[d] = "no"
                           /\ fin'[d] # "no" => adm'[d] \in {"done", "dead"}
      BY <1>3 DEF OneOccupant
    <3>4. \A d, e \in Conns : (d \in Occupants' /\ e \in Occupants' /\ owner'[d] = owner'[e]) => d = e
      BY <3>1 DEF OneOccupant
    <3> QED
      BY <3>2, <3>3, <3>4 DEF OneOccupant, Occupants
  <2>4. IndexComplete'
    BY <1>2, <1>3, <2>2 DEF IndexComplete
  <2> QED
    BY <2>1, <2>3, <2>4
<1>4. CASE Quiet
  <2>1. Occupants' = Occupants
    BY <1>4 DEF Quiet, Occupants
  <2> QED
    BY <1>3, <1>4, <2>1 DEF Quiet, Occupants
<1>5. ASSUME NEW c \in Conns, FinalizeCloses(c) PROVE WorldInv'
  <2>1. fin[c] = "closing" /\ fin' = [fin EXCEPT ![c] = "done"] /\ UNCHANGED <<adm, memVars>>
    BY <1>5 DEF FinalizeCloses
  <2>2. c \notin active
    BY <2>1 DEF OneOccupant
  <2>3. Occupants' = Occupants
    BY <1>1, <2>1 DEF Occupants, TypeOK, memVars
  <2> QED
    BY <1>1, <1>3, <2>1, <2>3 DEF TypeOK, memVars
(* The start of a finalization.                                            *)
<1>6. ASSUME NEW c \in Conns, c \in active, active' = active \ {c},
             fin' = [fin EXCEPT ![c] = "running"], UNCHANGED <<index, member>>,
             \A d \in Conns : adm'[d] = adm[d] \/ (adm[d] = "admitted" /\ adm'[d] = "replacing")
      PROVE  WorldInv'
  <2>1. Occupants' = Occupants
    BY <1>1, <1>6 DEF Occupants, TypeOK
  <2>2. PresenceOwned'
    BY <1>2, <1>6, <2>1 DEF PresenceOwned, Occupants
  <2>3. OneOccupant'
    BY <1>1, <1>2, <1>6, <2>1 DEF OneOccupant, Occupants, TypeOK
  <2>4. IndexComplete'
    BY <1>1, <1>2, <1>6, <2>1 DEF IndexComplete, Occupants, TypeOK
  <2> QED
    BY <2>2, <2>3, <2>4
<1>7. ASSUME NEW c \in Conns, AdmitReplaces(c) PROVE WorldInv'
  <2>1. index[owner[c]] \in active /\ active \subseteq Conns
    BY <1>1, <1>7 DEF AdmitReplaces, TypeOK
  <2> QED
    BY <1>1, <1>6, <1>7, <2>1 DEF AdmitReplaces, StartFinalize, TypeOK
<1>8. ASSUME NEW c \in Conns, CloseEvent(c) PROVE WorldInv'
  <2>1. CASE c \in active
    BY <1>6, <1>8, <2>1 DEF CloseEvent, StartFinalize
  <2>2. CASE c \notin active
    <3>1. UNCHANGED <<active, index, member, adm, fin>>
      BY <1>8, <2>2 DEF CloseEvent
    <3>2. Occupants' = Occupants
      BY <3>1 DEF Occupants
    <3> QED
      BY <1>3, <3>1, <3>2
  <2> QED
    BY <2>1, <2>2
(* Joining: nobody stood there for the player.                             *)
<1>9. ASSUME NEW c \in Conns, AdmitJoins(c) PROVE WorldInv'
  <2>1. /\ adm[c] \in {"admitted", "replacing"} /\ c \notin Occupants /\ owner[c] \in Players
        /\ owner'[c] = owner[c]
    BY <1>9, OwnersStay DEF AdmitJoins, BaseInv, Untouched, Owned, OneOccupant, Occupants
  <2>2. CASE UNCHANGED member /\ adm' = [adm EXCEPT ![c] = "undoing"]
    <3>1. Occupants' = Occupants
      BY <1>1, <1>9, <2>1, <2>2 DEF AdmitJoins, Occupants, TypeOK
    <3>2. \A d \in Conns : adm[d] \in {"done", "dead"} => adm'[d] = adm[d]
      BY <1>1, <2>1, <2>2 DEF TypeOK
    <3> QED
      BY <1>3, <1>9, <2>2, <3>1, <3>2 DEF AdmitJoins
  <2>3. CASE /\ CanJoin(owner[c], chan[c])
             /\ member' = [member EXCEPT ![owner[c]] = chan[c]]
             /\ adm' = [adm EXCEPT ![c] = "booting"]
    <3>1. /\ member'[owner[c]] # NoChannel
          /\ \A d \in Conns : d \in Occupants => owner[d] # owner[c]
          /\ UNCHANGED <<active, index, fin>>
      BY <1>1, <1>9, <2>1, <2>3, ServerAssumption
      DEF CanJoin, AdmitJoins, BaseInv, InChannel, OneOccupant, TypeOK
    <3>2. \A d \in Conns : d \in Occupants' <=> (d \in Occupants \/ d = c)
      BY <1>1, <2>1, <2>3, <3>1 DEF Occupants, TypeOK
    <3>3. PresenceOwned'
      BY <1>1, <1>2, <2>1, <2>3, <3>2 DEF PresenceOwned, TypeOK
    <3>4. OneOccupant'
      BY <1>1, <1>2, <2>1, <2>3, <3>1, <3>2 DEF OneOccupant, Occupants, TypeOK
    <3>5. IndexComplete'
      BY <1>2, <3>1 DEF IndexComplete, Occupants
    <3> QED
      BY <3>3, <3>4, <3>5
  <2> QED
    BY <1>9, <2>2, <2>3 DEF AdmitJoins
(* Leaving, by presence id: nobody else stood there.                       *)
<1>10. ASSUME NEW c \in Conns, c \in Occupants, c \notin Occupants',
              member' = [member EXCEPT ![owner[c]] = NoChannel],
              index' = index \/ index' = [index EXCEPT ![owner[c]] = NoConn],
              active' = active,
              \A d \in Conns \ {c} : adm'[d] = adm[d] /\ fin'[d] = fin[d],
              c \notin active,
              fin'[c] # "no" => adm'[c] \in {"done", "dead"}
       PROVE  WorldInv'
  <2>1. \A d \in Conns : d \in Occupants' => d \in Occupants /\ d # c /\ owner[d] # owner[c]
    BY <1>10 DEF OneOccupant, Occupants
  <2>2. \A p \in Players : member'[p] # NoChannel => p # owner[c] /\ member[p] # NoChannel
    BY <1>1, <1>10 DEF TypeOK
  <2>3. \A d \in Conns \ {c} : d \in Occupants' <=> d \in Occupants
    BY <1>10 DEF Occupants
  <2>4. PresenceOwned'
    BY <1>2, <2>2, <2>3 DEF PresenceOwned, Occupants
  <2>5. OneOccupant'
    <3>1. \A d \in Conns : d \in Occupants' => member'[owner'[d]] # NoChannel
      BY <1>1, <1>2, <1>10, <2>1 DEF OneOccupant, TypeOK
    <3>2. \A d, e \in Conns : (d \in Occupants' /\ e \in Occupants' /\ owner'[d] = owner'[e]) => d = e
      BY <1>2, <2>1 DEF OneOccupant
    <3>3. \A d \in Conns : /\ d \in active' => adm'[d] = "done" /\ fin'[d] = "no"
                           /\ fin'[d] # "no" => adm'[d] \in {"done", "dead"}
      BY <1>10 DEF OneOccupant
    <3> QED
      BY <3>1, <3>2, <3>3 DEF OneOccupant, Occupants
  <2>6. IndexComplete'
    BY <1>1, <1>2, <1>10, <2>1 DEF IndexComplete, Occupants, TypeOK
  <2> QED
    BY <2>4, <2>5, <2>6
<1>11. ASSUME NEW c \in Conns, FinalizeLeaves(c) PROVE WorldInv'
  <2>1. fin[c] = "running" /\ c \notin active /\ adm[c] \in {"done", "dead"}
    BY <1>11 DEF FinalizeLeaves, OneOccupant
  <2>2. c \in Occupants /\ c \notin Occupants'
    BY <1>1, <1>11, <2>1 DEF FinalizeLeaves, Occupants, TypeOK
  <2> QED
    BY <1>1, <1>10, <1>11, <2>1, <2>2 DEF FinalizeLeaves, TypeOK
<1>12. ASSUME NEW c \in Conns, Bootstrap(c) PROVE WorldInv'
  <2>1. adm[c] = "booting" /\ c \notin active /\ fin[c] # "running" /\ c \in Occupants
    BY <1>12 DEF Bootstrap, OneOccupant, Occupants
  <2>2. CASE adm' = [adm EXCEPT ![c] = "booted"] /\ UNCHANGED member
    <3>1. UNCHANGED <<active, index, member, fin>>
      BY <1>12, <2>2 DEF Bootstrap
    <3>2. Occupants' = Occupants
      BY <1>1, <2>1, <2>2, <3>1 DEF Occupants, TypeOK
    <3>3. \A d \in Conns : adm[d] \in {"done", "dead"} => adm'[d] = adm[d]
      BY <1>1, <2>1, <2>2 DEF TypeOK
    <3> QED
      BY <1>3, <3>1, <3>2, <3>3
  <2>3. CASE /\ adm' = [adm EXCEPT ![c] = "undoing"]
             /\ member' = [member EXCEPT ![owner[c]] = NoChannel]
    <3>1. c \notin Occupants'
      BY <1>1, <1>12, <2>1, <2>3 DEF Bootstrap, Occupants, TypeOK
    <3>2. UNCHANGED <<active, index, fin>>
      BY <1>12 DEF Bootstrap
    <3>3. /\ \A d \in Conns \ {c} : adm'[d] = adm[d] /\ fin'[d] = fin[d]
          /\ fin'[c] = "no"
      BY <1>1, <2>1, <2>3, <3>2 DEF OneOccupant, TypeOK
    <3> QED
      BY <1>10, <2>1, <2>3, <3>1, <3>2, <3>3
  <2> QED
    BY <1>12, <2>2, <2>3 DEF Bootstrap
(* Becoming active: the index is the player's only occupant.               *)
<1>13. ASSUME NEW c \in Conns, Activate(c) PROVE WorldInv'
  <2>1. adm[c] = "booted" /\ c \in Occupants /\ fin[c] # "running" /\ owner[c] \in Players
    BY <1>1, <1>13 DEF Activate, OneOccupant, Occupants
  <2>2. fin[c] = "no"
    BY <2>1 DEF OneOccupant
  <2>3. /\ active' = active \cup {c} /\ index' = [index EXCEPT ![owner[c]] = c]
        /\ adm' = [adm EXCEPT ![c] = "done"] /\ UNCHANGED <<member, fin>>
    BY <1>13 DEF Activate
  <2>4. Occupants' = Occupants
    BY <1>1, <2>1, <2>3 DEF Occupants, TypeOK
  <2>5. PresenceOwned'
    BY <1>2, <2>3, <2>4 DEF PresenceOwned, Occupants
  <2>6. OneOccupant'
    <3>1. \A d \in Conns : d \in Occupants' => member'[owner'[d]] # NoChannel
      BY <1>2, <2>3, <2>4 DEF OneOccupant
    <3>2. \A d, e \in Conns : (d \in Occupants' /\ e \in Occupants' /\ owner'[d] = owner'[e]) => d = e
      BY <1>2, <2>4 DEF OneOccupant
    <3>3. \A d \in Conns : /\ d \in active' => adm'[d] = "done" /\ fin'[d] = "no"
                           /\ fin'[d] # "no" => adm'[d] \in {"done", "dead"}
      BY <1>1, <2>1, <2>2, <2>3 DEF OneOccupant, TypeOK
    <3> HIDE DEF WorldInv
    <3> QED
      BY <3>1, <3>2, <3>3 DEF OneOccupant, Occupants
  <2>7. IndexComplete'
    <3> SUFFICES ASSUME NEW d \in Conns, d \in active' \/ fin'[d] = "running"
                 PROVE  index'[owner'[d]] = d
      BY DEF IndexComplete
    <3>1. d \in Occupants /\ owner'[d] = owner[d] /\ owner[d] \in Players
      BY <1>1, <1>2, <2>1, <2>3 DEF Occupants
    <3>2. CASE d = c
      BY <1>1, <2>1, <2>3, <3>1, <3>2 DEF TypeOK
    <3>3. CASE d # c
      <4>1. owner[d] # owner[c] /\ index[owner[d]] = d
        BY <2>1, <2>3, <3>1, <3>3 DEF OneOccupant, IndexComplete
      <4> QED
        BY <1>1, <2>1, <2>3, <3>1, <4>1 DEF TypeOK
    <3> QED
      BY <3>2, <3>3
  <2> QED
    BY <2>5, <2>6, <2>7
<1>14. CASE Crash
  <2>1. /\ active' = {} /\ member' = [p \in Players |-> NoChannel]
        /\ fin' = [c \in Conns |-> IF fin[c] = "no" THEN "no" ELSE "done"]
    BY <1>14 DEF Crash
  <2>2. \A c \in Conns : /\ adm'[c] \in {"idle", "lost", "dead"}
                         /\ fin'[c] # "no" => adm'[c] = "dead"
    BY <1>1, <1>14 DEF Crash, OneOccupant, BaseInv, Untouched
  <2>3. \A c \in Conns : c \notin Occupants' /\ fin'[c] # "running"
    BY <2>1, <2>2 DEF Occupants
  <2> QED
    BY <2>1, <2>2, <2>3 DEF PresenceOwned, OneOccupant, IndexComplete
<1> QED
  BY <1>4, <1>5, <1>7, <1>8, <1>9, <1>11, <1>12, <1>13, <1>14, Effects

(* One finalization at a time, and one active connection, per player: the  *)
(* guards of admit() and finalize() are enough to keep the world's         *)
(* invariant although both await calls in between.                         *)
THEOREM WorldIsOwned ==
    ASSUME Slots = {}
    PROVE  Spec => []WorldInv
<1>1. Init => WorldInv
  BY DEF Init, WorldInv, PresenceOwned, OneOccupant, IndexComplete, Occupants
<1>2. WorldInv /\ BaseInv /\ [Next]_vars => WorldInv'
  <2>1. ASSUME WorldInv, UNCHANGED vars PROVE WorldInv'
    BY <2>1 DEF WorldInv, PresenceOwned, OneOccupant, IndexComplete, Occupants, vars, dbVars,
       memVars
  <2> QED
    BY <2>1, WorldStep
<1> QED
  BY <1>1, <1>2, PresenceTypeCorrect, PTL DEF Spec

(* A presence in a channel always has a connection that will take it out,  *)
(* as long as no switch_channel message is sent.                           *)
THEOREM PresenceIsOwned ==
    ASSUME Slots = {}
    PROVE  Spec => []PresenceOwned
<1>1. WorldInv => PresenceOwned
  BY DEF WorldInv
<1> QED
  BY <1>1, WorldIsOwned, PTL

(* ... and an active connection is the one its player's presence id finds, *)
(* so that no player has two of them.                                      *)
THEOREM IndexIsComplete ==
    ASSUME Slots = {}
    PROVE  Spec => []IndexComplete
<1>1. WorldInv => IndexComplete
  BY DEF WorldInv
<1> QED
  BY <1>1, WorldIsOwned, PTL
-----------------------------------------------------------------------------
(* Sessions.  A connection is finalized once, after it was active.         *)
SessionInv ==
    /\ SessionOwned
    /\ \A c \in Conns : /\ adm[c] # "lost"
                        /\ c \in active => adm[c] = "done" /\ fin[c] = "no"
                        /\ fin[c] # "no" => adm[c] = "done"

(* The admission opens a session; whoever drops one has closed it.         *)
LEMMA SessionStep ==
    ASSUME Faults = {}, MayCrash = FALSE, BaseInv, SessionInv, Next
    PROVE  SessionInv'
<1> USE DEF SessionInv, memVars
<1>0. TypeOK
  BY DEF BaseInv
<1>1. CASE /\ UNCHANGED <<adm, active, fin>>
           /\ \A d \in Conns : status'[d] = "active" => status[d] = "active"
  BY <1>1 DEF SessionOwned
<1>2. ASSUME NEW c \in Conns,
             \/ (\E p \in Players : RequestTicket(c, p)) \/ ReceiveTicket(c) \/ ExpireTicket(c)
             \/ Age(c) \/ Connect(c) \/ GoDown(c)
      PROVE  SessionInv'
  BY <1>1, <1>2 DEF RequestTicket, ReceiveTicket, ExpireTicket, Age, Connect, GoDown, dbVars,
     DB!IssueBegin, DB!IssueCommit, DB!ExpireTicket, DB!AgeSession
<1>3. ASSUME NEW p \in Players, ChangeAccess(p) PROVE SessionInv'
  BY <1>1, <1>3 DEF ChangeAccess, DB!Revoke, DB!Restore
<1>4. ASSUME NEW c \in Conns, RevalidateSteps(c) \/ Checkpoint(c) PROVE SessionInv'
  BY <1>1, <1>4
  DEF RevalidateSteps, Revalidate, DbRevalidate, RevalidateAnswered, Checkpoint, DB!Heartbeat, dbVars
<1>5. ASSUME NEW c \in Conns, SwitchSteps(c) \/ \E s \in Slots, ch \in Channels : RequestSwitch(c, s, ch)
      PROVE  SessionInv'
  BY <1>1, <1>5 DEF SwitchSteps, RequestSwitch, DbSwitch, ApplySwitch, SwitchRefused,
     DB!SwitchChannel, DB!Moves, dbVars
<1>6. ASSUME NEW c \in Conns, Authenticate(c) PROVE SessionInv'
  BY <1>0, <1>6 DEF Authenticate, SessionOwned, TypeOK, dbVars
(* The start of a finalization.                                            *)
<1>7. ASSUME NEW r \in Conns, r \in active, StartFinalize(r), UNCHANGED status,
             \A d \in Conns : adm'[d] = adm[d] \/ (adm[d] = "admitted" /\ adm'[d] = "replacing")
      PROVE  SessionInv'
  BY <1>0, <1>7 DEF StartFinalize, SessionOwned, TypeOK
<1>8. ASSUME NEW c \in Conns, CloseEvent(c) PROVE SessionInv'
  BY <1>1, <1>7, <1>8 DEF CloseEvent, dbVars
<1>9. ASSUME NEW c \in Conns, DbAdmit(c) PROVE SessionInv'
  <2>1. adm[c] = "calling" /\ UNCHANGED <<active, fin>>
    BY <1>9 DEF DbAdmit
  <2>2. \/ /\ adm' = [adm EXCEPT ![c] = "admitted"]
           /\ \A d \in Conns \ {c} : status'[d] = "active" => status[d] = "active"
        \/ adm' = [adm EXCEPT ![c] = "denied"] /\ UNCHANGED status
    BY <1>9, <2>1 DEF DbAdmit, DB!Admit, DB!Opens, dbVars
  <2>3. CASE adm' = [adm EXCEPT ![c] = "denied"] /\ UNCHANGED status
    BY <1>0, <2>1, <2>3 DEF SessionOwned, TypeOK
  <2>4. CASE /\ adm' = [adm EXCEPT ![c] = "admitted"]
             /\ \A d \in Conns \ {c} : status'[d] = "active" => status[d] = "active"
    BY <1>0, <2>1, <2>4 DEF SessionOwned, TypeOK
  <2> QED
    BY <2>2, <2>3, <2>4
<1>10. ASSUME NEW c \in Conns, AdmitReplaces(c) PROVE SessionInv'
  <2>1. /\ index[owner[c]] \in Conns /\ index[owner[c]] \in active
        /\ adm[c] = "admitted" /\ adm' = [adm EXCEPT ![c] = "replacing"]
        /\ StartFinalize(index[owner[c]]) /\ UNCHANGED status
    BY <1>0, <1>10 DEF AdmitReplaces, TypeOK, dbVars
  <2> QED
    BY <1>0, <1>7, <2>1 DEF TypeOK
(* The rest of an admission hands the session on.                          *)
<1>11. ASSUME NEW c \in Conns, AdmitJoins(c) \/ Bootstrap(c) PROVE SessionInv'
  <2>1. /\ adm[c] \in {"admitted", "replacing", "booting"} /\ UNCHANGED <<active, fin, status>>
        /\ \E a \in {"booting", "booted", "undoing"} : adm' = [adm EXCEPT ![c] = a]
    BY <1>11 DEF AdmitJoins, Bootstrap, dbVars
  <2> QED
    BY <1>0, <2>1 DEF SessionOwned, TypeOK
<1>12. ASSUME NEW c \in Conns, Activate(c) PROVE SessionInv'
  BY <1>0, <1>12 DEF Activate, SessionOwned, TypeOK, dbVars
<1>13. ASSUME NEW c \in Conns, AdmitDenied(c) \/ UndoAdmission(c) PROVE SessionInv'
  <2>1. /\ adm[c] \in {"denied", "undoing"} /\ adm' = [adm EXCEPT ![c] = "dead"]
        /\ UNCHANGED <<active, fin>>
    BY <1>13 DEF AdmitDenied, UndoAdmission
  <2>2. \A d \in Conns : status'[d] = "active" => status[d] = "active" /\ d # c
    <3>1. CASE AdmitDenied(c)
      BY <1>0, <3>1 DEF AdmitDenied, SessionOwned, dbVars, TypeOK
    <3>2. CASE UndoAdmission(c)
      BY <1>0, <3>2 DEF UndoAdmission, DB!CloseSession, dbVars, TypeOK, DB!TypeOK
    <3> QED
      BY <1>13, <3>1, <3>2
  <2> QED
    BY <1>0, <2>1, <2>2 DEF SessionOwned, TypeOK
<1>14. ASSUME NEW c \in Conns, FinalizeLeaves(c) PROVE SessionInv'
  BY <1>0, <1>14 DEF FinalizeLeaves, SessionOwned, TypeOK, dbVars
<1>15. ASSUME NEW c \in Conns, FinalizeCloses(c) PROVE SessionInv'
  <2>1. /\ fin[c] = "closing" /\ fin' = [fin EXCEPT ![c] = "done"] /\ UNCHANGED <<adm, active>>
    BY <1>15 DEF FinalizeCloses
  <2>2. \A d \in Conns : status'[d] = "active" => status[d] = "active" /\ d # c
    BY <1>0, <1>15 DEF FinalizeCloses, DB!CloseSession, dbVars, TypeOK, DB!TypeOK
  <2> QED
    BY <1>0, <2>1, <2>2 DEF SessionOwned, TypeOK
<1> QED
  BY <1>2, <1>3, <1>4, <1>5, <1>6, <1>8, <1>9, <1>10, <1>11, <1>12, <1>13, <1>14, <1>15
  DEF Next, Client, AdmitSteps, FinalizeSteps, Crash

(* SessionOwned, however players leave, replace themselves or switch and   *)
(* however many switches a socket has in flight: as long as the process    *)
(* lives and its calls work, no path of admission, replacement or          *)
(* finalization drops a session that is still open.                        *)
THEOREM SessionsAreOwned ==
    ASSUME Faults = {}, MayCrash = FALSE
    PROVE  Spec => []SessionOwned
<1>1. Init => SessionInv
  BY DEF Init, SessionInv, SessionOwned, DB!Init
<1>2. SessionInv /\ BaseInv /\ [Next]_vars => SessionInv'
  <2>1. ASSUME SessionInv, UNCHANGED vars PROVE SessionInv'
    BY <2>1 DEF SessionInv, SessionOwned, vars, dbVars, memVars
  <2> QED
    BY <2>1, SessionStep
<1>3. SessionInv => SessionOwned
  BY DEF SessionInv
<1> QED
  BY <1>1, <1>2, <1>3, PresenceTypeCorrect, PTL DEF Spec
-----------------------------------------------------------------------------
(* Where a connection is shown.  One that was never active, or no longer   *)
(* belongs to the process, is in no room and asks for nothing; one that    *)
(* lives is shown in its session's channel, or has the answer that says    *)
(* where it is now.                                                        *)
Idles(c) == c \notin active /\ rooms[c] = {} /\ \A s \in Slots : sw[c][s] = "idle"

Shows(c) ==
    /\ (\A s \in Slots : sw[c][s] # "switched") => shown[c] = chan[c] /\ rooms[c] \subseteq {chan[c]}
    /\ \A s \in Slots : sw[c][s] = "switched" =>
          chan[c] = swTo[c][s] /\ rooms[c] \subseteq {shown[c]}

ShownInv ==
    \A c \in Conns : /\ adm[c] # "done" => Idles(c)
                     /\ c \in active /\ status[c] = "active" => Shows(c)

(* The steps that neither show a connection elsewhere nor move a session.  *)
Unmoved ==
    /\ active' \subseteq active
    /\ UNCHANGED <<chan, shown, sw, swTo>>
    /\ \A d \in Conns : /\ status'[d] = "active" => status[d] = "active"
                        /\ rooms'[d] \subseteq rooms[d]
                        /\ adm'[d] # "done" => adm[d] # "done"

LEMMA UnmovedKeeps == ASSUME ShownInv, Unmoved PROVE ShownInv'
<1>1. ASSUME NEW d \in Conns, Idles(d) PROVE Idles(d)'
  <2>1. rooms'[d] = {}
    BY <1>1 DEF Unmoved, Idles
  <2> QED
    BY <1>1, <2>1 DEF Unmoved, Idles
<1>2. ASSUME NEW d \in Conns, Shows(d) PROVE Shows(d)'
  <2>1. /\ shown' = shown /\ chan' = chan /\ sw' = sw /\ swTo' = swTo
        /\ rooms'[d] \subseteq rooms[d]
    BY DEF Unmoved
  <2> QED
    BY <1>2, <2>1 DEF Shows
<1> SUFFICES ASSUME NEW d \in Conns
             PROVE  /\ adm'[d] # "done" => Idles(d)'
                    /\ d \in active' /\ status'[d] = "active" => Shows(d)'
  BY DEF ShownInv
<1>3. /\ adm'[d] # "done" => adm[d] # "done"
      /\ d \in active' /\ status'[d] = "active" => d \in active /\ status[d] = "active"
  BY DEF Unmoved
<1> QED
  BY <1>1, <1>2, <1>3 DEF ShownInv

LEMMA UnmovedSteps ==
    ASSUME BaseInv, Next
    PROVE  \/ Unmoved \/ Crash
           \/ \E c \in Conns : DbAdmit(c) \/ Activate(c)
           \/ \E c \in Conns, s \in Slots :
                 \/ \E ch \in Channels : RequestSwitch(c, s, ch)
                 \/ DbSwitch(c, s) \/ ApplySwitch(c, s) \/ SwitchRefused(c, s)
<1> USE DEF Unmoved, dbVars, memVars
<1>0. TypeOK
  BY DEF BaseInv
<1>1. ASSUME NEW c \in Conns,
             \/ (\E p \in Players : RequestTicket(c, p)) \/ ReceiveTicket(c) \/ ExpireTicket(c)
             \/ Age(c) \/ Connect(c) \/ GoDown(c)
      PROVE  Unmoved
  BY <1>1 DEF RequestTicket, ReceiveTicket, ExpireTicket, Age, Connect, GoDown,
     DB!IssueBegin, DB!IssueCommit, DB!ExpireTicket, DB!AgeSession
<1>2. ASSUME NEW p \in Players, ChangeAccess(p) PROVE Unmoved
  BY <1>2 DEF ChangeAccess, DB!Revoke, DB!Restore
<1>3. ASSUME NEW c \in Conns, RevalidateSteps(c) \/ Checkpoint(c) PROVE Unmoved
  BY <1>3 DEF RevalidateSteps, Revalidate, DbRevalidate, RevalidateAnswered, Checkpoint, DB!Heartbeat
<1>4. ASSUME NEW c \in Conns, CloseEvent(c) \/ AdmitReplaces(c) PROVE Unmoved
  BY <1>0, <1>4 DEF CloseEvent, AdmitReplaces, StartFinalize, TypeOK
<1>5. ASSUME NEW c \in Conns, Authenticate(c) \/ AdmitDenied(c) \/ AdmitJoins(c) \/ Bootstrap(c)
      PROVE  Unmoved
  <2>1. adm[c] # "done" /\ \E a : adm' = [adm EXCEPT ![c] = a]
    BY <1>5 DEF Authenticate, AdmitDenied, AdmitJoins, Bootstrap
  <2>2. \A d \in Conns : adm'[d] # "done" => adm[d] # "done"
    BY <1>0, <2>1 DEF TypeOK
  <2> QED
    BY <1>5, <2>2 DEF Authenticate, AdmitDenied, AdmitJoins, Bootstrap
<1>6. ASSUME NEW c \in Conns, UndoAdmission(c) PROVE Unmoved
  <2>1. adm[c] # "done" /\ adm' = [adm EXCEPT ![c] = "dead"]
    BY <1>6 DEF UndoAdmission
  <2>2. \A d \in Conns : adm'[d] # "done" => adm[d] # "done"
    BY <1>0, <2>1 DEF TypeOK
  <2>3. chan' = chan /\ \A d \in Conns : status'[d] = "active" => status[d] = "active"
    BY <1>0, <1>6 DEF UndoAdmission, DB!CloseSession, TypeOK, DB!TypeOK
  <2> QED
    BY <1>6, <2>2, <2>3 DEF UndoAdmission
<1>7. ASSUME NEW c \in Conns, FinalizeLeaves(c) PROVE Unmoved
  <2>1. \A d \in Conns : rooms'[d] \subseteq rooms[d]
    BY <1>0, <1>7 DEF FinalizeLeaves, TypeOK
  <2> QED
    BY <1>7, <2>1 DEF FinalizeLeaves
<1>8. ASSUME NEW c \in Conns, FinalizeCloses(c) PROVE Unmoved
  <2>1. chan' = chan /\ \A d \in Conns : status'[d] = "active" => status[d] = "active"
    BY <1>0, <1>8 DEF FinalizeCloses, DB!CloseSession, TypeOK, DB!TypeOK
  <2> QED
    BY <1>8, <2>1 DEF FinalizeCloses
<1> QED
  BY <1>1, <1>2, <1>3, <1>4, <1>5, <1>6, <1>7, <1>8
  DEF Next, Client, AdmitSteps, FinalizeSteps, SwitchSteps

(* A switch moves the session when it is executed and the connection when  *)
(* it is answered; in between the answer says where.                       *)
LEMMA ShownStep ==
    ASSUME \A s, t \in Slots : s = t, "unanswered" \notin Faults, BaseInv, ShownInv, Next
    PROVE  ShownInv'
<1>0. TypeOK /\ DB!TypeOK
  BY DEF BaseInv, TypeOK
<1>1. CASE Unmoved
  BY <1>1, UnmovedKeeps
<1>2. CASE Crash
  <2>1. \A c \in Conns : Idles(c)' /\ c \notin active'
    BY <1>2 DEF Crash, Idles
  <2> QED
    BY <2>1 DEF ShownInv
(* A step of c alone: the others neither move nor are shown elsewhere.     *)
<1> DEFINE Others(c) ==
        \A d \in Conns \ {c} :
            /\ adm'[d] = adm[d] /\ (d \in active' <=> d \in active)
            /\ status'[d] = "active" => status[d] = "active"
            /\ chan'[d] = chan[d] /\ shown'[d] = shown[d] /\ rooms'[d] = rooms[d]
            /\ sw'[d] = sw[d] /\ swTo'[d] = swTo[d]
<1>3. ASSUME NEW c \in Conns, Others(c), adm'[c] # "done" => Idles(c)',
             c \in active' /\ status'[c] = "active" => Shows(c)'
      PROVE  ShownInv'
  <2> SUFFICES ASSUME NEW d \in Conns, d # c
               PROVE  /\ adm'[d] # "done" => Idles(d)'
                      /\ d \in active' /\ status'[d] = "active" => Shows(d)'
    BY <1>3 DEF ShownInv
  <2>1. /\ adm'[d] = adm[d] /\ (d \in active' <=> d \in active)
        /\ status'[d] = "active" => status[d] = "active"
        /\ chan'[d] = chan[d] /\ shown'[d] = shown[d] /\ rooms'[d] = rooms[d]
        /\ sw'[d] = sw[d] /\ swTo'[d] = swTo[d]
    BY <1>3
  <2>2. Idles(d) => Idles(d)'
    BY <2>1 DEF Idles
  <2>3. Shows(d) => Shows(d)'
    BY <2>1 DEF Shows
  <2> QED
    BY <2>1, <2>2, <2>3 DEF ShownInv
<1>4. ASSUME NEW c \in Conns, DbAdmit(c) PROVE ShownInv'
  <2>1. adm[c] \in {"calling", "lost"} /\ adm'[c] # "done"
    BY <1>0, <1>4 DEF DbAdmit, TypeOK
  <2>2. UNCHANGED <<active, shown, rooms, sw, swTo>>
    BY <1>4 DEF DbAdmit, memVars
  <2>3. \A d \in Conns \ {c} : /\ chan'[d] = chan[d] /\ adm'[d] = adm[d]
                               /\ status'[d] = "active" => status[d] = "active"
    BY <1>0, <1>4 DEF DbAdmit, DB!Admit, DB!Opens, dbVars, TypeOK, DB!TypeOK
  <2>4. Idles(c) /\ c \notin active
    BY <2>1 DEF ShownInv, Idles
  <2>5. Idles(c)' /\ c \notin active'
    BY <2>2, <2>4 DEF Idles
  <2> QED
    BY <1>3, <2>2, <2>3, <2>5
<1>5. ASSUME NEW c \in Conns, Activate(c) PROVE ShownInv'
  <2>1. /\ adm[c] = "booted" /\ adm'[c] = "done" /\ shown'[c] = chan[c]
        /\ rooms'[c] = rooms[c] \cup {chan[c]} /\ UNCHANGED <<chan, status, sw, swTo>>
    BY <1>0, <1>5 DEF Activate, TypeOK, dbVars
  <2>2. \A d \in Conns \ {c} : /\ adm'[d] = adm[d] /\ (d \in active' <=> d \in active)
                               /\ shown'[d] = shown[d] /\ rooms'[d] = rooms[d]
    BY <1>0, <1>5 DEF Activate, TypeOK
  <2>3. Idles(c)
    BY <2>1 DEF ShownInv
  <2>4. Shows(c)'
    BY <2>1, <2>3 DEF Idles, Shows
  <2> QED
    BY <1>3, <2>1, <2>2, <2>4
<1>6. ASSUME NEW c \in Conns, NEW s \in Slots, NEW ch \in Channels, RequestSwitch(c, s, ch)
      PROVE  ShownInv'
  <2>1. /\ c \in active /\ sw[c][s] = "idle"
        /\ UNCHANGED <<adm, active, status, chan, shown, rooms>>
        /\ sw' = [sw EXCEPT ![c][s] = "calling"] /\ swTo' = [swTo EXCEPT ![c][s] = ch]
    BY <1>6 DEF RequestSwitch, dbVars, memVars
  <2>2. /\ \A d \in Conns \ {c} : sw'[d] = sw[d] /\ swTo'[d] = swTo[d]
        /\ \A t \in Slots : sw'[c][t] = "calling" /\ sw[c][t] = "idle"
    BY <1>0, <2>1 DEF TypeOK
  <2>3. adm[c] = "done"
    BY <2>1 DEF ShownInv, Idles
  <2>4. Shows(c) => Shows(c)'
    BY <2>1, <2>2 DEF Shows
  <2> QED
    BY <1>3, <2>1, <2>2, <2>3, <2>4 DEF ShownInv
<1>7. ASSUME NEW c \in Conns, NEW s \in Slots, DbSwitch(c, s) PROVE ShownInv'
  <2>1. /\ sw[c][s] = "calling"
        /\ UNCHANGED <<adm, active, status, shown, rooms, swTo>>
    BY <1>7 DEF DbSwitch, DB!SwitchChannel, DB!Moves, dbVars, memVars
  <2>2. adm[c] = "done" /\ \A t \in Slots : t = s
    BY <2>1 DEF ShownInv, Idles
  <2>3. ASSUME NEW answer \in {"refused", "closed"}, sw' = [sw EXCEPT ![c][s] = answer],
               chan' = chan
        PROVE  ShownInv'
    <3>1. /\ \A d \in Conns \ {c} : sw'[d] = sw[d]
          /\ sw'[c][s] = answer
      BY <1>0, <2>3 DEF TypeOK
    <3>2. Shows(c) => Shows(c)'
      BY <2>1, <2>2, <2>3, <3>1 DEF Shows
    <3> QED
      BY <1>3, <2>1, <2>2, <2>3, <3>1, <3>2 DEF ShownInv
  <2>4. ASSUME DB!SwitchChannel(c, swTo[c][s]), sw' = [sw EXCEPT ![c][s] = "switched"]
        PROVE  ShownInv'
    <3>1. /\ \A d \in Conns \ {c} : sw'[d] = sw[d] /\ chan'[d] = chan[d]
          /\ sw'[c][s] = "switched" /\ chan'[c] = swTo[c][s] /\ status[c] = "active"
      BY <1>0, <2>4 DEF TypeOK, DB!TypeOK, DB!SwitchChannel, DB!Moves
    <3>2. Shows(c) => Shows(c)'
      BY <2>1, <2>2, <3>1 DEF Shows
    <3> QED
      BY <1>3, <2>1, <2>2, <3>1, <3>2 DEF ShownInv
  <2> QED
    BY <1>7, <2>3, <2>4 DEF DbSwitch, dbVars
<1>8. ASSUME NEW c \in Conns, NEW s \in Slots, ApplySwitch(c, s) PROVE ShownInv'
  <2>1. /\ sw[c][s] = "switched" /\ UNCHANGED <<adm, active, status, chan>>
        /\ shown' = [shown EXCEPT ![c] = swTo[c][s]]
        /\ \/ rooms' = [rooms EXCEPT ![c] = (@ \ {shown[c]}) \cup {swTo[c][s]}]
           \/ rooms' = [rooms EXCEPT ![c] = @ \ {shown[c]}]
        /\ sw' = [sw EXCEPT ![c][s] = "idle"] /\ swTo' = [swTo EXCEPT ![c][s] = NoChannel]
    BY <1>8 DEF ApplySwitch, dbVars
  <2>2. adm[c] = "done" /\ \A t \in Slots : t = s
    BY <2>1 DEF ShownInv, Idles
  <2>3. /\ \A d \in Conns \ {c} : /\ sw'[d] = sw[d] /\ swTo'[d] = swTo[d]
                                  /\ shown'[d] = shown[d] /\ rooms'[d] = rooms[d]
        /\ sw'[c][s] = "idle" /\ shown'[c] = swTo[c][s]
        /\ rooms'[c] \subseteq (rooms[c] \ {shown[c]}) \cup {swTo[c][s]}
    BY <1>0, <2>1 DEF TypeOK
  <2>4. Shows(c) => Shows(c)'
    BY <2>1, <2>2, <2>3 DEF Shows
  <2> QED
    BY <1>3, <2>1, <2>2, <2>3, <2>4 DEF ShownInv
<1>9. ASSUME NEW c \in Conns, NEW s \in Slots, SwitchRefused(c, s) PROVE ShownInv'
  <2>1. /\ sw[c][s] \in {"refused", "closed"}
        /\ UNCHANGED <<adm, active, status, chan, shown, rooms>>
        /\ sw' = [sw EXCEPT ![c][s] = "idle"] /\ swTo' = [swTo EXCEPT ![c][s] = NoChannel]
    BY <1>9 DEF SwitchRefused, dbVars, memVars
  <2>2. adm[c] = "done" /\ \A t \in Slots : t = s
    BY <2>1 DEF ShownInv, Idles
  <2>3. /\ \A d \in Conns \ {c} : sw'[d] = sw[d] /\ swTo'[d] = swTo[d]
        /\ sw'[c][s] = "idle"
    BY <1>0, <2>1 DEF TypeOK
  <2>4. Shows(c) => Shows(c)'
    BY <2>1, <2>2, <2>3 DEF Shows
  <2> QED
    BY <1>3, <2>1, <2>2, <2>3, <2>4 DEF ShownInv
<1> QED
  BY <1>1, <1>2, <1>4, <1>5, <1>6, <1>7, <1>8, <1>9, UnmovedSteps

(* ShownWhereItIs, for any number of players and connections, any channel  *)
(* capacity and any failing of a join or of a call that never ran: one     *)
(* switch at a time leaves a live connection shown in the channel of its   *)
(* session and in no other channel's room, whatever finalizes or replaces  *)
(* it meanwhile.                                                           *)
THEOREM SwitchesShowTheWay ==
    ASSUME \A s, t \in Slots : s = t, "unanswered" \notin Faults
    PROVE  Spec => []ShownWhereItIs
<1>1. Init => ShownInv
  BY DEF Init, ShownInv, Idles
<1>2. ShownInv /\ BaseInv /\ [Next]_vars => ShownInv'
  <2>1. ASSUME ShownInv, UNCHANGED vars PROVE ShownInv'
    BY <2>1 DEF ShownInv, Idles, Shows, vars, dbVars, memVars
  <2> QED
    BY <2>1, ShownStep
<1>3. ShownInv => ShownWhereItIs
  BY DEF ShownInv, Shows, ShownWhereItIs
<1> QED
  BY <1>1, <1>2, <1>3, PresenceTypeCorrect, PTL DEF Spec
=============================================================================
