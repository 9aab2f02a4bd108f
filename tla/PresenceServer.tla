--------------------------- MODULE PresenceServer ---------------------------
(***************************************************************************)
(* The /connect side of apps/realtime-server/src/app.ts: admission,        *)
(* replacement, channel switch, revalidation and finalization of realtime  *)
(* connections, with the maps they share (activeByConnection,              *)
(* connectionByPresence, ChannelAuthority, RoomRegistry) and the database  *)
(* they call.  JavaScript runs one continuation at a time, so an action is *)
(* the code between two awaits; a database call is issued, executed and    *)
(* answered in separate steps, except where nothing reads its answer.      *)
(***************************************************************************)
EXTENDS Integers, FiniteSets

CONSTANTS Conns, Players, Channels, Capacity, NoConn, NoPlayer, NoChannel,
          Limit,      \* connectionLimit of the process
          Slots,      \* switch_channel messages one socket may have in flight
          Faults,     \* how a call of the database may fail: "unsent" (it never
                      \* ran) or "unanswered" (it ran, its answer is lost)
          MayCrash,   \* may the process die and be started again?
          MayAge,     \* may a heartbeat be later than 30 seconds?
          MayRevalidate \* does the reconciliation timer revalidate?

ASSUME ServerAssumption ==
    /\ Capacity \in Nat \ {0} /\ Limit \in Nat \ {0}
    /\ NoConn \notin Conns /\ NoPlayer \notin Players /\ NoChannel \notin Channels
    /\ Faults \subseteq {"unsent", "unanswered"}
    /\ MayCrash \in BOOLEAN /\ MayAge \in BOOLEAN /\ MayRevalidate \in BOOLEAN

VARIABLES
    ticket, owner, status, holder, chan, fresh, source, allowed, \* the database
    sock,    \* the WebSocket of a connection
    adm,     \* where its admit() stands
    waitFor, \* the connection admit() awaits the finalization of
    active,  \* the keys of activeByConnection
    index,   \* connectionByPresence: a player's public presence id is unique
    member,  \* ChannelAuthority: the channel a presence is in
    shown,   \* connection.presence.channelId
    rooms,   \* RoomRegistry: the rooms a connection is in
    fin,     \* where its finalize() stands
    sw,      \* the switch_channel requests of a connection, by slot
    swTo,    \* and the channel each asks for
    reval    \* its revalidation call, and the answer that is on its way

dbVars == <<ticket, owner, status, holder, chan, fresh, source, allowed>>
memVars == <<active, index, member, shown, rooms>>
vars == <<dbVars, sock, adm, waitFor, memVars, fin, sw, swTo, reval>>

(* A client asks for a fresh ticket for each connection it opens, so the   *)
(* ticket of a connection carries its name.                                *)
DB == INSTANCE SessionLedger WITH Tickets <- Conns, NoTicket <- NoConn

TypeOK ==
    /\ DB!TypeOK
    /\ sock \in [Conns -> {"none", "open", "closing", "closed"}]
    /\ adm \in [Conns -> {"idle", "calling", "lost", "admitted", "denied", "replacing",
                          "booting", "booted", "undoing", "done", "dead"}]
    /\ waitFor \in [Conns -> Conns \cup {NoConn}]
    /\ active \in SUBSET Conns
    /\ index \in [Players -> Conns \cup {NoConn}]
    /\ member \in [Players -> Channels \cup {NoChannel}]
    /\ shown \in [Conns -> Channels \cup {NoChannel}]
    /\ rooms \in [Conns -> SUBSET Channels]
    /\ fin \in [Conns -> {"no", "running", "closing", "done"}]
    /\ sw \in [Conns -> [Slots -> {"idle", "calling", "switched", "refused", "closed"}]]
    /\ swTo \in [Conns -> [Slots -> Channels \cup {NoChannel}]]
    /\ reval \in [Conns -> {"idle", "calling", "active", "denied"}]

Init ==
    /\ DB!Init
    /\ sock = [c \in Conns |-> "none"]
    /\ adm = [c \in Conns |-> "idle"]
    /\ waitFor = [c \in Conns |-> NoConn]
    /\ active = {}
    /\ index = [p \in Players |-> NoConn]
    /\ member = [p \in Players |-> NoChannel]
    /\ shown = [c \in Conns |-> NoChannel]
    /\ rooms = [c \in Conns |-> {}]
    /\ fin = [c \in Conns |-> "no"]
    /\ sw = [c \in Conns |-> [s \in Slots |-> "idle"]]
    /\ swTo = [c \in Conns |-> [s \in Slots |-> NoChannel]]
    /\ reval = [c \in Conns |-> "idle"]

(* The sockets ConnectionRegistry counts: registered until their close     *)
(* event is handled.                                                       *)
Registered == {c \in Conns : sock[c] \in {"open", "closing"}}

(* socket.close(): no effect on a socket that is closing or closed. *)
Closing(c) == IF sock[c] = "open" THEN [sock EXCEPT ![c] = "closing"] ELSE sock

MembersOf(ch) == {p \in Players : member[p] = ch}

(* Faulty variant of the next definition: a presence may join twice. *)
CanJoinTwice(p, ch) == Cardinality(MembersOf(ch)) < Capacity

(* ChannelAuthority.join: refused to a presence that is already present    *)
(* and when the channel is full.                                           *)
CanJoin(p, ch) == member[p] = NoChannel /\ Cardinality(MembersOf(ch)) < Capacity

(* What was sent before a socket closes is still handled until its 'close' *)
(* event.                                                                  *)
MaySend(c) == sock[c] \in {"open", "closing"}

(* The start of finalize(): whoever removes the connection from            *)
(* activeByConnection runs it, once.                                       *)
StartFinalize(c) ==
    /\ active' = active \ {c}
    /\ fin' = [fin EXCEPT ![c] = "running"]
-----------------------------------------------------------------------------
(* The ticket request of the client, and the API's answer. *)
RequestTicket(c, p) ==
    /\ sock[c] = "none"
    /\ DB!IssueBegin(c, p)
    /\ UNCHANGED <<sock, adm, waitFor, memVars, fin, sw, swTo, reval>>

ReceiveTicket(c) ==
    /\ DB!IssueCommit(c)
    /\ UNCHANGED <<sock, adm, waitFor, memVars, fin, sw, swTo, reval>>

ExpireTicket(c) ==
    /\ DB!ExpireTicket(c)
    /\ UNCHANGED <<sock, adm, waitFor, memVars, fin, sw, swTo, reval>>

ChangeAccess(p) ==
    /\ DB!Revoke(p) \/ DB!Restore(p)
    /\ UNCHANGED <<sock, adm, waitFor, memVars, fin, sw, swTo, reval>>

Age(c) ==
    /\ MayAge
    /\ DB!AgeSession(c)
    /\ UNCHANGED <<sock, adm, waitFor, memVars, fin, sw, swTo, reval>>

(* The /connect handler registers the socket or closes it with 1013. *)
Connect(c) ==
    /\ sock[c] = "none" /\ ticket[c] \in {"open", "void"}
    /\ sock' = [sock EXCEPT ![c] = IF Cardinality(Registered) < Limit THEN "open" ELSE "closed"]
    /\ UNCHANGED <<dbVars, adm, waitFor, memVars, fin, sw, swTo, reval>>

(* The peer leaves, the network fails, or a timer closes the socket: the   *)
(* authentication timer, which admission does not stop, as long as the     *)
(* connection is not active, and the idle timer once it is.  So a socket   *)
(* may go down at any moment, whatever is in flight for it.                *)
GoDown(c) ==
    /\ sock[c] = "open"
    /\ sock' = Closing(c)
    /\ UNCHANGED <<dbVars, adm, waitFor, memVars, fin, sw, swTo, reval>>

(* The 'close' event: finalize what is active NOW, release the slot. *)
CloseEvent(c) ==
    /\ sock[c] = "closing"
    /\ sock' = [sock EXCEPT ![c] = "closed"]
    /\ IF c \in active THEN StartFinalize(c) ELSE UNCHANGED <<active, fin>>
    /\ UNCHANGED <<dbVars, adm, waitFor, index, member, shown, rooms, sw, swTo, reval>>

(* The 'authenticate' message of a connection that is not admitted. *)
Authenticate(c) ==
    /\ adm[c] = "idle" /\ MaySend(c)
    /\ adm' = [adm EXCEPT ![c] = "calling"]
    /\ UNCHANGED <<dbVars, sock, waitFor, memVars, fin, sw, swTo, reval>>

(* admit_player_realtime_ticket executes; its answer is on its way.  A     *)
(* call of a process that has died may still be executed.                  *)
DbAdmit(c) ==
    /\ adm[c] \in {"calling", "lost"}
    /\ \/ /\ owner[c] \in allowed
          /\ \E ch \in Channels : DB!Admit(c, c, ch, DB!ActiveOf(owner[c]))
          /\ \/ adm' = [adm EXCEPT ![c] = IF adm[c] = "calling" THEN "admitted" ELSE "dead"]
             \/ /\ "unanswered" \in Faults /\ adm[c] = "calling"
                /\ adm' = [adm EXCEPT ![c] = "denied"]
       \/ /\ \/ ticket[c] # "open" \/ owner[c] \notin allowed
             \/ \E ch \in Channels : ~DB!HasRoom(ch)
             \/ "unsent" \in Faults
          /\ adm' = [adm EXCEPT ![c] = IF adm[c] = "calling" THEN "denied" ELSE "dead"]
          /\ UNCHANGED dbVars
    /\ UNCHANGED <<sock, waitFor, memVars, fin, sw, swTo, reval>>

(* A denial, or an error of the call, closes the socket. *)
AdmitDenied(c) ==
    /\ adm[c] = "denied"
    /\ adm' = [adm EXCEPT ![c] = "dead"]
    /\ sock' = Closing(c)
    /\ UNCHANGED <<dbVars, waitFor, memVars, fin, sw, swTo, reval>>

(* The presence is still indexed to a connection that is active: admit()   *)
(* awaits the whole of its finalization.                                   *)
AdmitReplaces(c) ==
    LET r == index[owner[c]] IN
    /\ adm[c] = "admitted"
    /\ r # NoConn /\ r \in active
    /\ adm' = [adm EXCEPT ![c] = "replacing"]
    /\ waitFor' = [waitFor EXCEPT ![c] = r]
    /\ StartFinalize(r)
    /\ UNCHANGED <<dbVars, sock, index, member, shown, rooms, sw, swTo, reval>>

(* Nothing to replace, or a connection whose finalization somebody else    *)
(* runs (finalize() returns at once then), or the awaited finalization is  *)
(* over: close the old socket and join the channel.                        *)
AdmitJoins(c) ==
    LET p == owner[c]
        r == IF adm[c] = "admitted" THEN index[p] ELSE waitFor[c]
    IN
    /\ \/ adm[c] = "admitted" /\ r \notin active
       \/ adm[c] = "replacing" /\ fin[r] = "done"
    /\ sock' = IF r = NoConn THEN sock ELSE Closing(r)
    /\ waitFor' = [waitFor EXCEPT ![c] = NoConn]
    /\ IF CanJoin(p, chan[c])
       THEN /\ member' = [member EXCEPT ![p] = chan[c]]
            /\ adm' = [adm EXCEPT ![c] = "booting"]
       ELSE /\ adm' = [adm EXCEPT ![c] = "undoing"]
            /\ UNCHANGED member
    /\ UNCHANGED <<dbVars, active, index, shown, rooms, fin, sw, swTo, reval>>

(* Faulty variant: a bootstrap that fails stays in the channel.            *)
BootstrapStays(c) ==
    /\ adm[c] = "booting"
    /\ \/ /\ status[c] = "active" /\ fresh[c] /\ owner[c] \in allowed
          /\ adm' = [adm EXCEPT ![c] = "booted"]
       \/ /\ \/ ~(status[c] = "active" /\ fresh[c] /\ owner[c] \in allowed)
             \/ Faults # {}
          /\ adm' = [adm EXCEPT ![c] = "undoing"]
    /\ UNCHANGED <<dbVars, sock, waitFor, memVars, fin, sw, swTo, reval>>

(* The bootstrap calls: they raise unless the session is active, its       *)
(* heartbeat fresh and the player allowed.  Failing, admit() leaves the    *)
(* channel.                                                                *)
Bootstrap(c) ==
    /\ adm[c] = "booting"
    /\ \/ /\ status[c] = "active" /\ fresh[c] /\ owner[c] \in allowed
          /\ adm' = [adm EXCEPT ![c] = "booted"]
          /\ UNCHANGED member
       \/ /\ \/ ~(status[c] = "active" /\ fresh[c] /\ owner[c] \in allowed)
             \/ Faults # {}
          /\ adm' = [adm EXCEPT ![c] = "undoing"]
          /\ member' = [member EXCEPT ![owner[c]] = NoChannel]
    /\ UNCHANGED <<dbVars, sock, waitFor, active, index, shown, rooms, fin, sw, swTo, reval>>

(* The rest of admit(): the connection becomes active, open or not. *)
Activate(c) ==
    /\ adm[c] = "booted"
    /\ adm' = [adm EXCEPT ![c] = "done"]
    /\ active' = active \cup {c}
    /\ index' = [index EXCEPT ![owner[c]] = c]
    /\ shown' = [shown EXCEPT ![c] = chan[c]]
    /\ rooms' = [rooms EXCEPT ![c] = @ \cup {chan[c]}]
    /\ UNCHANGED <<dbVars, sock, waitFor, member, fin, sw, swTo, reval>>

(* Faulty variant: a failed admission keeps its session.                   *)
UndoSocketOnly(c) ==
    /\ adm[c] = "undoing"
    /\ adm' = [adm EXCEPT ![c] = "dead"]
    /\ sock' = Closing(c)
    /\ UNCHANGED <<dbVars, waitFor, memVars, fin, sw, swTo, reval>>

(* The session of a failed admission is closed, if that call works, and    *)
(* then the socket.                                                        *)
UndoAdmission(c) ==
    /\ adm[c] = "undoing"
    /\ \/ DB!CloseSession(c)
       \/ (status[c] # "active" \/ "unsent" \in Faults) /\ UNCHANGED dbVars
    /\ adm' = [adm EXCEPT ![c] = "dead"]
    /\ sock' = Closing(c)
    /\ UNCHANGED <<waitFor, memVars, fin, sw, swTo, reval>>
-----------------------------------------------------------------------------
(* Faulty variants of the next action: the index keeps the presence, the   *)
(* channel does.                                                           *)
LeaveIndexed(c) ==
    /\ fin[c] = "running"
    /\ fin' = [fin EXCEPT ![c] = "closing"]
    /\ member' = [member EXCEPT ![owner[c]] = NoChannel]
    /\ rooms' = [rooms EXCEPT ![c] = {}]
    /\ UNCHANGED <<dbVars, sock, adm, waitFor, active, index, shown, sw, swTo, reval>>


(* finalize() after its three disconnect calls: the presence leaves, by    *)
(* its presence id.                                                        *)
FinalizeLeaves(c) ==
    /\ fin[c] = "running"
    /\ fin' = [fin EXCEPT ![c] = "closing"]
    /\ index' = [index EXCEPT ![owner[c]] = NoConn]
    /\ member' = [member EXCEPT ![owner[c]] = NoChannel]
    /\ rooms' = [rooms EXCEPT ![c] = {}]
    /\ UNCHANGED <<dbVars, sock, adm, waitFor, active, shown, sw, swTo, reval>>

(* Faulty variant: it checkpoints the session and does not close it.       *)
FinalizeCheckpoints(c) ==
    /\ fin[c] = "closing"
    /\ fin' = [fin EXCEPT ![c] = "done"]
    /\ UNCHANGED <<dbVars, sock, adm, waitFor, memVars, sw, swTo, reval>>

(* ... and its last calls: checkpoint and close the session. *)
FinalizeCloses(c) ==
    /\ fin[c] = "closing"
    /\ fin' = [fin EXCEPT ![c] = "done"]
    /\ \/ DB!CloseSession(c)
       \/ (status[c] # "active" \/ "unsent" \in Faults) /\ UNCHANGED dbVars
    /\ UNCHANGED <<sock, adm, waitFor, memVars, sw, swTo, reval>>

(* The reconciliation timer revalidates a connection, once at a time. *)
Revalidate(c) ==
    /\ MayRevalidate /\ c \in active /\ reval[c] = "idle"
    /\ reval' = [reval EXCEPT ![c] = "calling"]
    /\ UNCHANGED <<dbVars, sock, adm, waitFor, memVars, fin, sw, swTo>>

(* revalidate_realtime_session executes; its answer is on its way.  An     *)
(* error of the call ends like a denial (one that is raised after the      *)
(* heartbeat is a Checkpoint and then a denial).                           *)
DbRevalidate(c) ==
    /\ reval[c] = "calling"
    /\ \/ /\ owner[c] \in allowed
          /\ DB!Heartbeat(c)
          /\ reval' = [reval EXCEPT ![c] = "active"]
       \/ /\ status[c] # "active" \/ owner[c] \notin allowed \/ Faults # {}
          /\ reval' = [reval EXCEPT ![c] = "denied"]
          /\ UNCHANGED dbVars
    /\ UNCHANGED <<sock, adm, waitFor, memVars, fin, sw, swTo>>

(* Faulty variant: a denial is only logged.                                *)
AnswerLogged(c) ==
    /\ reval[c] \in {"active", "denied"}
    /\ \/ /\ \/ reval[c] = "denied"
             \/ status[c] = "active" /\ fresh[c] /\ owner[c] \in allowed
          /\ UNCHANGED sock
       \/ /\ reval[c] = "active"
          /\ ~(status[c] = "active" /\ fresh[c] /\ owner[c] \in allowed)
          /\ sock' = Closing(c)
    /\ reval' = [reval EXCEPT ![c] = "idle"]
    /\ UNCHANGED <<dbVars, adm, waitFor, memVars, fin, sw, swTo>>

(* The answer is used, whatever has become of the connection meanwhile: a  *)
(* denial closes the socket, and so does a bootstrap call that fails after *)
(* an 'active' (these calls raise as in Bootstrap).                        *)
RevalidateAnswered(c) ==
    /\ reval[c] \in {"active", "denied"}
    /\ \/ /\ reval[c] = "active"
          /\ status[c] = "active" /\ fresh[c] /\ owner[c] \in allowed
          /\ UNCHANGED sock
       \/ /\ \/ reval[c] = "denied" \/ Faults # {}
             \/ ~(status[c] = "active" /\ fresh[c] /\ owner[c] \in allowed)
          /\ sock' = Closing(c)
    /\ reval' = [reval EXCEPT ![c] = "idle"]
    /\ UNCHANGED <<dbVars, adm, waitFor, memVars, fin, sw, swTo>>

(* ... and checkpoints it, which heartbeats a session that is not closed,  *)
(* without asking for the player's access.                                 *)
Checkpoint(c) ==
    /\ c \in active
    /\ DB!Heartbeat(c)
    /\ UNCHANGED <<sock, adm, waitFor, memVars, fin, sw, swTo, reval>>
-----------------------------------------------------------------------------
(* A 'switch_channel' message of an active connection; the handler has     *)
(* called checkpoint and socialDisconnect when the switch is called.       *)
RequestSwitch(c, s, ch) ==
    /\ c \in active /\ sw[c][s] = "idle" /\ MaySend(c)
    /\ sw' = [sw EXCEPT ![c][s] = "calling"]
    /\ swTo' = [swTo EXCEPT ![c][s] = ch]
    /\ UNCHANGED <<dbVars, sock, adm, waitFor, memVars, fin, reval>>

(* switch_realtime_channel executes; its answer is on its way. *)
DbSwitch(c, s) ==
    /\ sw[c][s] = "calling"
    /\ \/ /\ DB!SwitchChannel(c, swTo[c][s])
          /\ \/ sw' = [sw EXCEPT ![c][s] = "switched"]
             \/ "unanswered" \in Faults /\ sw' = [sw EXCEPT ![c][s] = "refused"]
       \/ /\ status[c] # "active"
          /\ sw' = [sw EXCEPT ![c][s] = "closed"]
          /\ UNCHANGED dbVars
       \/ /\ \/ "unsent" \in Faults
             \/ /\ status[c] = "active"
                /\ swTo[c][s] = chan[c] \/ ~DB!HasRoom(swTo[c][s])
          /\ sw' = [sw EXCEPT ![c][s] = "refused"]
          /\ UNCHANGED dbVars
    /\ UNCHANGED <<sock, adm, waitFor, memVars, fin, swTo, reval>>

(* Faulty variant of the next action: the connection keeps showing its old *)
(* channel.                                                                *)
SwitchHidden(c, s) ==
    /\ sw[c][s] = "switched"
    /\ member' = [member EXCEPT ![owner[c]] = swTo[c][s]]
    /\ rooms' = [rooms EXCEPT ![c] = (@ \ {shown[c]}) \cup {swTo[c][s]}]
    /\ sw' = [sw EXCEPT ![c][s] = "idle"]
    /\ swTo' = [swTo EXCEPT ![c][s] = NoChannel]
    /\ UNCHANGED <<dbVars, sock, adm, waitFor, active, index, shown, fin, reval>>

(* The switched answer: leave the old channel and join the new one, by     *)
(* presence id, for whatever connection the handler was called with.  A    *)
(* join that fails leaves the presence in no channel.                      *)
ApplySwitch(c, s) ==
    LET p == owner[c]
        ch == swTo[c][s]
        others == MembersOf(ch) \ {p}
    IN
    /\ sw[c][s] = "switched"
    /\ shown' = [shown EXCEPT ![c] = ch]
    /\ IF Cardinality(others) < Capacity
       THEN /\ member' = [member EXCEPT ![p] = ch]
            /\ rooms' = [rooms EXCEPT ![c] = (@ \ {shown[c]}) \cup {ch}]
            /\ UNCHANGED sock
       ELSE /\ member' = [member EXCEPT ![p] = NoChannel]
            /\ rooms' = [rooms EXCEPT ![c] = @ \ {shown[c]}]
            /\ sock' = Closing(c)
    /\ sw' = [sw EXCEPT ![c][s] = "idle"]
    /\ swTo' = [swTo EXCEPT ![c][s] = NoChannel]
    /\ UNCHANGED <<dbVars, adm, waitFor, active, index, fin, reval>>

(* Any other answer: 'closed' closes the socket, the rest is an error      *)
(* message.                                                                *)
SwitchRefused(c, s) ==
    /\ sw[c][s] \in {"refused", "closed"}
    /\ sock' = IF sw[c][s] = "closed" THEN Closing(c) ELSE sock
    /\ sw' = [sw EXCEPT ![c][s] = "idle"]
    /\ swTo' = [swTo EXCEPT ![c][s] = NoChannel]
    /\ UNCHANGED <<dbVars, adm, waitFor, memVars, fin, reval>>

(* The process dies and a new one starts with empty maps.  Its sockets are *)
(* gone; an admission call that is on its way may still be executed (a     *)
(* revalidation that is changes nothing but a heartbeat).                  *)
Crash ==
    /\ MayCrash
    /\ sock' = [c \in Conns |-> IF sock[c] = "none" THEN "none" ELSE "closed"]
    /\ adm' = [c \in Conns |-> CASE adm[c] \in {"calling", "lost"} -> "lost"
                                 [] sock[c] = "none" -> "idle"
                                 [] OTHER -> "dead"]
    /\ waitFor' = [c \in Conns |-> NoConn]
    /\ active' = {}
    /\ index' = [p \in Players |-> NoConn]
    /\ member' = [p \in Players |-> NoChannel]
    /\ shown' = [c \in Conns |-> NoChannel]
    /\ rooms' = [c \in Conns |-> {}]
    /\ fin' = [c \in Conns |-> IF fin[c] = "no" THEN "no" ELSE "done"]
    /\ sw' = [c \in Conns |-> [s \in Slots |-> "idle"]]
    /\ swTo' = [c \in Conns |-> [s \in Slots |-> NoChannel]]
    /\ reval' = [c \in Conns |-> "idle"]
    /\ UNCHANGED dbVars
-----------------------------------------------------------------------------
Client(c) ==
    \/ \E p \in Players : RequestTicket(c, p)
    \/ ReceiveTicket(c) \/ ExpireTicket(c)
    \/ Connect(c) \/ GoDown(c) \/ Authenticate(c)
    \/ \E s \in Slots, ch \in Channels : RequestSwitch(c, s, ch)

AdmitSteps(c) ==
    \/ DbAdmit(c) \/ AdmitDenied(c) \/ AdmitReplaces(c) \/ AdmitJoins(c)
    \/ Bootstrap(c) \/ Activate(c) \/ UndoAdmission(c)

FinalizeSteps(c) == CloseEvent(c) \/ FinalizeLeaves(c) \/ FinalizeCloses(c)

SwitchSteps(c) ==
    \E s \in Slots : DbSwitch(c, s) \/ ApplySwitch(c, s) \/ SwitchRefused(c, s)

RevalidateSteps(c) == Revalidate(c) \/ DbRevalidate(c) \/ RevalidateAnswered(c)

Next ==
    \/ \E c \in Conns : \/ Client(c) \/ AdmitSteps(c) \/ FinalizeSteps(c) \/ SwitchSteps(c)
                        \/ RevalidateSteps(c) \/ Checkpoint(c) \/ Age(c)
    \/ \E p \in Players : ChangeAccess(p)
    \/ Crash

Spec == Init /\ [][Next]_vars

(* Node delivers the close events and the answers it has received, the     *)
(* database answers, and the reconciliation timer visits every active      *)
(* connection.  Clients owe the server nothing.                            *)
FairSpec ==
    /\ Spec
    /\ \A c \in Conns : /\ WF_vars(AdmitSteps(c)) /\ WF_vars(FinalizeSteps(c))
                        /\ WF_vars(SwitchSteps(c)) /\ WF_vars(RevalidateSteps(c))
-----------------------------------------------------------------------------
(* connectionByPresence never points at a connection that is gone or at    *)
(* another player's: broadcasts, trade offers and kicks are routed by it.  *)
IndexSound ==
    \A p \in Players : index[p] # NoConn =>
        /\ owner[index[p]] = p
        /\ index[p] \in active \/ fin[index[p]] = "running"

(* The converse: an active connection is the one its presence id finds,    *)
(* until its own finalization takes it out: messages to the player reach   *)
(* it, and a replacement finds it.                                         *)
IndexComplete ==
    \A c \in Conns : (c \in active \/ fin[c] = "running") => index[owner[c]] = c

(* The connections that stand in the world for their player: joined to the *)
(* channel, and their finalization has not yet left it.                    *)
Occupants ==
    {c \in Conns : adm[c] \in {"booting", "booted"} \/ c \in active \/ fin[c] = "running"}

(* A presence that is in a channel has a connection that will take it out: *)
(* nobody is left standing in the world without one.                       *)
PresenceOwned ==
    \A p \in Players : member[p] # NoChannel => \E c \in Occupants : owner[c] = p

(* A player stands in the world through one connection at a time, even     *)
(* while a replacement, an admission and a finalization of theirs overlap. *)
(* It is why one finalization never takes the presence of another          *)
(* connection away, although it removes by presence id.                    *)
OneOccupant ==
    /\ \A c \in Conns : /\ c \in Occupants => member[owner[c]] # NoChannel
                        /\ c \in active => adm[c] = "done" /\ fin[c] = "no"
                        /\ fin[c] # "no" => adm[c] \in {"done", "dead"}
    /\ \A c, d \in Conns : (c \in Occupants /\ d \in Occupants /\ owner[c] = owner[d]) => c = d

(* Every durable session that is still open has somebody in the process    *)
(* who will close it: no path of admission, replacement or finalization    *)
(* drops one (as long as the calls themselves work).                       *)
SessionOwned ==
    \A c \in Conns : status[c] = "active" =>
        \/ adm[c] \in {"admitted", "replacing", "booting", "booted", "undoing"}
        \/ c \in active
        \/ fin[c] \in {"running", "closing"}

(* Whatever a switch met on its way (a full channel, a session closed by a *)
(* replacement, a socket that went down), once none is under way a live    *)
(* connection is shown in the channel of its session, and broadcasts of no *)
(* other channel reach it.  For one request at a time and calls that are   *)
(* answered.                                                               *)
ShownWhereItIs ==
    \A c \in Conns :
        (c \in active /\ status[c] = "active" /\ \A s \in Slots : sw[c][s] = "idle")
            => shown[c] = chan[c] /\ rooms[c] \subseteq {chan[c]}

(* admit() activates its connection even if the socket's 'close' event was *)
(* handled while it awaited the database: nothing will finalize such a     *)
(* connection but a later admission of the same player, which replaces it. *)
Orphan(c) == c \in active /\ sock[c] = "closed"

Gone(c) == c \notin active /\ fin[c] \in {"no", "done"} /\ status[c] # "active"

(* A player whose access ends for good is disconnected: whatever is still  *)
(* active for them has no socket any more.                                 *)
RevocationDisconnects ==
    \A p \in Players : (<>[](p \notin allowed)) =>
        <>[](\A c \in active : owner[c] = p => sock[c] = "closed")


(* An active connection whose socket closes is finalized to the end, and   *)
(* so is whatever closed before it was active, unless it became an orphan: *)
(* nobody runs its finalization and the session is closed.                 *)
ClosedSocketFinalized ==
    \A c \in Conns : /\ (c \in active /\ sock[c] = "closing") ~> Gone(c)
                     /\ (sock[c] = "closed") ~> (Gone(c) \/ Orphan(c))
=============================================================================
