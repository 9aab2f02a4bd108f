--------------------------- MODULE RealtimeClient ---------------------------
(***************************************************************************)
(* RealtimeConnection of apps/game-client/src/app/realtime-client.ts: how  *)
(* the game client gets, loses and regains its connection.  The client     *)
(* asks the API for a ticket, opens a WebSocket, authenticates, and        *)
(* reconnects by a timer with a bounded number of attempts; the page's     *)
(* focus and the player's retry button may start a connection too, so the  *)
(* page may own several sockets, of which this.socket is the newest.  The  *)
(* server is what PresenceServer does to one player: it admits a socket    *)
(* and closes the one it replaces, refuses, revokes, or answers a request  *)
(* with an error and keeps the socket.                                     *)
(***************************************************************************)
EXTENDS Integers, Sequences, FiniteSets

CONSTANTS Sockets, NoSocket,
          MaxAttempts,  \* automatic reconnects (6 in runtime-recovery.ts)
          MaxDisturbances  \* how many disturbances a behaviour contains at most

ASSUME ClientAssumption ==
    NoSocket \notin Sockets /\ MaxAttempts \in Nat /\ MaxDisturbances \in Nat

VARIABLES
    disposed, ticket, timer, attempt, status,
    current,     \* this.socket
    net,         \* the client's end of a socket: readyState, "none" once its close was handled
    srv,         \* the server's end: has it been asked, has it admitted, is it gone
    mail,        \* messages of the server the page has not handled yet
    worldMoved,  \* another world version was published since the page loaded its world
    disturbances \* those that may still come

clientVars == <<disposed, ticket, timer, attempt, status, current>>
socketVars == <<net, srv, mail>>
linkVars == <<clientVars, socketVars, worldMoved, disturbances>>

LinkTypeOK ==
    /\ disposed \in BOOLEAN /\ ticket \in BOOLEAN /\ timer \in BOOLEAN
    /\ worldMoved \in BOOLEAN
    /\ attempt \in 0..MaxAttempts /\ disturbances \in 0..MaxDisturbances
    /\ status \in {"connecting", "reconnecting", "connected", "unavailable",
                   "blocked", "disconnected"}
    /\ current \in Sockets \cup {NoSocket}
    /\ net \in [Sockets -> {"none", "connecting", "open"}]
    /\ srv \in [Sockets -> {"idle", "asked", "admitted", "gone"}]
    /\ mail \in [Sockets -> Seq({"admitted", "otherWorld", "retryable", "denied"})]

(* The connection as start() leaves it: the first ticket is being issued.  *)
LinkInit ==
    /\ disposed = FALSE /\ ticket = TRUE /\ timer = FALSE
    /\ attempt = 0 /\ status = "connecting" /\ current = NoSocket
    /\ net = [s \in Sockets |-> "none"] /\ srv = [s \in Sockets |-> "idle"]
    /\ mail = [s \in Sockets |-> <<>>]
    /\ worldMoved = FALSE /\ disturbances = MaxDisturbances

Disturbance == disturbances > 0 /\ disturbances' = disturbances - 1
Calm == UNCHANGED disturbances

Open == current # NoSocket /\ net[current] = "open"

(* connect(true): one ticket request at a time.                            *)
Connect ==
    IF disposed \/ ticket THEN UNCHANGED <<ticket, status>>
                          ELSE ticket' = TRUE /\ status' = "reconnecting"

Exhausted == attempt >= MaxAttempts

(* scheduleReconnect() after the status st was published: nothing when a   *)
(* reconnect is already scheduled.                                         *)
ScheduleReconnect(st) ==
    IF timer THEN status' = st /\ UNCHANGED <<timer, attempt>>
    ELSE IF Exhausted
         THEN status' = "unavailable" /\ UNCHANGED <<timer, attempt>>
         ELSE status' = "reconnecting" /\ timer' = TRUE /\ attempt' = attempt + 1

(* Faulty variant: the ticket of a disposed connection is used.            *)
UsableAnyway == ticket
Usable == ticket /\ ~disposed

(* The ticket arrives: a new socket becomes this.socket, whatever socket   *)
(* was there before.                                                       *)
TicketIssued(s) ==
    /\ Usable /\ net[s] = "none"
    /\ ticket' = FALSE /\ current' = s
    /\ net' = [net EXCEPT ![s] = "connecting"]
    /\ srv' = [srv EXCEPT ![s] = "idle"]
    /\ UNCHANGED <<disposed, timer, attempt, status, mail, worldMoved>> /\ Calm

(* The API denies the ticket (401, 403, 409), or fails to answer.          *)
TicketRefused(denied) ==
    /\ ticket /\ ~disposed /\ Disturbance
    /\ ticket' = FALSE
    /\ IF denied THEN status' = "blocked" /\ UNCHANGED <<timer, attempt>>
                 ELSE ScheduleReconnect("unavailable")
    /\ UNCHANGED <<disposed, current, socketVars, worldMoved>>

(* A ticket request that dispose() aborted, or that ends after it.         *)
TicketDropped ==
    /\ ticket /\ disposed /\ ticket' = FALSE
    /\ UNCHANGED <<disposed, timer, attempt, status, current, socketVars, worldMoved>> /\ Calm

(* handleOpen: the socket authenticates, also when it is no longer         *)
(* this.socket.                                                            *)
SocketOpens(s) ==
    /\ net[s] = "connecting" /\ srv[s] = "idle"
    /\ net' = [net EXCEPT ![s] = "open"]
    /\ srv' = [srv EXCEPT ![s] = "asked"]
    /\ UNCHANGED <<clientVars, mail, worldMoved>> /\ Calm

(* Faulty variant: every socket is taken for this.socket.                  *)
AnySocket(s) == TRUE
IsCurrent(s) == s = current

(* handleMessage.  An admission to another world version makes the handler *)
(* call socket.close(1008, ...): a browser lets a page close with 1000 or  *)
(* 3000-4999 only, so the call throws, the message has no effect and the   *)
(* socket stays open.                                                      *)
Deliver(s) ==
    /\ net[s] = "open" /\ mail[s] # <<>> /\ Calm
    /\ LET m == Head(mail[s])
           heard == s = current /\ ~disposed
       IN /\ mail' = [mail EXCEPT ![s] = Tail(@)]
          /\ status' = CASE heard /\ m = "admitted" -> "connected"
                         [] heard /\ m = "retryable" -> "unavailable"
                         [] heard /\ m = "denied" -> "blocked"
                         [] OTHER -> status
          /\ attempt' = IF heard /\ m = "admitted" THEN 0 ELSE attempt
    /\ UNCHANGED <<disposed, ticket, timer, current, net, srv, worldMoved>>

(* Faulty variant: an error stops the retries of an open connection.       *)
StopsWhenTold == disposed \/ status \in {"blocked", "unavailable"}
StopsRetrying == disposed \/ status = "blocked"

(* handleClose, once the messages before it were handled.  Its early       *)
(* return for the code 1000 is never taken: the server closes with other   *)
(* codes, and dispose() has removed the listeners when it closes with it.  *)
SocketCloses(s) ==
    /\ net[s] # "none" /\ srv[s] = "gone" /\ mail[s] = <<>> /\ Calm
    /\ net' = [net EXCEPT ![s] = "none"]
    /\ IF IsCurrent(s)
       THEN /\ current' = NoSocket
            /\ IF StopsRetrying
               THEN UNCHANGED <<status, timer, attempt>>
               ELSE ScheduleReconnect(status)
       ELSE UNCHANGED <<current, status, timer, attempt>>
    /\ UNCHANGED <<disposed, ticket, srv, mail, worldMoved>>

TimerFires ==
    /\ timer /\ timer' = FALSE /\ Connect
    /\ UNCHANGED <<disposed, attempt, current, socketVars, worldMoved>> /\ Calm

(* Any message but the first that reaches the server while admit() runs    *)
(* is answered AUTHENTICATION_REQUIRED, which is not retryable.            *)
Resync ==
    mail' = IF srv[current] = "asked"
            THEN [mail EXCEPT ![current] = Append(@, "denied")] ELSE mail

(* reconcileVisibility: the page gets the focus or becomes visible.        *)
Visible ==
    /\ ~disposed /\ Disturbance
    /\ IF Open THEN Resync /\ UNCHANGED <<ticket, status>>
               ELSE Connect /\ UNCHANGED mail
    /\ UNCHANGED <<disposed, timer, attempt, current, net, srv, worldMoved>>

(* retryNow: the player asks to connect again.                             *)
RetryNow ==
    /\ ~disposed /\ status # "blocked" /\ Disturbance
    /\ IF Open THEN Resync /\ UNCHANGED <<ticket, status, timer, attempt>>
               ELSE /\ timer' = FALSE /\ attempt' = 0
                    /\ Connect /\ UNCHANGED mail
    /\ UNCHANGED <<disposed, current, net, srv, worldMoved>>

(* dispose: the page leaves the world.  Only this.socket is closed.        *)
Dispose ==
    /\ ~disposed /\ Disturbance
    /\ disposed' = TRUE /\ timer' = FALSE /\ status' = "disconnected"
    /\ current' = NoSocket
    /\ IF current = NoSocket THEN UNCHANGED socketVars
       ELSE /\ net' = [net EXCEPT ![current] = "none"]
            /\ srv' = [srv EXCEPT ![current] = "gone"]
            /\ mail' = [mail EXCEPT ![current] = <<>>]
    /\ UNCHANGED <<ticket, attempt, worldMoved>>

(* The server admits a socket and closes the one it replaces.              *)
ServerAdmits(s) ==
    /\ srv[s] = "asked" /\ net[s] # "none"
    /\ srv' = [t \in Sockets |-> IF t = s THEN "admitted"
                                 ELSE IF srv[t] = "admitted" THEN "gone" ELSE srv[t]]
    /\ mail' = [mail EXCEPT ![s] = Append(@, IF worldMoved THEN "otherWorld" ELSE "admitted")]
    /\ UNCHANGED <<clientVars, net, worldMoved>> /\ Calm

(* It refuses the admission, or revokes it later, and closes the socket.   *)
ServerRefuses(s, answer) ==
    /\ srv[s] \in {"asked", "admitted"} /\ net[s] # "none" /\ Disturbance
    /\ srv' = [srv EXCEPT ![s] = "gone"]
    /\ mail' = [mail EXCEPT ![s] = Append(@, answer)]
    /\ UNCHANGED <<clientVars, net, worldMoved>>

(* It answers a request (a switch to a full channel, a second appearance   *)
(* refresh within a second) with an error and keeps the socket.            *)
ServerComplains(s) ==
    /\ srv[s] = "admitted" /\ net[s] = "open" /\ Disturbance
    /\ mail' = [mail EXCEPT ![s] = Append(@, "retryable")]
    /\ UNCHANGED <<clientVars, net, srv, worldMoved>>

(* The connection breaks, or never opens.                                  *)
NetworkLost(s) ==
    /\ net[s] \in {"connecting", "open"} /\ srv[s] # "gone" /\ Disturbance
    /\ srv' = [srv EXCEPT ![s] = "gone"]
    /\ UNCHANGED <<clientVars, net, mail, worldMoved>>

WorldPublished ==
    /\ ~worldMoved /\ Disturbance /\ worldMoved' = TRUE
    /\ UNCHANGED <<clientVars, socketVars>>

LinkNext ==
    \/ \E denied \in BOOLEAN : TicketRefused(denied)
    \/ TicketDropped \/ TimerFires \/ Visible \/ RetryNow \/ Dispose \/ WorldPublished
    \/ \E s \in Sockets :
          \/ TicketIssued(s) \/ SocketOpens(s) \/ Deliver(s) \/ SocketCloses(s)
          \/ ServerAdmits(s) \/ ServerComplains(s) \/ NetworkLost(s)
          \/ \E answer \in {"retryable", "denied"} : ServerRefuses(s, answer)

LinkSpec == LinkInit /\ [][LinkNext]_linkVars

(* The page's event loop runs its timers and callbacks, the API answers,   *)
(* a socket that is asked for opens or breaks, the server answers an       *)
(* authentication.  No disturbance is ever required.                       *)
LinkFairness ==
    /\ WF_linkVars(TimerFires) /\ WF_linkVars(TicketDropped)
    /\ WF_linkVars(\E s \in Sockets : TicketIssued(s))
    /\ \A s \in Sockets : /\ WF_linkVars(SocketOpens(s)) /\ WF_linkVars(Deliver(s))
                          /\ WF_linkVars(SocketCloses(s)) /\ WF_linkVars(ServerAdmits(s))

FairLink == LinkSpec /\ LinkFairness

-----------------------------------------------------------------------------
(* The client never sits idle on a lost connection: when it has no socket, *)
(* no ticket request and no timer, it was told it may not play or it used  *)
(* up its attempts.  In particular "connected" and "reconnecting" are      *)
(* never shown with nothing under way.                                     *)
NeverStranded ==
    (~disposed /\ current = NoSocket /\ ~ticket /\ ~timer) =>
        \/ status = "blocked"
        \/ status = "unavailable" /\ attempt = MaxAttempts

(* After dispose() the connection opens no socket, arms no timer and       *)
(* publishes nothing more, whichever answer was still on its way.          *)
DisposedIsFinal ==
    [][disposed => /\ current' = NoSocket /\ ~timer' /\ status' = "disconnected"
                   /\ \A s \in Sockets : net[s] = "none" => net'[s] = "none"]_linkVars

(* The states the client may stay in: a connection the server knows, an    *)
(* end the player is told of, or the page has left.  A client that was     *)
(* admitted to another world version keeps the connection and the status   *)
(* it had.                                                                 *)
Settled ==
    /\ ~ticket /\ ~timer
    /\ \/ disposed
       \/ /\ current # NoSocket /\ net[current] = "open" /\ srv[current] = "admitted"
          /\ worldMoved \/ status \in {"connected", "unavailable", "blocked"}
       \/ current = NoSocket /\ status = "blocked"
       \/ current = NoSocket /\ status = "unavailable" /\ attempt = MaxAttempts

(* Once nothing disturbs it any more, the client settles: sockets that a   *)
(* focus or a late timer opened beside the current one, and the closes of  *)
(* those the server replaced, do not make it reconnect for ever.           *)
Settles == <>[]Settled
=============================================================================
