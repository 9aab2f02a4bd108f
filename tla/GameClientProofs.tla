-------------------------- MODULE GameClientProofs --------------------------
(***************************************************************************)
(* Theorems about the page of the game client.  First its saves            *)
(* (PlayerSaves), for any set of worlds, any number of moves, and any      *)
(* number of pages, lost calls and operator resets; then its connection    *)
(* (RealtimeClient), for any number of sockets, attempts and disturbances. *)
(***************************************************************************)
EXTENDS PlayerSaves, RealtimeClient, TLAPS

(* The version the page will have once it has read the answers that wait   *)
(* for it.                                                                 *)
Seen == IF flush = "saved" \/ trans = "moved" THEN version + 1 ELSE version

(* st may be stored: it is in the world that the database has the player   *)
(* in, and no older than what is stored.                                   *)
Fits(st) == st.world = db.st.world /\ st.at >= db.st.at

Counted ==
    /\ db.st.at <= moves /\ \A c \in calls : c.st.at <= moves
    /\ Playing => latest.at <= moves /\ (arrival # NoState => arrival.at <= moves)

(* Nobody knows a version that is still to come, and what somebody sends   *)
(* or may send at the current version fits.                                *)
Behind(ver) == ver <= db.ver /\ (db.by = "reset" => ver < db.ver)
CallsBehind ==
    \A c \in calls :
        /\ Behind(c.ver)
        /\ c.kind \in {"save", "orphan"} /\ c.ver = db.ver => Fits(c.st)
PageBehind ==
    Playing =>
        /\ Behind(Seen)
        /\ Seen = db.ver =>
              /\ trans = "moved" => Fits(arrival)
              /\ trans # "moved" => Fits(latest) /\ (queued # NoState => Fits(queued))

(* The save and the transition take turns, and each has one call in        *)
(* progress.                                                               *)
Turns ==
    Playing =>
        /\ trans \in {"sent", "moved", "failed"} => flush = "idle"
        /\ trans = "moved" => arrival # NoState
InFlight ==
    \A c \in calls :
        /\ c.kind = "save" =>
              /\ Playing /\ flush = "sent" /\ c.ver = version
              /\ c.st.world = latest.world /\ c.st.at <= latest.at
              /\ queued # NoState => c.st.at <= queued.at
        /\ c.kind = "travel" => Playing /\ trans = "sent" /\ c.ver = version
OneEach == \A c, d \in calls : c.kind = d.kind /\ c.kind \in {"save", "travel"} => c = d
QueueFollows ==
    Playing /\ queued # NoState => queued.world = latest.world /\ queued.at <= latest.at

SavesInv ==
    /\ TypeOK /\ Counted /\ CallsBehind /\ PageBehind
    /\ Turns /\ InFlight /\ OneEach /\ QueueFollows

(* What a step may do to the stored row.                                   *)
Forward == db'.st.at >= db.st.at /\ (db.by = "reset" => db'.by # "page")

LEMMA SavesInit == Init => SavesInv
<1> SUFFICES ASSUME Init PROVE SavesInv
  OBVIOUS
<1> USE SavesAssumption DEF Init, Playing
<1>1. PICK w \in Worlds : db = [ver |-> 1, st |-> [world |-> w, at |-> 0], by |-> "page"]
  OBVIOUS
<1>2. db.st \in States /\ db.ver = 1 /\ db.by = "page" /\ db.st.at = 0
  BY <1>1 DEF States
<1>3. TypeOK
  <2>1. db \in [ver : Versions, st : States, by : {"page", "reset", "loaded"}]
    BY <1>1, <1>2 DEF Versions
  <2>2. version \in Versions /\ latest \in States
    BY <1>2 DEF Versions
  <2>3. moves \in 0..MaxMoves /\ budget \in 0..Budget
    OBVIOUS
  <2> QED
    BY <2>1, <2>2, <2>3 DEF TypeOK
<1>4. Counted /\ CallsBehind /\ Turns /\ InFlight /\ OneEach /\ QueueFollows
  BY <1>2 DEF Counted, CallsBehind, Turns, InFlight, OneEach, QueueFollows
<1>5. PageBehind
  BY <1>2 DEF PageBehind, Seen, Behind, Fits
<1> QED
  BY <1>3, <1>4, <1>5 DEF SavesInv

(* The numbers and states behind the types.                                *)
LEMMA Numbers ==
    ASSUME TypeOK
    PROVE  /\ db.ver \in Nat /\ db.st \in States /\ db.st.at \in Nat
           /\ version \in Nat /\ version + 1 \in Versions /\ latest.at \in Nat /\ moves \in Nat
           /\ queued # NoState => queued \in States /\ queued.at \in Nat
           /\ arrival # NoState => arrival \in States /\ arrival.at \in Nat
           /\ \A c \in calls :
                 c \in Requests /\ c.ver \in Nat /\ c.st \in States /\ c.st.at \in Nat
           /\ Seen \in Nat
  BY SavesAssumption DEF TypeOK, States, Versions, Requests, Seen

LEMMA Disturbed ==
    ASSUME TypeOK, Disturb \/ UNCHANGED budget
    PROVE  budget' \in 0..Budget
  BY SavesAssumption DEF TypeOK, Disturb

LEMMA CallIsRequest ==
    ASSUME TypeOK, NEW kind \in {"save", "orphan", "travel", "left"}, NEW st \in States
    PROVE  /\ Call(kind, st) \in Requests /\ Call(kind, st).kind = kind
           /\ Call(kind, st).st = st /\ Call(kind, st).ver = version
  BY DEF TypeOK, Call, Requests

-----------------------------------------------------------------------------
(* Steps of the page.                                                      *)

LEMMA MoveKeeps == ASSUME SavesInv, Move PROVE SavesInv' /\ Forward
<1>0. /\ TypeOK /\ Counted /\ CallsBehind /\ PageBehind
      /\ Turns /\ InFlight /\ OneEach /\ QueueFollows
  BY DEF SavesInv
<1>1. /\ Playing /\ trans = "idle" /\ moves < MaxMoves /\ moves' = moves + 1
      /\ latest' = [latest EXCEPT !.at = moves']
      /\ UNCHANGED <<db, page, version, queued, retry, flush, trans, arrival, calls, budget>>
      /\ dirty' = TRUE
  BY DEF Move, Step
<1>2. latest'.at = moves + 1 /\ latest'.world = latest.world /\ latest' \in States /\ latest.at <= moves
  BY <1>0, <1>1, SavesAssumption DEF TypeOK, States, Counted
<1>n. /\ db.ver \in Nat /\ db.st.at \in Nat /\ version \in Nat /\ latest.at \in Nat /\ moves \in Nat
      /\ queued # NoState => queued.at \in Nat
      /\ arrival # NoState => arrival.at \in Nat
      /\ \A c \in calls : c.ver \in Nat /\ c.st.at \in Nat
  BY <1>0, Numbers
<1>3. TypeOK'
  BY <1>0, <1>1, <1>2, SavesAssumption DEF TypeOK
<1>4. Counted'
  BY <1>0, <1>1, <1>2, <1>n DEF Counted, Playing
<1>5. CallsBehind'
  BY <1>0, <1>1 DEF CallsBehind, Behind, Fits
<1>6. PageBehind'
  BY <1>0, <1>1, <1>2, <1>n DEF PageBehind, Behind, Fits, Seen, Playing
<1>7. Turns' /\ OneEach'
  BY <1>0, <1>1 DEF Turns, OneEach, Playing
<1>8. InFlight' /\ QueueFollows'
  BY <1>0, <1>1, <1>2, <1>n DEF InFlight, QueueFollows, Playing
<1>9. Forward
  BY <1>1, <1>n DEF Forward
<1> QED
  BY <1>3, <1>4, <1>5, <1>6, <1>7, <1>8, <1>9 DEF SavesInv

(* A save is asked for: it is sent, or queued behind the one in flight.    *)
Asking ==
    /\ Playing /\ trans = "idle"
    /\ FlushQueued(latest) \/ (queued' = latest /\ UNCHANGED <<flush, calls>>)
    /\ retry' \in BOOLEAN /\ dirty' \in BOOLEAN /\ budget' \in 0..Budget
    /\ UNCHANGED <<db, page, version, latest, trans, arrival, moves>>

LEMMA AskingKeeps == ASSUME SavesInv, Asking PROVE SavesInv' /\ Forward
<1>0. /\ TypeOK /\ Counted /\ CallsBehind /\ PageBehind
      /\ Turns /\ InFlight /\ OneEach /\ QueueFollows
  BY DEF SavesInv
<1>1. /\ Playing /\ trans = "idle" /\ retry' \in BOOLEAN /\ dirty' \in BOOLEAN
      /\ budget' \in 0..Budget
      /\ UNCHANGED <<db, page, version, latest, trans, arrival, moves>>
  BY DEF Asking
<1>n. /\ db.ver \in Nat /\ db.st.at \in Nat /\ version \in Nat /\ latest.at \in Nat /\ moves \in Nat
      /\ queued # NoState => queued.at \in Nat
      /\ arrival # NoState => arrival.at \in Nat
      /\ \A c \in calls : c.ver \in Nat /\ c.st.at \in Nat
      /\ latest \in States /\ latest # NoState
  BY <1>0, Numbers, SavesAssumption DEF TypeOK
<1>9. Forward
  BY <1>1, <1>n DEF Forward
<1>2. CASE flush = "idle" /\ FlushQueued(latest)
  <2> DEFINE new == Call("save", latest)
  <2>1. flush' = "sent" /\ queued' = NoState /\ calls' = calls \cup {new}
    BY <1>2 DEF FlushQueued
  <2>2. /\ new \in Requests /\ new.kind = "save" /\ new.st = latest /\ new.ver = version
    BY <1>0, <1>n, CallIsRequest
  <2> HIDE DEF new
  <2>3. TypeOK'
    BY <1>0, <1>1, <2>1, <2>2 DEF TypeOK
  <2>4. Counted'
    BY <1>0, <1>1, <1>n, <2>1, <2>2 DEF Counted, Playing
  <2>5. CallsBehind'
    BY <1>0, <1>1, <1>2, <1>n, <2>1, <2>2 DEF CallsBehind, PageBehind, Seen, Behind, Fits
  <2>6. PageBehind'
    BY <1>0, <1>1, <1>2, <1>n, <2>1 DEF PageBehind, Seen, Behind, Fits, Playing
  <2>7. Turns' /\ QueueFollows'
    BY <1>0, <1>1, <2>1 DEF Turns, QueueFollows, Playing
  <2>8. \A c \in calls : c.kind # "save" /\ c.kind # "travel"
    BY <1>0, <1>1, <1>2 DEF InFlight
  <2>9. OneEach' /\ InFlight'
    BY <1>0, <1>1, <1>n, <2>1, <2>2, <2>8 DEF OneEach, InFlight, Playing
  <2> QED
    BY <1>9, <2>3, <2>4, <2>5, <2>6, <2>7, <2>9 DEF SavesInv
<1>3. CASE queued' = latest /\ UNCHANGED <<flush, calls>>
  <2>3. TypeOK'
    BY <1>0, <1>1, <1>3 DEF TypeOK
  <2>4. Counted' /\ CallsBehind'
    BY <1>0, <1>1, <1>3 DEF Counted, CallsBehind, Behind, Fits, Playing
  <2>6. PageBehind'
    BY <1>0, <1>1, <1>3, <1>n DEF PageBehind, Seen, Behind, Fits, Playing
  <2>7. Turns' /\ QueueFollows' /\ OneEach'
    BY <1>0, <1>1, <1>3, <1>n DEF Turns, QueueFollows, OneEach, Playing
  <2>8. InFlight'
    BY <1>0, <1>1, <1>3 DEF InFlight, Playing
  <2> QED
    BY <1>9, <2>3, <2>4, <2>6, <2>7, <2>8 DEF SavesInv
<1> QED
  BY <1>2, <1>3 DEF Asking, FlushQueued

LEMMA AskersAsk ==
    ASSUME SavesInv, Checkpoint \/ Retry \/ FlushBeforeLeave
    PROVE  Asking
<1>1. TypeOK
  BY DEF SavesInv
<1>2. CASE Checkpoint
  BY <1>1, <1>2 DEF Checkpoint, Cleaned, Asking, TypeOK
<1>3. CASE Retry
  BY <1>1, <1>3 DEF Retry, Asking, TypeOK
<1>4. CASE FlushBeforeLeave
  <2>1. budget' \in 0..Budget /\ dirty' \in BOOLEAN /\ retry' \in BOOLEAN
    BY <1>1, <1>4, Disturbed DEF FlushBeforeLeave, TypeOK
  <2> QED
    BY <1>4, <2>1 DEF FlushBeforeLeave, Asking
<1> QED
  BY <1>2, <1>3, <1>4

LEMMA SavedKeeps ==
    ASSUME SavesInv, Playing, flush = "saved", version' = version + 1, TakeNext,
           UNCHANGED <<page, retry, db, latest, dirty, trans, arrival, moves, budget>>
    PROVE  SavesInv' /\ Forward
<1>0. /\ TypeOK /\ Counted /\ CallsBehind /\ PageBehind
      /\ Turns /\ InFlight /\ OneEach /\ QueueFollows
  BY DEF SavesInv
<1>n. /\ db.ver \in Nat /\ db.st.at \in Nat /\ version \in Nat /\ latest.at \in Nat /\ moves \in Nat
      /\ queued # NoState => queued.at \in Nat /\ queued \in States
      /\ \A c \in calls : c.ver \in Nat /\ c.st.at \in Nat
      /\ version + 1 \in Versions
  BY <1>0, Numbers
<1>1. trans \in {"idle", "draining"} /\ Seen = version + 1
  BY <1>0 DEF Turns, TypeOK, Seen
<1>2. \A c \in calls : c.kind # "save" /\ c.kind # "travel"
  BY <1>0, <1>1 DEF InFlight
<1>9. Forward
  BY <1>n DEF Forward
<1>3. CASE queued = NoState
  <2>1. flush' = "idle" /\ UNCHANGED <<queued, calls>>
    BY <1>3 DEF TakeNext
  <2>2. TypeOK' /\ Counted' /\ CallsBehind'
    BY <1>0, <1>n, <2>1 DEF TypeOK, Counted, CallsBehind, Behind, Fits, Playing
  <2>3. PageBehind'
    BY <1>0, <1>1, <1>3, <2>1 DEF PageBehind, Seen, Behind, Fits, Playing
  <2>4. Turns' /\ OneEach' /\ QueueFollows' /\ InFlight'
    BY <1>0, <1>1, <1>2, <1>3, <2>1 DEF Turns, OneEach, QueueFollows, InFlight
  <2> QED
    BY <1>9, <2>2, <2>3, <2>4 DEF SavesInv
<1>4. CASE queued # NoState
  <2> DEFINE new == [Call("save", queued) EXCEPT !.ver = version + 1]
  <2>1. flush' = "sent" /\ queued' = NoState /\ calls' = calls \cup {new}
    BY <1>4 DEF TakeNext
  <2>2. new \in Requests /\ new.kind = "save" /\ new.st = queued /\ new.ver = version + 1
    BY <1>4, <1>n DEF Call, Requests
  <2> HIDE DEF new
  <2>3. queued.world = latest.world /\ queued.at <= latest.at /\ latest.at <= moves
    BY <1>0, <1>4 DEF QueueFollows, Counted
  <2>4. TypeOK'
    BY <1>0, <1>n, <2>1, <2>2 DEF TypeOK
  <2>5. Counted'
    BY <1>0, <1>4, <1>n, <2>1, <2>2, <2>3 DEF Counted, Playing
  <2>6. CallsBehind'
    BY <1>0, <1>1, <1>4, <2>1, <2>2 DEF CallsBehind, PageBehind, Behind, Fits
  <2>7. PageBehind'
    BY <1>0, <1>1, <2>1 DEF PageBehind, Seen, Behind, Fits, Playing
  <2>8. Turns' /\ OneEach' /\ QueueFollows'
    BY <1>0, <1>1, <1>2, <2>1, <2>2 DEF Turns, OneEach, QueueFollows
  <2>9. InFlight'
    BY <1>1, <1>2, <2>1, <2>2, <2>3 DEF InFlight, Playing
  <2> QED
    BY <1>9, <2>4, <2>5, <2>6, <2>7, <2>8, <2>9 DEF SavesInv
<1> QED
  BY <1>3, <1>4

(* The page is left or sent away: nothing it asked for has a reader now,   *)
(* and its last snapshot may follow.                                       *)
Leaving ==
    /\ Playing /\ page' = "gone"
    /\ calls' = Orphaned \cup (IF trans = "idle" THEN {Call("orphan", latest)} ELSE {})
    /\ flush' = flush \/ flush' = "idle"
    /\ queued' = queued \/ queued' = NoState
    /\ retry' \in BOOLEAN /\ budget' \in 0..Budget
    /\ UNCHANGED <<db, version, latest, dirty, trans, arrival, moves>>

WasSent(c) ==
    \E d \in calls :
        /\ c.st = d.st /\ c.ver = d.ver
        /\ c.kind = "orphan" => d.kind \in {"save", "orphan"}
Snapshot(c) == trans = "idle" /\ c.st = latest /\ c.ver = version

LEMMA LeavingKeeps == ASSUME SavesInv, Leaving PROVE SavesInv' /\ Forward
<1>0. /\ TypeOK /\ Counted /\ CallsBehind /\ PageBehind
      /\ Turns /\ InFlight /\ OneEach /\ QueueFollows
  BY DEF SavesInv
<1>n. /\ db.ver \in Nat /\ db.st.at \in Nat /\ version \in Nat /\ latest.at \in Nat /\ moves \in Nat
      /\ \A c \in calls : c.ver \in Nat /\ c.st.at \in Nat
      /\ latest \in States
  BY <1>0, Numbers DEF TypeOK
<1>1. /\ Playing /\ page' = "gone" /\ ~Playing'
      /\ UNCHANGED <<db, version, latest, dirty, trans, arrival, moves>>
  BY DEF Leaving, Playing
<1>2. \A c \in calls' :
          c \in Requests /\ c.kind \in {"left", "orphan"} /\ (WasSent(c) \/ Snapshot(c))
  <2> SUFFICES ASSUME NEW c \in calls'
               PROVE  /\ c \in Requests /\ c.kind \in {"left", "orphan"}
                      /\ WasSent(c) \/ Snapshot(c)
    OBVIOUS
  <2>1. CASE c \in Orphaned
    <3>1. PICK d \in calls :
              c = [d EXCEPT !.kind = IF @ \in {"travel", "left"} THEN "left" ELSE "orphan"]
      BY <2>1 DEF Orphaned
    <3>2. d \in Requests
      BY <1>0 DEF TypeOK
    <3> QED
      BY <3>1, <3>2 DEF Requests, WasSent
  <2>2. CASE trans = "idle" /\ c = Call("orphan", latest)
    BY <1>0, <1>n, <2>2, CallIsRequest DEF Snapshot
  <2> QED
    BY <2>1, <2>2 DEF Leaving
<1>3. TypeOK'
  <2>1. calls' \subseteq Requests
    BY <1>2
  <2> QED
    BY <1>0, <1>1, <2>1 DEF TypeOK, Leaving
<1>4. Counted'
  <2>1. ASSUME NEW c \in calls' PROVE c.st.at <= moves
    <3>1. CASE WasSent(c)
      BY <1>0, <3>1 DEF Counted, WasSent
    <3>2. CASE Snapshot(c)
      BY <1>0, <1>1, <3>2 DEF Counted, Snapshot
    <3> QED
      BY <1>2, <3>1, <3>2
  <2> QED
    BY <1>0, <1>1, <2>1 DEF Counted
<1>5. CallsBehind'
  <2> SUFFICES ASSUME NEW c \in calls'
               PROVE  /\ Behind(c.ver)
                      /\ c.kind \in {"save", "orphan"} /\ c.ver = db.ver => Fits(c.st)
    BY <1>1 DEF CallsBehind, Behind, Fits
  <2>1. CASE WasSent(c)
    <3>1. PICK d \in calls :
              /\ c.st = d.st /\ c.ver = d.ver
              /\ c.kind = "orphan" => d.kind \in {"save", "orphan"}
      BY <2>1 DEF WasSent
    <3>2. /\ Behind(d.ver)
          /\ d.kind \in {"save", "orphan"} /\ d.ver = db.ver => Fits(d.st)
      BY <1>0 DEF CallsBehind
    <3>3. c.kind \in {"save", "orphan"} => d.kind \in {"save", "orphan"}
      BY <1>2, <3>1
    <3> QED
      BY <3>1, <3>2, <3>3
  <2>2. CASE Snapshot(c)
    BY <1>0, <1>1, <1>n, <2>2 DEF PageBehind, Behind, Seen, Snapshot
  <2> QED
    BY <1>2, <2>1, <2>2
<1>6. PageBehind' /\ Turns' /\ QueueFollows'
  BY <1>1 DEF PageBehind, Turns, QueueFollows
<1>7. InFlight' /\ OneEach'
  BY <1>2 DEF InFlight, OneEach
<1>8. Forward
  BY <1>1, <1>n DEF Forward
<1> QED
  BY <1>3, <1>4, <1>5, <1>6, <1>7, <1>8 DEF SavesInv

LEMMA FlushAnsweredKeeps == ASSUME SavesInv, FlushAnswered PROVE SavesInv' /\ Forward
<1>0. /\ TypeOK /\ Counted /\ CallsBehind /\ PageBehind
      /\ Turns /\ InFlight /\ OneEach /\ QueueFollows
  BY DEF SavesInv
<1>1. Playing /\ UNCHANGED <<db, latest, dirty, trans, arrival, moves, budget>>
  BY DEF FlushAnswered
<1>2. CASE flush = "saved" /\ version' = version + 1 /\ TakeNext /\ UNCHANGED <<page, retry>>
  BY <1>1, <1>2, SavedKeeps
<1>3. CASE /\ flush' = "idle" /\ queued' = NoState /\ retry' = FALSE /\ SentAway
           /\ UNCHANGED version
  <2>1. Leaving
    BY <1>0, <1>1, <1>3 DEF SentAway, Leaving, TypeOK
  <2> QED
    BY <2>1, LeavingKeeps
<1>4. CASE /\ flush = "failed" /\ flush' = "idle" /\ queued' = latest /\ retry' = TRUE
           /\ UNCHANGED <<page, version, calls>>
  <2>n. latest \in States /\ latest # NoState /\ latest.at \in Nat /\ db.st.at \in Nat
    BY <1>0, Numbers, SavesAssumption DEF TypeOK
  <2>1. TypeOK' /\ Counted' /\ CallsBehind'
    BY <1>0, <1>1, <1>4 DEF TypeOK, Counted, CallsBehind, Behind, Fits, Playing
  <2>2. PageBehind'
    BY <1>0, <1>1, <1>4 DEF PageBehind, Seen, Behind, Fits, Playing
  <2>3. \A c \in calls : c.kind # "save"
    BY <1>0, <1>4 DEF InFlight
  <2>4. Turns' /\ OneEach' /\ InFlight'
    BY <1>0, <1>1, <1>4, <2>3 DEF Turns, OneEach, InFlight, Playing
  <2>5. QueueFollows'
    BY <1>1, <1>4, <2>n DEF QueueFollows
  <2>6. Forward
    BY <1>1, <2>n DEF Forward
  <2> QED
    BY <2>1, <2>2, <2>4, <2>5, <2>6 DEF SavesInv
<1> QED
  BY <1>2, <1>3, <1>4 DEF FlushAnswered

LEMMA LeaversLeave == ASSUME SavesInv, Close PROVE Leaving
<1>1. budget' \in 0..Budget
  BY Disturbed DEF Close, SavesInv
<1> QED
  BY <1>1 DEF Close, Leaving, SavesInv, TypeOK

LEMMA BeginTransitionKeeps == ASSUME SavesInv, BeginTransition PROVE SavesInv' /\ Forward
<1>0. /\ TypeOK /\ Counted /\ CallsBehind /\ PageBehind
      /\ Turns /\ InFlight /\ OneEach /\ QueueFollows
  BY DEF SavesInv
<1>n. /\ db.ver \in Nat /\ db.st.at \in Nat /\ version \in Nat /\ latest.at \in Nat /\ moves \in Nat
      /\ queued # NoState => queued.at \in Nat
      /\ arrival # NoState => arrival.at \in Nat
      /\ \A c \in calls : c.ver \in Nat /\ c.st.at \in Nat
      /\ latest \in States /\ latest # NoState
  BY <1>0, Numbers, SavesAssumption DEF TypeOK
<1>1. /\ Playing /\ trans = "idle" /\ trans' = "draining" /\ queued' = NoState
      /\ UNCHANGED <<db, page, version, latest, dirty, retry, flush, arrival, calls, moves, budget>>
  BY DEF BeginTransition
<1>2. TypeOK' /\ Counted' /\ CallsBehind'
  BY <1>0, <1>1 DEF TypeOK, Counted, CallsBehind, Behind, Fits, Playing
<1>3. PageBehind'
  BY <1>0, <1>1 DEF PageBehind, Seen, Behind, Fits, Playing
<1>4. Turns' /\ OneEach' /\ QueueFollows' /\ InFlight'
  BY <1>0, <1>1 DEF Turns, OneEach, QueueFollows, InFlight, Playing
<1>5. Forward
  BY <1>1, <1>n DEF Forward
<1> QED
  BY <1>2, <1>3, <1>4, <1>5 DEF SavesInv

LEMMA AskTransitionKeeps == ASSUME SavesInv, AskTransition PROVE SavesInv' /\ Forward
<1>0. /\ TypeOK /\ Counted /\ CallsBehind /\ PageBehind
      /\ Turns /\ InFlight /\ OneEach /\ QueueFollows
  BY DEF SavesInv
<1>n. /\ db.ver \in Nat /\ db.st.at \in Nat /\ version \in Nat /\ latest.at \in Nat /\ moves \in Nat
      /\ queued # NoState => queued.at \in Nat
      /\ arrival # NoState => arrival.at \in Nat
      /\ \A c \in calls : c.ver \in Nat /\ c.st.at \in Nat
      /\ latest \in States /\ latest # NoState
  BY <1>0, Numbers, SavesAssumption DEF TypeOK
<1> DEFINE new == Call("travel", latest)
<1>1. /\ Playing /\ trans = "draining" /\ flush = "idle" /\ trans' = "sent"
      /\ calls' = calls \cup {new}
      /\ UNCHANGED <<db, page, version, latest, dirty, queued, retry, flush, arrival, moves, budget>>
  BY DEF AskTransition
<1>2. new \in Requests /\ new.kind = "travel" /\ new.st = latest /\ new.ver = version
  BY <1>0, <1>n, CallIsRequest
<1> HIDE DEF new
<1>3. TypeOK'
  BY <1>0, <1>1, <1>2 DEF TypeOK
<1>4. Counted'
  BY <1>0, <1>1, <1>2 DEF Counted, Playing
<1>5. CallsBehind'
  BY <1>0, <1>1, <1>2 DEF CallsBehind, PageBehind, Seen, Behind, Fits
<1>6. PageBehind'
  BY <1>0, <1>1 DEF PageBehind, Seen, Behind, Fits, Playing
<1>7. \A c \in calls : c.kind # "save" /\ c.kind # "travel"
  BY <1>0, <1>1 DEF InFlight
<1>8. Turns' /\ OneEach' /\ QueueFollows' /\ InFlight'
  BY <1>0, <1>1, <1>2, <1>7 DEF Turns, OneEach, QueueFollows, InFlight, Playing
<1>9. Forward
  BY <1>1, <1>n DEF Forward
<1> QED
  BY <1>3, <1>4, <1>5, <1>6, <1>8, <1>9 DEF SavesInv

LEMMA TransitionAnsweredKeeps ==
    ASSUME SavesInv, TransitionAnswered
    PROVE  SavesInv' /\ Forward
<1>0. /\ TypeOK /\ Counted /\ CallsBehind /\ PageBehind
      /\ Turns /\ InFlight /\ OneEach /\ QueueFollows
  BY DEF SavesInv
<1>n. /\ db.ver \in Nat /\ db.st.at \in Nat /\ version \in Nat /\ latest.at \in Nat /\ moves \in Nat
      /\ queued # NoState => queued.at \in Nat
      /\ arrival # NoState => arrival.at \in Nat
      /\ \A c \in calls : c.ver \in Nat /\ c.st.at \in Nat
      /\ latest \in States /\ latest # NoState
  BY <1>0, Numbers, SavesAssumption DEF TypeOK
<1>1. /\ Playing /\ trans \in {"moved", "failed"} /\ flush = "idle" /\ trans' = "idle"
      /\ queued' = NoState /\ arrival' = NoState /\ dirty' = FALSE
      /\ UNCHANGED <<db, page, flush, calls, moves, budget>>
  BY <1>0 DEF TransitionAnswered, AcceptTransition, Turns
<1>2. \A c \in calls : c.kind # "save" /\ c.kind # "travel"
  BY <1>0, <1>1 DEF InFlight
<1>3. CallsBehind' /\ Turns' /\ OneEach' /\ QueueFollows' /\ InFlight'
  BY <1>0, <1>1, <1>2 DEF CallsBehind, Behind, Fits, Turns, OneEach, QueueFollows, InFlight, Playing
<1>4. Forward
  BY <1>1, <1>n DEF Forward
<1>5. CASE trans = "moved"
  <2>1. version' = version + 1 /\ retry' = FALSE /\ latest' = arrival
    BY <1>5 DEF TransitionAnswered, AcceptTransition
  <2>2. arrival # NoState /\ arrival \in States /\ version + 1 \in Versions
    BY <1>0, <1>1, <1>5, Numbers DEF Turns
  <2>3. TypeOK'
    BY <1>0, <1>1, <2>1, <2>2 DEF TypeOK
  <2>4. Counted'
    BY <1>0, <1>1, <2>1, <2>2 DEF Counted, Playing
  <2>5. PageBehind'
    BY <1>0, <1>1, <1>5, <2>1 DEF PageBehind, Seen, Behind, Fits, Playing
  <2> QED
    BY <1>3, <1>4, <2>3, <2>4, <2>5 DEF SavesInv
<1>6. CASE trans # "moved"
  <2>1. UNCHANGED <<version, latest, retry>>
    BY <1>6 DEF TransitionAnswered
  <2>3. TypeOK'
    BY <1>0, <1>1, <2>1 DEF TypeOK
  <2>4. Counted'
    BY <1>0, <1>1, <2>1 DEF Counted, Playing
  <2>5. PageBehind'
    BY <1>0, <1>1, <1>6, <2>1 DEF PageBehind, Seen, Behind, Fits, Playing
  <2> QED
    BY <1>3, <1>4, <2>3, <2>4, <2>5 DEF SavesInv
<1> QED
  BY <1>5, <1>6

LEMMA HideKeeps == ASSUME SavesInv, Hide PROVE SavesInv' /\ Forward
<1>0. /\ TypeOK /\ Counted /\ CallsBehind /\ PageBehind
      /\ Turns /\ InFlight /\ OneEach /\ QueueFollows
  BY DEF SavesInv
<1>n. /\ db.ver \in Nat /\ db.st.at \in Nat /\ version \in Nat /\ latest.at \in Nat /\ moves \in Nat
      /\ queued # NoState => queued.at \in Nat
      /\ arrival # NoState => arrival.at \in Nat
      /\ \A c \in calls : c.ver \in Nat /\ c.st.at \in Nat
      /\ latest \in States /\ latest # NoState
  BY <1>0, Numbers, SavesAssumption DEF TypeOK
<1> DEFINE new == Call("orphan", latest)
<1>1. /\ Playing /\ trans = "idle" /\ calls' = calls \cup {new}
      /\ UNCHANGED <<db, page, version, latest, dirty, queued, retry, flush, trans, arrival, moves>>
      /\ budget' \in 0..Budget
  BY <1>0, Disturbed DEF Hide, pageVars
<1>2. new \in Requests /\ new.kind = "orphan" /\ new.st = latest /\ new.ver = version
  BY <1>0, <1>n, CallIsRequest
<1> HIDE DEF new
<1>3. TypeOK'
  BY <1>0, <1>1, <1>2 DEF TypeOK
<1>4. Counted'
  BY <1>0, <1>1, <1>2 DEF Counted, Playing
<1>5. CallsBehind'
  BY <1>0, <1>1, <1>2, <1>n DEF CallsBehind, PageBehind, Seen, Behind, Fits
<1>6. PageBehind' /\ Turns' /\ QueueFollows'
  BY <1>0, <1>1 DEF PageBehind, Seen, Behind, Fits, Turns, QueueFollows, Playing
<1>7. OneEach' /\ InFlight'
  BY <1>0, <1>1, <1>2 DEF OneEach, InFlight, Playing
<1>8. Forward
  BY <1>1, <1>n DEF Forward
<1> QED
  BY <1>3, <1>4, <1>5, <1>6, <1>7, <1>8 DEF SavesInv

(* A new page knows what the database holds, a reset included.             *)
LEMMA BootstrapKeeps == ASSUME SavesInv, Bootstrap PROVE SavesInv' /\ Forward
<1>0. /\ TypeOK /\ Counted /\ CallsBehind /\ PageBehind
      /\ Turns /\ InFlight /\ OneEach /\ QueueFollows
  BY DEF SavesInv
<1>n. /\ db.ver \in Nat /\ db.st.at \in Nat /\ version \in Nat /\ latest.at \in Nat /\ moves \in Nat
      /\ queued # NoState => queued.at \in Nat
      /\ arrival # NoState => arrival.at \in Nat
      /\ \A c \in calls : c.ver \in Nat /\ c.st.at \in Nat
      /\ latest \in States /\ latest # NoState
  BY <1>0, Numbers, SavesAssumption DEF TypeOK
<1>1. /\ ~Playing /\ page' = "playing" /\ Playing'
      /\ version' = db.ver /\ latest' = db.st /\ dirty' = FALSE
      /\ queued' = NoState /\ retry' = FALSE /\ flush' = "idle" /\ trans' = "idle"
      /\ arrival' = NoState /\ UNCHANGED <<calls, moves>> /\ budget' \in 0..Budget
  BY <1>0, Disturbed DEF Bootstrap, Playing
<1>2. /\ db'.ver = db.ver /\ db'.st = db.st /\ db'.by \in {"page", "loaded"}
      /\ db.by = "reset" => db'.by = "loaded"
      /\ db' \in [ver : Versions, st : States, by : {"page", "reset", "loaded"}]
  <2>1. db \in [ver : Versions, st : States, by : {"page", "reset", "loaded"}]
    BY <1>0 DEF TypeOK
  <2>2. db' = [db EXCEPT !.by = IF @ = "reset" THEN "loaded" ELSE @]
    BY DEF Bootstrap
  <2> QED
    BY <2>1, <2>2
<1>3. TypeOK'
  <2>1. db.ver \in Versions /\ db.st \in States
    BY <1>0 DEF TypeOK
  <2> QED
    BY <1>0, <1>1, <1>2, <2>1 DEF TypeOK
<1>4. Counted'
  BY <1>0, <1>1, <1>2 DEF Counted
<1>5. CallsBehind'
  BY <1>0, <1>1, <1>2 DEF CallsBehind, Behind, Fits
<1>6. PageBehind'
  BY <1>1, <1>2, <1>n DEF PageBehind, Seen, Behind, Fits
<1>7. Turns' /\ QueueFollows'
  BY <1>1 DEF Turns, QueueFollows
<1>8. \A c \in calls : c.kind # "save" /\ c.kind # "travel"
  BY <1>0, <1>1 DEF InFlight
<1>9. OneEach' /\ InFlight'
  BY <1>1, <1>8 DEF OneEach, InFlight
<1>10. Forward
  BY <1>2, <1>n DEF Forward
<1> QED
  BY <1>3, <1>4, <1>5, <1>6, <1>7, <1>9, <1>10 DEF SavesInv

-----------------------------------------------------------------------------
(* Steps of the database and of the network.                               *)

(* A call of the page ends without a write.                                *)
Fails(c) ==
    /\ calls' = calls \ {c} /\ budget' \in 0..Budget
    /\ IF c.kind = "save" THEN flush' \in {"failed", "conflict"} ELSE flush' = flush
    /\ IF c.kind = "travel" THEN trans' = "failed" ELSE trans' = trans
    /\ UNCHANGED <<db, page, version, latest, dirty, queued, retry, arrival, moves>>

LEMMA FailsKeeps == ASSUME SavesInv, NEW c \in calls, Fails(c) PROVE SavesInv' /\ Forward
<1>0. /\ TypeOK /\ Counted /\ CallsBehind /\ PageBehind
      /\ Turns /\ InFlight /\ OneEach /\ QueueFollows
  BY DEF SavesInv
<1>n. /\ db.ver \in Nat /\ db.st.at \in Nat /\ version \in Nat /\ latest.at \in Nat /\ moves \in Nat
      /\ queued # NoState => queued.at \in Nat
      /\ arrival # NoState => arrival.at \in Nat
      /\ \A d \in calls : d.ver \in Nat /\ d.st.at \in Nat /\ d \in Requests /\ d.st \in States
      /\ latest \in States /\ latest # NoState /\ Seen \in Nat
  BY <1>0, Numbers, SavesAssumption DEF TypeOK
<1>1. /\ calls' = calls \ {c} /\ budget' \in 0..Budget
      /\ c.kind = "save" => flush' \in {"failed", "conflict"}
      /\ c.kind # "save" => flush' = flush
      /\ c.kind = "travel" => trans' = "failed"
      /\ c.kind # "travel" => trans' = trans
      /\ UNCHANGED <<db, page, version, latest, dirty, queued, retry, arrival, moves>>
  BY DEF Fails
<1>2. /\ c.kind = "save" => Playing /\ flush = "sent" /\ trans \notin {"sent", "moved", "failed"}
      /\ c.kind = "travel" => Playing /\ trans = "sent" /\ flush = "idle"
  BY <1>0 DEF InFlight, Turns
<1>3. TypeOK'
  <2>1. flush' \in {"idle", "sent", "saved", "conflict", "failed"}
    BY <1>0, <1>1 DEF TypeOK
  <2>2. trans' \in {"idle", "draining", "sent", "moved", "failed"}
    BY <1>0, <1>1 DEF TypeOK
  <2> QED
    BY <1>0, <1>1, <2>1, <2>2 DEF TypeOK
<1>4. Counted' /\ CallsBehind'
  BY <1>0, <1>1 DEF Counted, CallsBehind, Behind, Fits, Playing
<1>5. PageBehind'
  <2>1. Playing => Seen' = Seen /\ (trans' = "moved" <=> trans = "moved")
    BY <1>1, <1>2 DEF Seen
  <2> QED
    BY <1>0, <1>1, <2>1 DEF PageBehind, Behind, Fits, Playing
<1>6. Turns' /\ QueueFollows'
  BY <1>0, <1>1, <1>2 DEF Turns, QueueFollows, Playing
<1>7. OneEach'
  BY <1>0, <1>1 DEF OneEach
<1>8. InFlight'
  <2> SUFFICES ASSUME NEW d \in calls, d # c
               PROVE  /\ d.kind = "save" =>
                            /\ Playing' /\ flush' = "sent" /\ d.ver = version'
                            /\ d.st.world = latest'.world /\ d.st.at <= latest'.at
                            /\ queued' # NoState => d.st.at <= queued'.at
                      /\ d.kind = "travel" => Playing' /\ trans' = "sent" /\ d.ver = version'
    BY <1>1 DEF InFlight
  <2>1. d.kind = "save" => c.kind # "save"
    BY <1>0 DEF OneEach
  <2>2. d.kind = "travel" => c.kind # "travel"
    BY <1>0 DEF OneEach
  <2> QED
    BY <1>0, <1>1, <2>1, <2>2 DEF InFlight, Playing
<1>9. Forward
  BY <1>1, <1>n DEF Forward
<1> QED
  BY <1>3, <1>4, <1>5, <1>6, <1>7, <1>8, <1>9 DEF SavesInv

(* A save is stored.                                                       *)
Stores(c) ==
    /\ c.kind \in {"save", "orphan"} /\ c.ver = db.ver /\ c.st.world = db.st.world
    /\ db' = [ver |-> db.ver + 1, st |-> c.st, by |-> "page"]
    /\ calls' = calls \ {c} /\ budget' \in 0..Budget
    /\ IF c.kind = "save" THEN flush' \in {"saved", "failed"} ELSE flush' = flush
    /\ UNCHANGED <<page, version, latest, dirty, queued, retry, trans, arrival, moves>>

LEMMA StoresKeeps == ASSUME SavesInv, NEW c \in calls, Stores(c) PROVE SavesInv' /\ Forward
<1>0. /\ TypeOK /\ Counted /\ CallsBehind /\ PageBehind
      /\ Turns /\ InFlight /\ OneEach /\ QueueFollows
  BY DEF SavesInv
<1>n. /\ db.ver \in Nat /\ db.st.at \in Nat /\ version \in Nat /\ latest.at \in Nat /\ moves \in Nat
      /\ queued # NoState => queued.at \in Nat
      /\ arrival # NoState => arrival.at \in Nat
      /\ \A d \in calls : d.ver \in Nat /\ d.st.at \in Nat /\ d \in Requests /\ d.st \in States
      /\ latest \in States /\ latest # NoState /\ Seen \in Nat
  BY <1>0, Numbers, SavesAssumption DEF TypeOK
<1>1. /\ c.kind \in {"save", "orphan"} /\ c.ver = db.ver
      /\ calls' = calls \ {c} /\ budget' \in 0..Budget
      /\ c.kind = "save" => flush' \in {"saved", "failed"}
      /\ c.kind # "save" => flush' = flush
      /\ UNCHANGED <<page, version, latest, dirty, queued, retry, trans, arrival, moves>>
  BY DEF Stores
<1>2. db'.ver = db.ver + 1 /\ db'.st = c.st /\ db'.by = "page"
  BY DEF Stores
<1>3. c.st.at >= db.st.at /\ db.by # "reset"
  BY <1>0, <1>1, <1>n DEF CallsBehind, Behind, Fits
<1>4. c.kind = "save" => /\ Playing /\ flush = "sent" /\ c.ver = version
                         /\ trans \notin {"sent", "moved", "failed"}
                         /\ c.st.world = latest.world /\ c.st.at <= latest.at
                         /\ queued # NoState => c.st.at <= queued.at
  BY <1>0 DEF InFlight, Turns
<1>5. TypeOK'
  <2>1. flush' \in {"idle", "sent", "saved", "conflict", "failed"}
    BY <1>0, <1>1 DEF TypeOK
  <2>2. db' \in [ver : Versions, st : States, by : {"page", "reset", "loaded"}]
    BY <1>n DEF Stores, Versions
  <2> QED
    BY <1>0, <1>1, <2>1, <2>2 DEF TypeOK
<1>6. Counted'
  BY <1>0, <1>1, <1>2 DEF Counted, Playing
<1>7. CallsBehind'
  <2> SUFFICES ASSUME NEW d \in calls
               PROVE  d.ver < db'.ver
    BY <1>1, <1>2, <1>n DEF CallsBehind, Behind
  <2> QED
    BY <1>0, <1>2, <1>n DEF CallsBehind, Behind
<1>8. PageBehind'
  <2> SUFFICES ASSUME Playing
               PROVE  /\ Seen' <= db'.ver
                      /\ Seen' = db'.ver =>
                            /\ trans' = "moved" => Fits(arrival)'
                            /\ trans' # "moved" =>
                                  Fits(latest)' /\ (queued' # NoState => Fits(queued)')
    BY <1>1, <1>2 DEF PageBehind, Behind, Playing
  <2>1. CASE c.kind = "save" /\ flush' = "saved"
    <3>1. Seen' = db'.ver /\ trans' # "moved"
      BY <1>1, <1>2, <1>4, <2>1 DEF Seen
    <3>2. queued # NoState => queued.world = latest.world
      BY <1>0, <1>4, <2>1 DEF QueueFollows
    <3> QED
      BY <1>1, <1>2, <1>4, <1>n, <2>1, <3>1, <3>2 DEF Fits
  <2>2. CASE ~(c.kind = "save" /\ flush' = "saved")
    <3>1. Seen' = Seen
      BY <1>1, <1>4, <2>2 DEF Seen
    <3>2. Seen <= db.ver
      BY <1>0 DEF PageBehind, Behind
    <3> QED
      BY <1>2, <1>n, <3>1, <3>2
  <2> QED
    BY <2>1, <2>2
<1>9. Turns' /\ QueueFollows'
  BY <1>0, <1>1, <1>4 DEF Turns, QueueFollows, Playing
<1>10. OneEach'
  BY <1>0, <1>1 DEF OneEach
<1>11. InFlight'
  <2> SUFFICES ASSUME NEW d \in calls, d # c
               PROVE  /\ d.kind = "save" =>
                            /\ Playing' /\ flush' = "sent" /\ d.ver = version'
                            /\ d.st.world = latest'.world /\ d.st.at <= latest'.at
                            /\ queued' # NoState => d.st.at <= queued'.at
                      /\ d.kind = "travel" => Playing' /\ trans' = "sent" /\ d.ver = version'
    BY <1>1 DEF InFlight
  <2>1. d.kind = "save" => c.kind # "save"
    BY <1>0 DEF OneEach
  <2> QED
    BY <1>0, <1>1, <2>1 DEF InFlight, Playing
<1>12. Forward
  BY <1>2, <1>3 DEF Forward
<1> QED
  BY <1>5, <1>6, <1>7, <1>8, <1>9, <1>10, <1>11, <1>12 DEF SavesInv

LEMMA SaveStateKeeps ==
    ASSUME SavesInv, NEW c \in calls, SaveState(c)
    PROVE  SavesInv' /\ Forward
<1>1. /\ c.kind \in {"save", "orphan"} /\ calls' = calls \ {c}
      /\ UNCHANGED <<page, version, latest, dirty, queued, retry, moves>>
  BY DEF SaveState
<1>2. budget' \in 0..Budget
  BY Disturbed DEF SaveState, SavesInv
<1>3. CASE Current(c) /\ c.st.world = db.st.world
  <2>1. db' = [ver |-> db.ver + 1, st |-> c.st, by |-> "page"]
    BY <1>3 DEF SaveState
  <2>2. \/ Answer(c, "saved")
        \/ c.kind = "save" /\ Answer(c, "failed")
    BY <1>3 DEF SaveState
  <2> QED
    BY <1>1, <1>2, <1>3, <2>1, <2>2, StoresKeeps DEF Stores, Answer, Current
<1>4. CASE ~(Current(c) /\ c.st.world = db.st.world)
  <2>1. db' = db
    BY <1>4 DEF SaveState
  <2>2. Answer(c, "failed") \/ Answer(c, "conflict")
    BY <1>4 DEF SaveState
  <2> QED
    BY <1>1, <1>2, <2>1, <2>2, FailsKeeps DEF Fails, Answer
<1> QED
  BY <1>3, <1>4

(* The player arrives in another world.                                    *)
Travels(c) ==
    /\ c.kind \in {"travel", "left"} /\ c.ver = db.ver /\ moves < MaxMoves
    /\ moves' = moves + 1 /\ calls' = calls \ {c} /\ budget' \in 0..Budget
    /\ \E w \in Worlds :
          db' = [ver |-> db.ver + 1, st |-> [world |-> w, at |-> moves'], by |-> "page"]
    /\ \/ c.kind = "left" /\ trans' = trans /\ arrival' = arrival
       \/ c.kind = "travel" /\ trans' = "moved" /\ arrival' = db'.st
       \/ c.kind = "travel" /\ trans' = "failed" /\ arrival' = arrival
    /\ UNCHANGED <<page, version, latest, dirty, queued, retry, flush>>

LEMMA TravelsKeeps == ASSUME SavesInv, NEW c \in calls, Travels(c) PROVE SavesInv' /\ Forward
<1>0. /\ TypeOK /\ Counted /\ CallsBehind /\ PageBehind
      /\ Turns /\ InFlight /\ OneEach /\ QueueFollows
  BY DEF SavesInv
<1>n. /\ db.ver \in Nat /\ db.st.at \in Nat /\ version \in Nat /\ latest.at \in Nat /\ moves \in Nat
      /\ queued # NoState => queued.at \in Nat
      /\ arrival # NoState => arrival.at \in Nat
      /\ \A d \in calls : d.ver \in Nat /\ d.st.at \in Nat
      /\ latest \in States /\ latest # NoState /\ Seen \in Nat
  BY <1>0, Numbers, SavesAssumption DEF TypeOK
<1>1. /\ c.kind \in {"travel", "left"} /\ c.ver = db.ver /\ moves < MaxMoves
      /\ moves' = moves + 1 /\ calls' = calls \ {c} /\ budget' \in 0..Budget
      /\ UNCHANGED <<page, version, latest, dirty, queued, retry, flush>>
  BY DEF Travels
<1>2. /\ db'.ver = db.ver + 1 /\ db'.st.at = moves + 1 /\ db'.by = "page" /\ db'.st \in States
      /\ db' \in [ver : Versions, st : States, by : {"page", "reset", "loaded"}]
  <2>1. PICK w \in Worlds :
            db' = [ver |-> db.ver + 1, st |-> [world |-> w, at |-> moves'], by |-> "page"]
    BY DEF Travels
  <2>2. [world |-> w, at |-> moves'] \in States
    BY <1>1, <1>n, SavesAssumption DEF States
  <2> QED
    BY <1>1, <1>n, <2>1, <2>2 DEF Versions
<1>3. /\ c.kind = "left" => trans' = trans /\ arrival' = arrival
      /\ c.kind = "travel" => \/ trans' = "moved" /\ arrival' = db'.st
                              \/ trans' = "failed" /\ arrival' = arrival
  BY DEF Travels
<1>4. c.kind = "travel" => Playing /\ trans = "sent" /\ flush = "idle" /\ version = db.ver
  BY <1>0, <1>1 DEF InFlight, Turns
<1>5. db.st.at <= moves /\ db.by # "reset" /\ db'.st # NoState
  BY <1>0, <1>1, <1>2, <1>n, SavesAssumption DEF CallsBehind, Behind, Counted
<1>6. TypeOK'
  <2>1. trans' \in {"idle", "draining", "sent", "moved", "failed"}
    BY <1>0, <1>1, <1>3 DEF TypeOK
  <2>2. arrival' \in States \cup {NoState}
    BY <1>0, <1>1, <1>2, <1>3 DEF TypeOK
  <2>3. moves' \in 0..MaxMoves
    BY <1>1, <1>n, SavesAssumption
  <2> QED
    BY <1>0, <1>1, <1>2, <2>1, <2>2, <2>3 DEF TypeOK
<1>7. Counted'
  <2>1. \A d \in calls' : d.st.at <= moves'
    BY <1>0, <1>1, <1>n DEF Counted
  <2>2. Playing' => latest'.at <= moves' /\ (arrival' # NoState => arrival'.at <= moves')
    BY <1>0, <1>1, <1>2, <1>3, <1>n DEF Counted, Playing
  <2>3. db'.st.at <= moves'
    BY <1>1, <1>2, <1>n
  <2> QED
    BY <2>1, <2>2, <2>3 DEF Counted
<1>8. CallsBehind'
  <2>1. \A d \in calls : d.ver < db'.ver
    BY <1>0, <1>2, <1>n DEF CallsBehind, Behind
  <2> QED
    BY <1>1, <1>2, <1>n, <2>1 DEF CallsBehind, Behind
<1>9. PageBehind'
  <2> SUFFICES ASSUME Playing
               PROVE  /\ Seen' <= db'.ver
                      /\ Seen' = db'.ver =>
                            /\ trans' = "moved" => Fits(arrival)'
                            /\ trans' # "moved" =>
                                  Fits(latest)' /\ (queued' # NoState => Fits(queued)')
    BY <1>1, <1>2 DEF PageBehind, Behind, Playing
  <2>1. CASE c.kind = "travel" /\ trans' = "moved"
    <3>1. Seen' = db'.ver /\ arrival' = db'.st
      BY <1>1, <1>2, <1>3, <1>4, <2>1 DEF Seen
    <3> QED
      BY <1>2, <1>n, <2>1, <3>1 DEF Fits
  <2>2. CASE ~(c.kind = "travel" /\ trans' = "moved")
    <3>1. Seen' = Seen
      BY <1>1, <1>3, <1>4, <2>2 DEF Seen
    <3>2. Seen <= db.ver
      BY <1>0 DEF PageBehind, Behind
    <3> QED
      BY <1>2, <1>n, <3>1, <3>2
  <2> QED
    BY <2>1, <2>2
<1>10. Turns' /\ QueueFollows'
  BY <1>0, <1>1, <1>3, <1>4, <1>5 DEF Turns, QueueFollows, Playing
<1>11. OneEach'
  BY <1>0, <1>1 DEF OneEach
<1>12. InFlight'
  <2> SUFFICES ASSUME NEW d \in calls, d # c
               PROVE  /\ d.kind = "save" =>
                            /\ Playing' /\ flush' = "sent" /\ d.ver = version'
                            /\ d.st.world = latest'.world /\ d.st.at <= latest'.at
                            /\ queued' # NoState => d.st.at <= queued'.at
                      /\ d.kind = "travel" => Playing' /\ trans' = "sent" /\ d.ver = version'
    BY <1>1 DEF InFlight
  <2>1. d.kind = "travel" => c.kind = "left"
    BY <1>0, <1>1 DEF OneEach
  <2> QED
    BY <1>0, <1>1, <1>3, <2>1 DEF InFlight, Playing
<1>13. Forward
  BY <1>2, <1>5, <1>n DEF Forward
<1> QED
  BY <1>6, <1>7, <1>8, <1>9, <1>10, <1>11, <1>12, <1>13 DEF SavesInv

LEMMA TransitionWorldKeeps ==
    ASSUME SavesInv, NEW c \in calls, TransitionWorld(c)
    PROVE  SavesInv' /\ Forward
<1>1. /\ c.kind \in {"travel", "left"} /\ calls' = calls \ {c}
      /\ UNCHANGED <<page, version, latest, dirty, queued, retry, flush>>
  BY DEF TransitionWorld
<1>2. PICK answer \in {"answered", "lost"} :
          /\ IF answer = "lost" THEN c.kind = "travel" /\ Disturb ELSE UNCHANGED budget
          /\ IF Current(c) /\ moves < MaxMoves
             THEN /\ moves' = moves + 1
                  /\ \E w \in Worlds \ {db.st.world} :
                        db' = [ver |-> db.ver + 1, st |-> [world |-> w, at |-> moves'],
                               by |-> "page"]
             ELSE UNCHANGED <<db, moves>>
          /\ trans' = IF c.kind = "left" THEN trans
                      ELSE IF answer = "answered" /\ Current(c) /\ moves < MaxMoves
                           THEN "moved" ELSE "failed"
          /\ arrival' = IF trans' = "moved" /\ c.kind = "travel" THEN db'.st ELSE arrival
  BY DEF TransitionWorld
<1>3. budget' \in 0..Budget
  BY <1>2, Disturbed DEF SavesInv
<1>4. CASE Current(c) /\ moves < MaxMoves
  <2>1. /\ moves' = moves + 1
        /\ \E w \in Worlds :
              db' = [ver |-> db.ver + 1, st |-> [world |-> w, at |-> moves'], by |-> "page"]
    BY <1>2, <1>4
  <2>2. \/ c.kind = "left" /\ trans' = trans /\ arrival' = arrival
        \/ c.kind = "travel" /\ trans' = "moved" /\ arrival' = db'.st
        \/ c.kind = "travel" /\ trans' = "failed" /\ arrival' = arrival
    BY <1>1, <1>2, <1>4
  <2> QED
    BY <1>1, <1>3, <1>4, <2>1, <2>2, TravelsKeeps DEF Travels, Current
<1>5. CASE ~(Current(c) /\ moves < MaxMoves)
  <2>1. UNCHANGED <<db, moves>>
    BY <1>2, <1>5
  <2>2. IF c.kind = "travel" THEN trans' = "failed" ELSE trans' = trans
    BY <1>1, <1>2, <1>5
  <2>3. UNCHANGED arrival
    BY <1>1, <1>2, <2>2
  <2> QED
    BY <1>1, <1>3, <2>1, <2>2, <2>3, FailsKeeps DEF Fails
<1> QED
  BY <1>4, <1>5

LEMMA CallLostKeeps ==
    ASSUME SavesInv, NEW c \in calls, CallLost(c)
    PROVE  SavesInv' /\ Forward
<1>1. budget' \in 0..Budget
  BY Disturbed DEF CallLost, SavesInv
<1>2. Fails(c)
  BY <1>1 DEF CallLost, Fails
<1> QED
  BY <1>2, FailsKeeps

(* An operator's reset is ahead of everything that is known or on its way. *)
LEMMA ResetKeeps == ASSUME SavesInv, AdminReset PROVE SavesInv' /\ Forward
<1>0. /\ TypeOK /\ Counted /\ CallsBehind /\ PageBehind
      /\ Turns /\ InFlight /\ OneEach /\ QueueFollows
  BY DEF SavesInv
<1>n. /\ db.ver \in Nat /\ db.st.at \in Nat /\ version \in Nat /\ latest.at \in Nat /\ moves \in Nat
      /\ queued # NoState => queued.at \in Nat
      /\ arrival # NoState => arrival.at \in Nat
      /\ \A d \in calls : d.ver \in Nat /\ d.st.at \in Nat
      /\ latest \in States /\ latest # NoState /\ Seen \in Nat
  BY <1>0, Numbers, SavesAssumption DEF TypeOK
<1>1. /\ moves < MaxMoves /\ moves' = moves + 1 /\ budget' \in 0..Budget
      /\ UNCHANGED <<page, version, latest, dirty, queued, retry, flush, trans, arrival, calls>>
  BY <1>0, Disturbed DEF AdminReset, Step, pageVars
<1>2. /\ db'.ver = db.ver + 1 /\ db'.st.at = moves + 1 /\ db'.by = "reset"
      /\ db' \in [ver : Versions, st : States, by : {"page", "reset", "loaded"}]
  <2>1. PICK w \in Worlds :
            db' = [ver |-> db.ver + 1, st |-> [world |-> w, at |-> moves'], by |-> "reset"]
    BY DEF AdminReset
  <2>2. [world |-> w, at |-> moves'] \in States
    BY <1>1, <1>n, SavesAssumption DEF States
  <2> QED
    BY <1>1, <1>n, <2>1, <2>2 DEF Versions
<1>3. TypeOK'
  <2>1. moves' \in 0..MaxMoves
    BY <1>1, <1>n, SavesAssumption
  <2> QED
    BY <1>0, <1>1, <1>2, <2>1 DEF TypeOK
<1>4. Counted'
  <2>1. \A d \in calls' : d.st.at <= moves'
    BY <1>0, <1>1, <1>n DEF Counted
  <2>2. Playing' => latest'.at <= moves' /\ (arrival' # NoState => arrival'.at <= moves')
    BY <1>0, <1>1, <1>n DEF Counted, Playing
  <2>3. db'.st.at <= moves'
    BY <1>1, <1>2, <1>n
  <2> QED
    BY <2>1, <2>2, <2>3 DEF Counted
<1>5. CallsBehind'
  <2>1. \A d \in calls : d.ver < db'.ver
    BY <1>0, <1>2, <1>n DEF CallsBehind, Behind
  <2> QED
    BY <1>1, <1>2, <1>n, <2>1 DEF CallsBehind, Behind
<1>6. PageBehind'
  <2> SUFFICES ASSUME Playing PROVE Seen' < db'.ver
    BY <1>1, <1>2, <1>n DEF PageBehind, Behind, Playing, Seen
  <2>1. Seen' = Seen /\ Seen <= db.ver
    BY <1>0, <1>1 DEF Seen, PageBehind, Behind
  <2> QED
    BY <1>2, <1>n, <2>1
<1>7. Turns' /\ QueueFollows' /\ OneEach' /\ InFlight'
  BY <1>0, <1>1 DEF Turns, QueueFollows, OneEach, InFlight, Playing
<1>8. Forward
  BY <1>0, <1>2, <1>n DEF Forward, Counted
<1> QED
  BY <1>3, <1>4, <1>5, <1>6, <1>7, <1>8 DEF SavesInv

LEMMA SavesStep == SavesInv /\ [Next]_vars => SavesInv' /\ Forward
<1> SUFFICES ASSUME SavesInv, [Next]_vars PROVE SavesInv' /\ Forward
  OBVIOUS
<1>1. CASE UNCHANGED vars
  <2>1. db.st.at \in Nat
    BY Numbers DEF SavesInv
  <2> QED
    BY <1>1, <2>1 DEF vars, pageVars, SavesInv, TypeOK, Counted, CallsBehind, PageBehind, Behind,
       Fits, Seen, Turns, InFlight, OneEach, QueueFollows, Playing, Forward
<1> QED
  BY <1>1, MoveKeeps, AskersAsk, AskingKeeps, FlushAnsweredKeeps, BeginTransitionKeeps,
     AskTransitionKeeps, TransitionAnsweredKeeps, HideKeeps, LeaversLeave, LeavingKeeps,
     BootstrapKeeps, ResetKeeps, SaveStateKeeps, TransitionWorldKeeps, CallLostKeeps DEF Next

(* Nobody knows a version that is still to come; what the page holds and   *)
(* what is on its way at the current version fits the stored position; and *)
(* a save and a transition are never in progress at once.                  *)
THEOREM SavesInvariant == Spec => []SavesInv
  BY SavesInit, SavesStep, PTL DEF Spec

LEMMA InvMeansSavesFit == SavesInv => CurrentSavesFitWorld
  BY DEF SavesInv, CallsBehind, Fits, CurrentSavesFitWorld

(* CurrentSavesFitWorld: a save at the current version is about the world  *)
(* the player is in, for every set of worlds and however many pages and    *)
(* late calls there are.                                                   *)
THEOREM SavesFitWorld == Spec => []CurrentSavesFitWorld
  BY SavesInvariant, InvMeansSavesFit, PTL

(* NeverStale: the stored position never goes back in time.                *)
THEOREM PositionsAdvance == Spec => NeverStale
<1>1. SavesInv /\ [Next]_vars => [db'.st.at >= db.st.at]_vars
  BY SavesStep DEF Forward
<1> QED
  BY <1>1, SavesInvariant, PTL DEF Spec, NeverStale

(* ResetStands: no page that has not loaded an operator's reset writes     *)
(* over it.                                                                *)
THEOREM ResetsStand == Spec => ResetStands
<1>1. SavesInv /\ [Next]_vars => [db.by = "reset" => db'.by # "page"]_vars
  BY SavesStep DEF Forward
<1> QED
  BY <1>1, SavesInvariant, PTL DEF Spec, ResetStands
-----------------------------------------------------------------------------
(* The connection of the page, which shares nothing with its saves.        *)
Statuses == {"connecting", "reconnecting", "connected", "unavailable", "blocked", "disconnected"}
Answers == {"admitted", "otherWorld", "retryable", "denied"}

(* What the page's side may be; what the two ends of a socket may be; and  *)
(* what the server may have answered.                                      *)
ClientOK ==
    /\ disposed \in BOOLEAN /\ ticket \in BOOLEAN /\ timer \in BOOLEAN /\ worldMoved \in BOOLEAN
    /\ attempt \in 0..MaxAttempts /\ status \in Statuses /\ current \in Sockets \cup {NoSocket}

EndsOK ==
    /\ net \in [Sockets -> {"none", "connecting", "open"}]
    /\ srv \in [Sockets -> {"idle", "asked", "admitted", "gone"}]

MailOK == mail \in [Sockets -> Seq(Answers)]

(* A disposed connection is at rest.                                       *)
AtRest == disposed => current = NoSocket /\ ~timer /\ status = "disconnected"

(* A disposed connection is at rest; one that is not is never stranded.    *)
LinkInv == LinkTypeOK /\ AtRest /\ NeverStranded

(* What a step of a disposed connection may not do.                        *)
LinkFinal ==
    disposed => /\ current' = NoSocket /\ ~timer' /\ status' = "disconnected"
                /\ \A s \in Sockets : net[s] = "none" => net'[s] = "none"

LEMMA LinkTypes ==
    LinkTypeOK <=> ClientOK /\ EndsOK /\ MailOK /\ disturbances \in 0..MaxDisturbances
  BY DEF LinkTypeOK, ClientOK, EndsOK, MailOK, Statuses, Answers

(* Starting a connection leaves a ticket request under way.                *)
LEMMA ConnectStarts ==
    ASSUME ~disposed, Connect, ticket \in BOOLEAN, status \in Statuses
    PROVE  ticket' = TRUE /\ status' \in Statuses
  BY DEF Connect, Statuses

(* Scheduling a reconnect leaves a timer armed, unless the attempts are    *)
(* used up, of which the player is told.                                   *)
LEMMA ScheduleEnds ==
    ASSUME ClientOK, NEW st \in Statuses, ScheduleReconnect(st)
    PROVE  /\ timer' = TRUE \/ (status' = "unavailable" /\ attempt' = MaxAttempts)
           /\ timer' \in BOOLEAN /\ attempt' \in 0..MaxAttempts /\ status' \in Statuses
<1>1. timer \in BOOLEAN /\ attempt \in 0..MaxAttempts /\ MaxAttempts \in Nat
  BY ClientAssumption DEF ClientOK
<1>2. CASE timer
  BY <1>1, <1>2 DEF ScheduleReconnect
<1>3. CASE ~timer /\ Exhausted
  <2>1. attempt = MaxAttempts
    BY <1>1, <1>3 DEF Exhausted
  <2> QED
    BY <1>1, <1>3, <2>1 DEF ScheduleReconnect, Statuses
<1>4. CASE ~timer /\ ~Exhausted
  <2>1. attempt + 1 \in 0..MaxAttempts
    BY <1>1, <1>4 DEF Exhausted
  <2> QED
    BY <1>1, <1>4, <2>1 DEF ScheduleReconnect, Statuses
<1> QED
  BY <1>1, <1>2, <1>3, <1>4

(* A message that is posted to one socket stays among the answers.         *)
LEMMA PostKeeps ==
    ASSUME MailOK, NEW s \in Sockets, NEW m \in Answers
    PROVE  [mail EXCEPT ![s] = Append(@, m)] \in [Sockets -> Seq(Answers)]
<1>1. Append(mail[s], m) \in Seq(Answers)
  BY DEF MailOK
<1> QED
  BY <1>1 DEF MailOK

LEMMA LinkStep ==
    ASSUME LinkInv, LinkNext
    PROVE  LinkInv' /\ LinkFinal
<1>0. /\ ClientOK /\ EndsOK /\ MailOK /\ AtRest /\ NeverStranded
      /\ NoSocket \notin Sockets /\ MaxAttempts \in Nat /\ MaxDisturbances \in Nat
  BY LinkTypes, ClientAssumption DEF LinkInv
<1>1. disturbances' \in 0..MaxDisturbances
  <2>1. disturbances \in 0..MaxDisturbances
    BY LinkTypes DEF LinkInv
  <2>2. disturbances' = disturbances \/ (disturbances > 0 /\ disturbances' = disturbances - 1)
    BY DEF LinkNext, Calm, Disturbance, TicketRefused, TicketDropped, TimerFires,
       Visible, RetryNow, Dispose, WorldPublished, TicketIssued,
       SocketOpens, Deliver, SocketCloses, ServerAdmits, ServerComplains,
       NetworkLost, ServerRefuses
  <2> QED
    BY <1>0, <2>1, <2>2
<1> DEFINE Goal == ClientOK' /\ EndsOK' /\ MailOK' /\ AtRest' /\ (NeverStranded)' /\ LinkFinal
           ClientStill == UNCHANGED clientVars /\ worldMoved' \in BOOLEAN
           NothingOpens == \A s \in Sockets : net[s] = "none" => net'[s] = "none"
<1>u. ASSUME ClientStill, NothingOpens
      PROVE  ClientOK' /\ AtRest' /\ (NeverStranded)' /\ LinkFinal
  BY <1>0, <1>u DEF clientVars, ClientOK, AtRest, NeverStranded, LinkFinal
<1>2. ASSUME NEW denied \in BOOLEAN, TicketRefused(denied) PROVE Goal
  <2>1. /\ ticket /\ ~disposed /\ disposed' = disposed /\ current' = current /\ ~ticket' /\ ticket' \in BOOLEAN
        /\ worldMoved' = worldMoved /\ net' = net /\ srv' = srv /\ mail' = mail
    BY <1>2 DEF TicketRefused, socketVars
  <2>2. /\ timer' = TRUE \/ status' = "blocked" \/ (status' = "unavailable" /\ attempt' = MaxAttempts)
        /\ timer' \in BOOLEAN /\ attempt' \in 0..MaxAttempts /\ status' \in Statuses
    <3>1. CASE denied
      BY <1>0, <1>2, <3>1 DEF TicketRefused, ClientOK, Statuses
    <3>2. CASE ~denied
      <4>1. ScheduleReconnect("unavailable") /\ "unavailable" \in Statuses
        BY <1>2, <3>2 DEF TicketRefused, Statuses
      <4> QED
        BY <1>0, <4>1, ScheduleEnds
    <3> QED
      BY <3>1, <3>2
  <2> QED
    BY <1>0, <2>1, <2>2 DEF ClientOK, EndsOK, MailOK, AtRest, NeverStranded, LinkFinal
<1>3. ASSUME TicketDropped PROVE Goal
  BY <1>0, <1>3 DEF TicketDropped, socketVars, ClientOK, EndsOK, MailOK, AtRest,
     NeverStranded, LinkFinal
<1>4. ASSUME TimerFires PROVE Goal
  <2>1. /\ timer /\ timer' = FALSE /\ disposed' = disposed /\ attempt' = attempt /\ current' = current
        /\ net' = net /\ srv' = srv /\ mail' = mail /\ worldMoved' = worldMoved
    BY <1>4 DEF TimerFires, socketVars
  <2>2. ~disposed
    BY <1>0, <2>1 DEF AtRest
  <2>3. ticket' = TRUE /\ status' \in Statuses
    BY <1>0, <1>4, <2>2, ConnectStarts DEF TimerFires, ClientOK
  <2> QED
    BY <1>0, <2>1, <2>2, <2>3 DEF ClientOK, EndsOK, MailOK, AtRest, NeverStranded, LinkFinal
<1>5. ASSUME Resync, current \in Sockets PROVE MailOK'
  <2>1. "denied" \in Answers
    BY DEF Answers
  <2> QED
    BY <1>0, <1>5, <2>1, PostKeeps DEF Resync, MailOK
<1>6. ASSUME Visible PROVE Goal
  <2>1. /\ ~disposed /\ disposed' = disposed /\ timer' = timer /\ attempt' = attempt /\ current' = current
        /\ net' = net /\ srv' = srv /\ worldMoved' = worldMoved
    BY <1>6 DEF Visible
  <2>2. CASE Open
    <3>1. Resync /\ ticket' = ticket /\ status' = status /\ current \in Sockets
      BY <1>0, <1>6, <2>2 DEF Visible, Open, ClientOK
    <3>2. MailOK'
      BY <1>5, <3>1
    <3> QED
      BY <1>0, <2>1, <3>1, <3>2 DEF ClientOK, EndsOK, AtRest, NeverStranded, LinkFinal
  <2>3. CASE ~Open
    <3>1. Connect /\ mail' = mail
      BY <1>6, <2>3 DEF Visible
    <3>2. ticket' = TRUE /\ status' \in Statuses
      BY <1>0, <2>1, <3>1, ConnectStarts DEF ClientOK
    <3> QED
      BY <1>0, <2>1, <3>1, <3>2 DEF ClientOK, EndsOK, MailOK, AtRest, NeverStranded, LinkFinal
  <2> QED
    BY <2>2, <2>3
<1>7. ASSUME RetryNow PROVE Goal
  <2>1. /\ ~disposed /\ disposed' = disposed /\ current' = current
        /\ net' = net /\ srv' = srv /\ worldMoved' = worldMoved
    BY <1>7 DEF RetryNow
  <2>2. CASE Open
    <3>1. /\ Resync /\ ticket' = ticket /\ status' = status /\ timer' = timer /\ attempt' = attempt
          /\ current \in Sockets
      BY <1>0, <1>7, <2>2 DEF RetryNow, Open, ClientOK
    <3>2. MailOK'
      BY <1>5, <3>1
    <3> QED
      BY <1>0, <2>1, <3>1, <3>2 DEF ClientOK, EndsOK, AtRest, NeverStranded, LinkFinal
  <2>3. CASE ~Open
    <3>1. Connect /\ mail' = mail /\ timer' = FALSE /\ attempt' = 0
      BY <1>7, <2>3 DEF RetryNow
    <3>2. ticket' = TRUE /\ status' \in Statuses
      BY <1>0, <2>1, <3>1, ConnectStarts DEF ClientOK
    <3>3. attempt' \in 0..MaxAttempts
      BY <1>0, <3>1
    <3> QED
      BY <1>0, <2>1, <3>1, <3>2, <3>3 DEF ClientOK, EndsOK, MailOK, AtRest, NeverStranded, LinkFinal
  <2> QED
    BY <2>2, <2>3
<1>8. ASSUME Dispose PROVE Goal
  <2>1. /\ disposed' = TRUE /\ timer' = FALSE /\ status' = "disconnected" /\ current' = NoSocket
        /\ ticket' = ticket /\ attempt' = attempt /\ worldMoved' = worldMoved /\ ~disposed
    BY <1>8 DEF Dispose
  <2>2. EndsOK' /\ MailOK'
    <3>1. CASE current = NoSocket
      BY <1>0, <1>8, <3>1 DEF Dispose, socketVars, EndsOK, MailOK
    <3>2. CASE current # NoSocket
      <4>1. /\ net' = [net EXCEPT ![current] = "none"] /\ srv' = [srv EXCEPT ![current] = "gone"]
            /\ mail' = [mail EXCEPT ![current] = <<>>]
        BY <1>8, <3>2 DEF Dispose
      <4>2. <<>> \in Seq(Answers)
        OBVIOUS
      <4> QED
        BY <1>0, <4>1, <4>2 DEF EndsOK, MailOK
    <3> QED
      BY <3>1, <3>2
  <2> QED
    BY <1>0, <2>1, <2>2 DEF ClientOK, AtRest, NeverStranded, LinkFinal, Statuses
<1>9. ASSUME WorldPublished PROVE Goal
  <2>1. ClientStill /\ NothingOpens /\ net' = net /\ srv' = srv /\ mail' = mail
    BY <1>9 DEF WorldPublished, socketVars
  <2> QED
    BY <1>0, <1>u, <2>1 DEF EndsOK, MailOK
<1>10. ASSUME NEW s \in Sockets, TicketIssued(s) PROVE Goal
  <2>1. /\ ticket /\ ~disposed /\ ticket' = FALSE /\ current' = s /\ disposed' = disposed /\ timer' = timer
        /\ attempt' = attempt /\ status' = status /\ mail' = mail /\ worldMoved' = worldMoved
    BY <1>10 DEF TicketIssued, Usable
  <2>2. EndsOK'
    BY <1>0, <1>10 DEF TicketIssued, EndsOK
  <2> QED
    BY <1>0, <2>1, <2>2 DEF ClientOK, MailOK, AtRest, NeverStranded, LinkFinal
<1>11. ASSUME NEW s \in Sockets, SocketOpens(s) PROVE Goal
  <2>1. ClientStill /\ NothingOpens /\ mail' = mail /\ EndsOK'
    BY <1>0, <1>11 DEF SocketOpens, EndsOK, ClientOK
  <2> QED
    BY <1>0, <1>u, <2>1 DEF MailOK
<1>12. ASSUME NEW s \in Sockets, Deliver(s) PROVE Goal
  <2> DEFINE m == Head(mail[s])
             heard == s = current /\ ~disposed
  <2>1. /\ disposed' = disposed /\ ticket' = ticket /\ timer' = timer /\ current' = current
        /\ worldMoved' = worldMoved /\ net[s] = "open" /\ mail[s] # <<>>
        /\ mail' = [mail EXCEPT ![s] = Tail(@)] /\ net' = net /\ srv' = srv
    BY <1>12 DEF Deliver
  <2>2. IF heard THEN status' \in Statuses /\ attempt' \in 0..MaxAttempts
                 ELSE status' = status /\ attempt' = attempt
    BY <1>0, <1>12 DEF Deliver, ClientOK, Statuses
  <2>3. EndsOK' /\ NothingOpens
    BY <1>0, <2>1 DEF EndsOK
  <2>4. MailOK'
    <3>1. mail[s] \in Seq(Answers)
      BY <1>0 DEF MailOK
    <3>2. Tail(mail[s]) \in Seq(Answers)
      BY <2>1, <3>1
    <3> QED
      BY <1>0, <2>1, <3>2 DEF MailOK
  <2> HIDE DEF m
  <2>5. CASE heard
    BY <1>0, <2>1, <2>2, <2>3, <2>4, <2>5 DEF ClientOK, AtRest, NeverStranded, LinkFinal
  <2>6. CASE ~heard
    BY <1>0, <2>1, <2>2, <2>3, <2>4, <2>6 DEF ClientOK, AtRest, NeverStranded, LinkFinal
  <2> QED
    BY <2>5, <2>6
<1>13. ASSUME NEW s \in Sockets, SocketCloses(s) PROVE Goal
  <2>1. /\ disposed' = disposed /\ ticket' = ticket /\ worldMoved' = worldMoved /\ srv' = srv /\ mail' = mail
        /\ net' = [net EXCEPT ![s] = "none"]
    BY <1>13 DEF SocketCloses, IsCurrent
  <2>2. EndsOK' /\ NothingOpens
    BY <1>0, <2>1 DEF EndsOK
  <2>3. CASE s # current
    <3>1. current' = current /\ status' = status /\ timer' = timer /\ attempt' = attempt
      BY <1>13, <2>3 DEF SocketCloses, IsCurrent
    <3> QED
      BY <1>0, <2>1, <2>2, <3>1 DEF ClientOK, MailOK, AtRest, NeverStranded, LinkFinal
  <2>4. CASE s = current /\ StopsRetrying
    <3>1. current' = NoSocket /\ status' = status /\ timer' = timer /\ attempt' = attempt
      BY <1>13, <2>4 DEF SocketCloses, IsCurrent
    <3>2. disposed \/ status = "blocked"
      BY <2>4 DEF StopsRetrying
    <3> QED
      BY <1>0, <2>1, <2>2, <3>1, <3>2 DEF ClientOK, MailOK, AtRest, NeverStranded, LinkFinal
  <2>5. CASE s = current /\ ~StopsRetrying
    <3>1. current' = NoSocket /\ ScheduleReconnect(status) /\ ~disposed
      BY <1>13, <2>5 DEF SocketCloses, IsCurrent, StopsRetrying
    <3>2. /\ timer' = TRUE \/ (status' = "unavailable" /\ attempt' = MaxAttempts)
          /\ timer' \in BOOLEAN /\ attempt' \in 0..MaxAttempts /\ status' \in Statuses
      <4>1. status \in Statuses
        BY <1>0 DEF ClientOK
      <4> QED
        BY <1>0, <3>1, <4>1, ScheduleEnds
    <3> QED
      BY <1>0, <2>1, <2>2, <3>1, <3>2 DEF ClientOK, MailOK, AtRest, NeverStranded, LinkFinal
  <2> QED
    BY <2>3, <2>4, <2>5
<1>14. ASSUME NEW s \in Sockets, ServerAdmits(s) PROVE Goal
  <2>1. /\ ClientStill /\ NothingOpens /\ net' = net
        /\ srv' = [t \in Sockets |-> IF t = s THEN "admitted"
                                     ELSE IF srv[t] = "admitted" THEN "gone" ELSE srv[t]]
    BY <1>0, <1>14 DEF ServerAdmits, ClientOK
  <2>2. EndsOK'
    BY <1>0, <2>1 DEF EndsOK
  <2>3. MailOK'
    <3>1. PICK m \in Answers : mail' = [mail EXCEPT ![s] = Append(@, m)]
      BY <1>14 DEF ServerAdmits, Answers
    <3> QED
      BY <1>0, <3>1, PostKeeps DEF MailOK
  <2> QED
    BY <1>u, <2>1, <2>2, <2>3
<1>15. ASSUME NEW s \in Sockets, NEW answer \in {"retryable", "denied"}, ServerRefuses(s, answer)
       PROVE  Goal
  <2>1. /\ ClientStill /\ NothingOpens /\ net' = net /\ srv' = [srv EXCEPT ![s] = "gone"]
        /\ mail' = [mail EXCEPT ![s] = Append(@, answer)] /\ answer \in Answers
    BY <1>0, <1>15 DEF ServerRefuses, ClientOK, Answers
  <2>2. EndsOK' /\ MailOK'
    BY <1>0, <2>1, PostKeeps DEF EndsOK, MailOK
  <2> QED
    BY <1>u, <2>1, <2>2
<1>16. ASSUME NEW s \in Sockets, ServerComplains(s) PROVE Goal
  <2>1. /\ ClientStill /\ NothingOpens /\ net' = net /\ srv' = srv
        /\ mail' = [mail EXCEPT ![s] = Append(@, "retryable")] /\ "retryable" \in Answers
    BY <1>0, <1>16 DEF ServerComplains, ClientOK, Answers
  <2>2. EndsOK' /\ MailOK'
    BY <1>0, <2>1, PostKeeps DEF EndsOK, MailOK
  <2> QED
    BY <1>u, <2>1, <2>2
<1>17. ASSUME NEW s \in Sockets, NetworkLost(s) PROVE Goal
  <2>1. ClientStill /\ NothingOpens /\ net' = net /\ srv' = [srv EXCEPT ![s] = "gone"] /\ mail' = mail
    BY <1>0, <1>17 DEF NetworkLost, ClientOK
  <2>2. EndsOK' /\ MailOK'
    BY <1>0, <2>1 DEF EndsOK, MailOK
  <2> QED
    BY <1>u, <2>1, <2>2
<1> HIDE DEF Goal
<1>18. Goal
  BY <1>2, <1>3, <1>4, <1>6, <1>7, <1>8, <1>9, <1>10, <1>11, <1>12, <1>13, <1>14, <1>15, <1>16, <1>17
  DEF LinkNext
<1>19. (LinkTypeOK)'
  BY <1>1, <1>18, LinkTypes DEF Goal, LinkTypeOK, ClientOK, EndsOK, MailOK, Statuses, Answers
<1> QED
  BY <1>18, <1>19 DEF Goal, LinkInv

LEMMA LinkStart ==
    ASSUME LinkInit
    PROVE  LinkInv
<1>0. 0 \in 0..MaxAttempts /\ MaxDisturbances \in 0..MaxDisturbances
  BY ClientAssumption
<1>1. ClientOK /\ disturbances \in 0..MaxDisturbances /\ AtRest /\ NeverStranded
  BY <1>0 DEF LinkInit, ClientOK, AtRest, NeverStranded, Statuses
<1>3. EndsOK
  BY DEF LinkInit, EndsOK
<1>2. MailOK
  <2>1. <<>> \in Seq(Answers)
    OBVIOUS
  <2> QED
    BY <2>1 DEF LinkInit, MailOK
<1> QED
  BY <1>1, <1>2, <1>3, LinkTypes DEF LinkInv

LEMMA LinkStutters ==
    ASSUME LinkInv, UNCHANGED linkVars
    PROVE  LinkInv' /\ LinkFinal
  BY DEF linkVars, clientVars, socketVars, LinkInv, LinkFinal, AtRest, LinkTypeOK,
     NeverStranded

(* The connection's states stay within their types, a disposed connection  *)
(* is at rest, and one that is not is never stranded.                      *)
THEOREM ConnectionInvariant == LinkSpec => []LinkInv
<1>1. LinkInit => LinkInv
  BY LinkStart
<1>2. LinkInv /\ [LinkNext]_linkVars => LinkInv'
  BY LinkStep, LinkStutters
<1> QED
  BY <1>1, <1>2, PTL DEF LinkSpec

(* NeverStranded: whatever is lost, refused or answered late, and however  *)
(* often, a client with no socket, no ticket request and no timer was told *)
(* that it may not play or used up its attempts.                           *)
THEOREM NeverLeftStranded == LinkSpec => []NeverStranded
<1>1. LinkInv => NeverStranded
  BY DEF LinkInv
<1> QED
  BY <1>1, ConnectionInvariant, PTL

(* DisposedIsFinal: after dispose() the connection opens no socket, arms   *)
(* no timer and publishes nothing more.                                    *)
THEOREM DisposedStaysDisposed == LinkSpec => DisposedIsFinal
<1>1. LinkInv /\ [LinkNext]_linkVars => [LinkFinal]_linkVars
  BY LinkStep, LinkStutters
<1> QED
  BY <1>1, ConnectionInvariant, PTL DEF LinkSpec, DisposedIsFinal, LinkFinal
=============================================================================
