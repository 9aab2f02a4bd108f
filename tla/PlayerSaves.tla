----------------------------- MODULE PlayerSaves -----------------------------
(***************************************************************************)
(* How the player's safe position reaches the database: the save queue of  *)
(* apps/game-client/src/app/use-player-persistence.ts, the world           *)
(* transition of GameWorld.tsx that borrows its version, and the two SQL   *)
(* functions that accept a write only at the version the page last read.   *)
(* One player, one page at a time; a page that is left or sent away may    *)
(* have calls on their way to the database when the next page loads.       *)
(* A position is the world it is in and a stamp that tells when the player *)
(* was there.                                                              *)
(***************************************************************************)
EXTENDS Integers, FiniteSets

CONSTANTS Worlds, NoState,
          MaxMoves,   \* steps of the player, travel and resets included
          Budget      \* how often the page is hidden, closed or loaded, or a call fails

States == [world : Worlds, at : 0..MaxMoves]

ASSUME SavesAssumption ==
    Worlds # {} /\ NoState \notin States /\ MaxMoves \in Nat /\ Budget \in Nat

VARIABLES
    db,         \* the profile row: [ver, st, by]; by is who wrote it last, and
                \* for a reset whether a page has loaded it
    page,       \* is the world shown?
    version,    \* gameStateVersion
    latest,     \* latestState
    dirty,      \* WorldScene: moved since the last checkpoint
    queued,     \* queuedState
    retry,      \* retryRequired
    flush,      \* activeFlush: "idle", "sent", or the answer that arrived
    trans,      \* transitionInProgress, and where handleExit stands
    arrival,    \* the state in the answer to a transition
    calls,      \* requests that have not reached the database
    moves, budget

pageVars == <<page, version, latest, dirty, queued, retry, flush, trans, arrival>>
vars == <<db, pageVars, calls, moves, budget>>

Versions == Nat \ {0}   \* it counts the writes of the row
Requests == [kind : {"save", "orphan", "travel", "left"}, st : States, ver : Versions]

TypeOK ==
    /\ db \in [ver : Versions, st : States, by : {"page", "reset", "loaded"}]
    /\ page \in {"playing", "gone"}
    /\ version \in Versions /\ latest \in States /\ queued \in States \cup {NoState}
    /\ dirty \in BOOLEAN /\ retry \in BOOLEAN
    /\ flush \in {"idle", "sent", "saved", "conflict", "failed"}
    /\ trans \in {"idle", "draining", "sent", "moved", "failed"}
    /\ arrival \in States \cup {NoState}
    /\ calls \subseteq Requests
    /\ moves \in 0..MaxMoves /\ budget \in 0..Budget

Init ==
    /\ \E w \in Worlds : db = [ver |-> 1, st |-> [world |-> w, at |-> 0], by |-> "page"]
    /\ page = "playing" /\ version = db.ver /\ latest = db.st
    /\ dirty = FALSE /\ queued = NoState /\ retry = FALSE
    /\ flush = "idle" /\ trans = "idle" /\ arrival = NoState
    /\ calls = {} /\ moves = 0 /\ budget = Budget

Playing == page = "playing"
Disturb == budget > 0 /\ budget' = budget - 1
Step == moves < MaxMoves /\ moves' = moves + 1
Call(kind, st) == [kind |-> kind, st |-> st, ver |-> version]

(* flushQueued once something is queued: one save at a time.               *)
FlushQueued(st) ==
    IF flush = "idle"
    THEN flush' = "sent" /\ queued' = NoState /\ calls' = calls \cup {Call("save", st)}
    ELSE queued' = st /\ UNCHANGED <<flush, calls>>

(* The scene moves the player and reports it (noteState).                  *)
Move ==
    /\ Playing /\ trans = "idle" /\ Step
    /\ latest' = [latest EXCEPT !.at = moves'] /\ dirty' = TRUE
    /\ UNCHANGED <<db, page, version, queued, retry, flush, trans, arrival, calls, budget>>

Cleaned == dirty /\ dirty' = FALSE

(* checkpoint, every few seconds while the scene is dirty.                 *)
Checkpoint ==
    /\ Playing /\ trans = "idle" /\ Cleaned
    /\ IF retry THEN queued' = latest /\ UNCHANGED <<flush, calls>> ELSE FlushQueued(latest)
    /\ UNCHANGED <<db, page, version, latest, retry, trans, arrival, moves, budget>>

(* retry(), the player's button.                                           *)
Retry ==
    /\ Playing /\ retry /\ trans = "idle"
    /\ retry' = FALSE /\ FlushQueued(latest)
    /\ UNCHANGED <<db, page, version, latest, dirty, trans, arrival, moves, budget>>

(* flushBeforeLeave(): the player chose to leave and waits for the save.   *)
FlushBeforeLeave ==
    /\ Playing /\ trans = "idle" /\ Disturb
    /\ retry' = FALSE /\ FlushQueued(latest)
    /\ UNCHANGED <<db, page, version, latest, dirty, trans, arrival, moves>>

(* What is still on its way no longer has a reader.                        *)
Orphaned ==
    {[c EXCEPT !.kind = IF @ \in {"travel", "left"} THEN "left" ELSE "orphan"] : c \in calls}

(* onAccessInvalid: the gate unmounts the world, whose last snapshot goes  *)
(* through checkpoint once more.                                           *)
SentAway ==
    /\ page' = "gone"
    /\ calls' = Orphaned \cup (IF trans = "idle" THEN {Call("orphan", latest)} ELSE {})

(* Faulty variant: the loop ends with its first save.                      *)
StopAfterOne == flush' = "idle" /\ UNCHANGED <<queued, calls>>
(* The loop of flushQueued takes what was queued meanwhile, at the version *)
(* the answer gave.                                                        *)
TakeNext ==
    IF queued = NoState THEN flush' = "idle" /\ UNCHANGED <<queued, calls>>
    ELSE /\ flush' = "sent" /\ queued' = NoState
         /\ calls' = calls \cup {[Call("save", queued) EXCEPT !.ver = version + 1]}

FlushAnswered ==
    /\ Playing /\ flush \in {"saved", "conflict", "failed"}
    /\ \/ /\ flush = "saved"
          /\ version' = version + 1
          /\ TakeNext
          /\ UNCHANGED <<page, retry>>
       \/ /\ flush = "conflict"
          /\ flush' = "idle" /\ queued' = NoState /\ retry' = FALSE /\ SentAway
          /\ UNCHANGED version
       \/ /\ flush = "failed"
          /\ flush' = "idle" /\ queued' = latest /\ retry' = TRUE
          /\ UNCHANGED <<page, version, calls>>
    /\ UNCHANGED <<db, latest, dirty, trans, arrival, moves, budget>>

(* handleExit: beginTransition clears the queue and waits for the save in  *)
(* flight, then the API is asked to move the player at the current version.*)
BeginTransition ==
    /\ Playing /\ trans = "idle" /\ moves < MaxMoves
    /\ trans' = "draining" /\ queued' = NoState
    /\ UNCHANGED <<db, page, version, latest, dirty, retry, flush, arrival, calls, moves, budget>>

AskTransition ==
    /\ Playing /\ trans = "draining" /\ flush = "idle"
    /\ trans' = "sent" /\ calls' = calls \cup {Call("travel", latest)}
    /\ UNCHANGED <<db, page, version, latest, dirty, queued, retry, flush, arrival, moves, budget>>

(* Faulty variant: the page goes on with the position of the old world.    *)
AcceptVersionOnly ==
    version' = version + 1 /\ dirty' = FALSE /\ retry' = FALSE /\ UNCHANGED latest
(* acceptAuthoritativeTransition and loadWorld, or cancelTransition.       *)
AcceptTransition ==
    version' = version + 1 /\ dirty' = FALSE /\ retry' = FALSE /\ latest' = arrival

(* A refused transition leaves the page where it is: the code of a version *)
(* conflict here is WORLD_VERSION_CONFLICT, which is not accessInvalid.    *)
TransitionAnswered ==
    /\ Playing /\ trans \in {"moved", "failed"}
    /\ trans' = "idle" /\ queued' = NoState /\ arrival' = NoState
    /\ IF trans = "moved" THEN AcceptTransition
       ELSE dirty' = FALSE /\ UNCHANGED <<version, latest, retry>>
    /\ UNCHANGED <<db, page, flush, calls, moves, budget>>

(* preserveState: the page is hidden or closed, and a keepalive save leaves*)
(* whose answer nobody reads.                                              *)
Hide ==
    /\ Playing /\ trans = "idle" /\ Disturb
    /\ calls' = calls \cup {Call("orphan", latest)}
    /\ UNCHANGED <<db, pageVars, moves>>

Close ==
    /\ Playing /\ Disturb /\ page' = "gone"
    /\ calls' = Orphaned \cup (IF trans = "idle" THEN {Call("orphan", latest)} ELSE {})
    /\ UNCHANGED <<db, version, latest, dirty, queued, retry, flush, trans, arrival, moves>>

(* The player enters again: a new page with what the database holds.       *)
Bootstrap ==
    /\ page = "gone" /\ Disturb /\ page' = "playing"
    /\ version' = db.ver /\ latest' = db.st /\ dirty' = FALSE
    /\ queued' = NoState /\ retry' = FALSE /\ flush' = "idle" /\ trans' = "idle"
    /\ arrival' = NoState
    /\ db' = [db EXCEPT !.by = IF @ = "reset" THEN "loaded" ELSE @]
    /\ UNCHANGED <<calls, moves>>

Answer(c, result) ==
    IF c.kind = "save" THEN flush' = result /\ UNCHANGED <<trans, arrival>>
    ELSE UNCHANGED <<flush, trans, arrival>>

(* Faulty variant: the version is not compared.                            *)
AnyVersion(c) == TRUE
Current(c) == c.ver = db.ver

(* save_player_game_state: a write at another version is a conflict, one of*)
(* another world is refused.  The answer may be lost.                      *)
SaveState(c) ==
    /\ c \in calls /\ c.kind \in {"save", "orphan"} /\ calls' = calls \ {c}
    /\ LET commits == Current(c) /\ c.st.world = db.st.world
           result == IF commits THEN "saved"
                     ELSE IF Current(c) THEN "failed" ELSE "conflict"
       IN /\ db' = IF commits THEN [ver |-> db.ver + 1, st |-> c.st, by |-> "page"] ELSE db
          /\ \/ Answer(c, result) /\ UNCHANGED budget
             \/ c.kind = "save" /\ Disturb /\ Answer(c, "failed")
    /\ UNCHANGED <<page, version, latest, dirty, queued, retry, moves>>

(* transition_player_world, for a page that may have gone.                 *)
TransitionWorld(c) ==
    /\ c \in calls /\ c.kind \in {"travel", "left"} /\ calls' = calls \ {c}
    /\ \E answer \in {"answered", "lost"} :
          /\ IF answer = "lost" THEN c.kind = "travel" /\ Disturb
                                ELSE UNCHANGED budget
          /\ IF Current(c) /\ moves < MaxMoves
             THEN /\ moves' = moves + 1
                  /\ \E w \in Worlds \ {db.st.world} :
                        db' = [ver |-> db.ver + 1, st |-> [world |-> w, at |-> moves'],
                               by |-> "page"]
             ELSE UNCHANGED <<db, moves>>
          /\ trans' = IF c.kind = "left" THEN trans
                      ELSE IF answer = "answered" /\ Current(c) /\ moves < MaxMoves
                           THEN "moved" ELSE "failed"
          /\ arrival' = IF trans' = "moved" /\ c.kind = "travel" THEN db'.st ELSE arrival
    /\ UNCHANGED <<page, version, latest, dirty, queued, retry, flush>>

(* A call that never reaches the database.                                 *)
CallLost(c) ==
    /\ c \in calls /\ Disturb /\ calls' = calls \ {c}
    /\ flush' = IF c.kind = "save" THEN "failed" ELSE flush
    /\ trans' = IF c.kind = "travel" THEN "failed" ELSE trans
    /\ UNCHANGED <<db, page, version, latest, dirty, queued, retry, arrival, moves>>

(* An operator sends the player back to a spawn.                           *)
AdminReset ==
    /\ Step /\ Disturb
    /\ \E w \in Worlds :
          db' = [ver |-> db.ver + 1, st |-> [world |-> w, at |-> moves'], by |-> "reset"]
    /\ UNCHANGED <<pageVars, calls>>

Next ==
    \/ Move \/ Checkpoint \/ Retry \/ FlushBeforeLeave \/ FlushAnswered
    \/ BeginTransition \/ AskTransition \/ TransitionAnswered
    \/ Hide \/ Close \/ Bootstrap \/ AdminReset
    \/ \E c \in calls : SaveState(c) \/ TransitionWorld(c) \/ CallLost(c)

Spec == Init /\ [][Next]_vars

(* The page's continuations run and calls reach the database or fail.      *)
Fairness ==
    /\ WF_vars(FlushAnswered) /\ WF_vars(AskTransition) /\ WF_vars(TransitionAnswered)
    /\ WF_vars(\E c \in calls : SaveState(c)) /\ WF_vars(\E c \in calls : TransitionWorld(c))
FairSpec == Spec /\ Fairness

-----------------------------------------------------------------------------

(* A save at the current version is always about the world the player is   *)
(* in: the version alone keeps a position of one world out of another.     *)
CurrentSavesFitWorld ==
    \A c \in calls : (c.kind \in {"save", "orphan"} /\ c.ver = db.ver) => c.st.world = db.st.world

(* The stored position never goes back in time: a save, a keepalive of a   *)
(* closed page or a retried call that arrives late is refused.             *)
NeverStale == [][db'.st.at >= db.st.at]_vars

(* What an operator's reset wrote stands until a page has loaded it: no    *)
(* page that read an earlier version writes over it.                       *)
ResetStands == [][db.by = "reset" => db'.by # "page"]_vars

(* A queued position is not left waiting: it is taken up, or the page says *)
(* that saving is unavailable, or the page is gone.                        *)
SaveSettles ==
    (Playing /\ queued # NoState) ~> (queued = NoState \/ retry \/ ~Playing)
=============================================================================
