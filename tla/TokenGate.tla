------------------------------ MODULE TokenGate ------------------------------
(***************************************************************************)
(* The token gate: a wallet signs a challenge, the API reads its balance   *)
(* from a Solana node and PostgreSQL opens a short access session, which   *)
(* the API checks again while the game is played.  Every SQL function is   *)
(* one step here: create and update_admin lock the configuration row, the  *)
(* others the session row, and each re-reads what it depends on.  Between  *)
(* two calls of a request anything else may happen: the node answers for   *)
(* an old slot, the administrator changes the requirement, another tab     *)
(* verifies again, or the API process dies.  One wallet is modelled, on    *)
(* one network; a session is named by the challenge it was created from.   *)
(***************************************************************************)
EXTENDS Integers, Sequences, FiniteSets

CONSTANTS Challenges, Requests, NoRequest,
          MaxAmount,    \* balances and requirements are at most this
          MaxSlot,      \* how many slots the chain produces
          MaxVersion,   \* how many versions the configuration goes through
          MaxFaults     \* crashes, failed calls and calls slower than their lease

ASSUME GateAssumption ==
    /\ NoRequest \notin Requests
    /\ MaxAmount \in Nat /\ MaxFaults \in Nat
    /\ MaxSlot \in Nat \ {0} /\ MaxVersion \in Nat \ {0}

VARIABLES
    config,      \* the row of token_gate_configs
    balances,    \* the wallet's balance at each slot of the chain
    challenge,   \* wallet_auth_challenges
    session,     \* wallet_access_sessions
    request,     \* what each call in progress at the API has read
    faults       \* how many more may happen

vars == <<config, balances, challenge, session, request, faults>>

Amounts == 0..MaxAmount
Versions == 1..MaxVersion
Slots == 1..MaxSlot
Ended == {"expired", "revoked", "insufficient_balance", "configuration_changed"}

Sessions ==
    [st : {"none", "active"} \cup Ended, ver : Versions, req : Amounts, slot : Slots,
     age : {"fresh", "rested", "due", "lapsed"}, claim : Requests \cup {NoRequest},
     lease : BOOLEAN]
Configs == [ver : Versions, on : BOOLEAN, req : Amounts \ {0}, slot : Slots]
Absent == [st |-> "none", ver |-> 1, req |-> 1, slot |-> 1, age |-> "fresh",
           claim |-> NoRequest, lease |-> FALSE]
Idle == [pc |-> "idle"]

TypeOK ==
    /\ config \in Configs
    /\ balances \in Seq(Amounts) /\ Len(balances) \in Slots
    /\ challenge \in [Challenges -> [st : {"none", "open", "gone"}, ver : Versions]]
    /\ session \in [Challenges -> Sessions]
    /\ \A r \in Requests :
          request[r].pc \in {"idle", "consumed", "paid", "claimed", "observed"}
    /\ faults \in 0..MaxFaults

Init ==
    /\ \E req \in Amounts \ {0}, b \in Amounts :
          /\ config = [ver |-> 1, on |-> TRUE, req |-> req, slot |-> 1]
          /\ balances = <<b>>
    /\ challenge = [c \in Challenges |-> [st |-> "none", ver |-> 1]]
    /\ session = [c \in Challenges |-> Absent]
    /\ request = [r \in Requests |-> Idle]
    /\ faults = MaxFaults

Finish(r) == request' = [request EXCEPT ![r] = Idle]
Fault == faults > 0 /\ faults' = faults - 1

(* What the API and the functions it calls ask of the configuration.       *)
CurrentOf(v) == config.on /\ config.ver = v

Close(c, st) ==
    session' = [session EXCEPT ![c].st = st, ![c].claim = NoRequest, ![c].lease = FALSE]

-----------------------------------------------------------------------------
(* Verification.                                                           *)

(* createChallenge.                                                        *)
CreateChallenge(c) ==
    /\ challenge[c].st = "none" /\ config.on
    /\ challenge' = [challenge EXCEPT ![c] = [st |-> "open", ver |-> config.ver]]
    /\ UNCHANGED <<config, balances, session, request, faults>>

ChallengeExpires(c) ==
    /\ challenge[c].st = "open"
    /\ challenge' = [challenge EXCEPT ![c].st = "gone"]
    /\ UNCHANGED <<config, balances, session, request, faults>>

(* verify: the signed challenge is consumed, once, whatever the            *)
(* configuration says; the request goes on with the configuration it read. *)
Consume(r, c) ==
    /\ request[r].pc = "idle" /\ challenge[c].st = "open"
    /\ challenge' = [challenge EXCEPT ![c].st = "gone"]
    /\ request' = [request EXCEPT ![r] =
          IF CurrentOf(challenge[c].ver)
          THEN [pc |-> "consumed", ch |-> c, ver |-> config.ver, req |-> config.req]
          ELSE Idle]
    /\ UNCHANGED <<config, balances, session, faults>>

(* The node the verification asks answers for the slot it has reached.     *)
VerifyBalance(r, s) ==
    /\ request[r].pc = "consumed" /\ s \in 1..Len(balances)
    /\ request' = [request EXCEPT ![r] =
          IF balances[s] < @.req THEN Idle
          ELSE [pc |-> "paid", ch |-> @.ch, ver |-> @.ver, req |-> @.req,
                slot |-> s, amount |-> balances[s]]]
    /\ UNCHANGED <<config, balances, challenge, session, faults>>

(* Faulty variant: the version is not compared.                            *)
AcceptsAnyVersion(q) ==
    config.on /\ config.req = q.req /\ q.slot >= config.slot /\ q.amount >= q.req
Accepts(q) ==
    CurrentOf(q.ver) /\ config.req = q.req /\ q.slot >= config.slot /\ q.amount >= q.req

(* Faulty variant: the other sessions of the wallet stay.                  *)
NotRotated(c) == session[c].st
Rotated(c) == IF session[c].st = "active" THEN "revoked" ELSE session[c].st

(* create_wallet_access_session: the configuration must still be the one   *)
(* the balance was compared with; the wallet's other sessions end.         *)
CreateSession(r) ==
    LET q == request[r]
        granted == Accepts(q) /\ session[q.ch].st = "none"
    IN /\ q.pc = "paid"
       /\ session' = [c \in Challenges |->
             IF ~granted THEN session[c]
             ELSE IF c = q.ch
                  THEN [Absent EXCEPT !.st = "active", !.ver = q.ver, !.req = q.req,
                                      !.slot = q.slot]
                  ELSE LET st == Rotated(c)
                       IN IF st = session[c].st THEN session[c]
                          ELSE [session[c] EXCEPT !.st = st, !.claim = NoRequest,
                                                  !.lease = FALSE]]
       /\ Finish(r)
       /\ UNCHANGED <<config, balances, challenge, faults>>

-----------------------------------------------------------------------------
(* Checking a session again.                                               *)

(* get_wallet_access_session and the guards of claim_wallet_access_recheck *)
(* end a session whose time is over or whose configuration is.             *)
Reconcile(c) ==
    /\ session[c].st = "active"
    /\ \/ session[c].age = "lapsed" /\ Close(c, "expired")
       \/ session[c].age # "lapsed" /\ ~CurrentOf(session[c].ver)
          /\ Close(c, "configuration_changed")
    /\ UNCHANGED <<config, balances, challenge, request, faults>>

(* Faulty variant: the lease of a recheck never ends.                      *)
LeasedForEver(c) == session[c].claim # NoRequest
Leased(c) == session[c].claim # NoRequest /\ session[c].lease

(* claim_wallet_access_recheck, by /me once the check is due or by         *)
(* /recheck after the minimum interval.                                    *)
Claim(r, c) ==
    /\ request[r].pc = "idle" /\ session[c].st = "active"
    /\ CurrentOf(session[c].ver)
    /\ session[c].age \in {"rested", "due"} /\ ~Leased(c)
    /\ session' = [session EXCEPT ![c].claim = r, ![c].lease = TRUE]
    /\ request' = [request EXCEPT ![r] = [pc |-> "claimed", ch |-> c]]
    /\ UNCHANGED <<config, balances, challenge, faults>>

Observe(r, s) ==
    /\ request[r].pc = "claimed" /\ s \in 1..Len(balances)
    /\ request' = [request EXCEPT ![r] =
          [pc |-> "observed", ch |-> @.ch, slot |-> s, amount |-> balances[s]]]
    /\ UNCHANGED <<config, balances, challenge, session, faults>>

(* The nodes do not answer a recheck: the API revokes the session, whether *)
(* or not this request still holds the claim, and goes on when even the    *)
(* revocation fails.                                                       *)
RecheckFails(r, revoked) ==
    /\ request[r].pc = "claimed" /\ Fault /\ Finish(r)
    /\ IF revoked /\ session[request[r].ch].st = "active"
       THEN Close(request[r].ch, "revoked") ELSE UNCHANGED session
    /\ UNCHANGED <<config, balances, challenge>>

(* Faulty variant: another request may answer the recheck.                 *)
MineOrActive(r, c) == session[c].st = "active"
Mine(r, c) == session[c].st = "active" /\ session[c].claim = r
(* Faulty variant: an older slot is recorded.                              *)
StaleNever(c, s) == FALSE
Stale(c, s) == s < session[c].slot

(* update_wallet_access_session_balance.                                   *)
RecordBalance(r) ==
    LET q == request[r]
        c == q.ch
    IN /\ q.pc = "observed" /\ Finish(r)
       /\ IF ~Mine(r, c) THEN UNCHANGED session
          ELSE IF ~CurrentOf(session[c].ver) THEN Close(c, "configuration_changed")
          ELSE IF Stale(c, q.slot) THEN Close(c, "revoked")
          ELSE session' = [session EXCEPT
                  ![c].st = IF q.amount < session[c].req THEN "insufficient_balance" ELSE @,
                  ![c].slot = q.slot,
                  ![c].age = IF @ = "lapsed" THEN @ ELSE "fresh",
                  ![c].claim = NoRequest, ![c].lease = FALSE]
       /\ UNCHANGED <<config, balances, challenge, faults>>

(* revoke: the player leaves, changes the wallet or the network, or an     *)
(* operator ends the session.                                              *)
Revoke(c) ==
    /\ session[c].st = "active" /\ Close(c, "revoked")
    /\ UNCHANGED <<config, balances, challenge, request, faults>>

-----------------------------------------------------------------------------
(* The administrator, the chain, time and failures.                        *)

Invalidated(c) ==
    IF session[c].st = "active" THEN "configuration_changed" ELSE session[c].st

(* update_admin_token_gate_config, with the slot the mint was validated at.*)
UpdateConfig(on, req, s) ==
    /\ config.ver < MaxVersion /\ s \in 1..Len(balances)
    /\ config' = [ver |-> config.ver + 1, on |-> on, req |-> req, slot |-> s]
    /\ session' = [c \in Challenges |->
          LET st == Invalidated(c)
          IN IF st = session[c].st THEN session[c]
             ELSE [session[c] EXCEPT !.st = st, !.claim = NoRequest, !.lease = FALSE]]
    /\ UNCHANGED <<balances, challenge, request, faults>>

NextSlot(b) ==
    /\ Len(balances) < MaxSlot /\ balances' = Append(balances, b)
    /\ UNCHANGED <<config, challenge, session, request, faults>>

(* The minimum interval, and then the recheck interval, have passed since  *)
(* the last check; the session's time to live is over.                     *)
TimePasses(c) ==
    /\ session[c].st = "active"
    /\ \/ session[c].age = "fresh" /\ session' = [session EXCEPT ![c].age = "rested"]
       \/ session[c].age = "rested" /\ session' = [session EXCEPT ![c].age = "due"]
       \/ session[c].age # "lapsed" /\ session' = [session EXCEPT ![c].age = "lapsed"]
    /\ UNCHANGED <<config, balances, challenge, request, faults>>

(* The lease covers every retry of the balance check, so it ends before    *)
(* the request that holds it only when that request is stalled.            *)
LeaseEnds(c) ==
    LET r == session[c].claim
    IN /\ Leased(c)
       /\ session' = [session EXCEPT ![c].lease = FALSE]
       /\ IF request[r].pc \in {"claimed", "observed"} /\ request[r].ch = c
          THEN Fault ELSE UNCHANGED faults
       /\ UNCHANGED <<config, balances, challenge, request>>

(* The API process dies, or a call to the database or to a node fails.     *)
Crash(r) ==
    /\ request[r].pc # "idle" /\ Fault /\ Finish(r)
    /\ UNCHANGED <<config, balances, challenge, session>>

Next ==
    \/ \E c \in Challenges :
          CreateChallenge(c) \/ ChallengeExpires(c) \/ Reconcile(c) \/ Revoke(c)
          \/ TimePasses(c) \/ LeaseEnds(c)
    \/ \E r \in Requests :
          \/ \E c \in Challenges : Consume(r, c) \/ Claim(r, c)
          \/ \E s \in Slots : VerifyBalance(r, s) \/ Observe(r, s)
          \/ \E revoked \in BOOLEAN : RecheckFails(r, revoked)
          \/ CreateSession(r) \/ RecordBalance(r) \/ Crash(r)
    \/ \E on \in BOOLEAN, req \in Amounts \ {0}, s \in Slots : UpdateConfig(on, req, s)
    \/ \E b \in Amounts : NextSlot(b)

Spec == Init /\ [][Next]_vars

(* The game asks /me at the time the server named and every so often, so a *)
(* due session is claimed by some request, and a request that was started  *)
(* goes on; challenges, administrators, the chain and faults owe nothing.  *)
FairSpec ==
    /\ Spec
    /\ \A c \in Challenges :
          /\ WF_vars(\E r \in Requests : session[c].age = "due" /\ Claim(r, c))
          /\ WF_vars(Reconcile(c)) /\ WF_vars(LeaseEnds(c) /\ UNCHANGED faults)
    /\ \A r \in Requests :
          /\ WF_vars(\E s \in Slots : VerifyBalance(r, s) \/ Observe(r, s))
          /\ WF_vars(CreateSession(r)) /\ WF_vars(RecordBalance(r))

-----------------------------------------------------------------------------
(* A wallet never has two sessions that are active, however many tabs      *)
(* verify at once.                                                         *)
OneActive == Cardinality({c \in Challenges : session[c].st = "active"}) <= 1

(* An active session was paid for under the configuration of this moment:  *)
(* it names its version and requirement, the wallet did hold that much at  *)
(* the slot the session was last checked at, and that slot is no older     *)
(* than the one the mint was validated at.                                 *)
ActiveIsPaid ==
    \A c \in Challenges : session[c].st = "active" =>
        /\ CurrentOf(session[c].ver) /\ session[c].req = config.req
        /\ balances[session[c].slot] >= config.req
        /\ session[c].slot >= config.slot

(* A check never replaces what a later slot has shown, and a session that  *)
(* has ended stays ended in the way it ended, whatever answers come late.  *)
SessionsOnlyMoveOn ==
    [][\A c \in Challenges : session[c].st # "none" =>
          /\ session'[c].slot >= session[c].slot
          /\ session[c].st \in Ended => session'[c].st = session[c].st]_vars

(* A check that no longer holds the claim records no balance: whoever      *)
(* renews a session is the request that holds its claim at that moment,    *)
(* and an answer that outlived its lease does not.  (A recheck that fails  *)
(* may still revoke the session without the claim, see RecheckFails.)      *)
ClaimIsExclusive ==
    [][\A c \in Challenges :
          session[c].age \in {"rested", "due"} /\ session'[c].age = "fresh" =>
             /\ session[c].claim # NoRequest
             /\ request[session[c].claim].pc = "observed"
             /\ request'[session[c].claim] = Idle]_vars

Overdue(c) == session[c].st = "active" /\ session[c].age \in {"due", "lapsed"}

(* A session whose check is due is checked, or ends: a crashed claim holds *)
(* it for the length of its lease and no longer.                           *)
DueIsChecked == \A c \in Challenges : Overdue(c) ~> ~Overdue(c)
=============================================================================
