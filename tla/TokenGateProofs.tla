--------------------------- MODULE TokenGateProofs ---------------------------
(***************************************************************************)
(* Theorems about TokenGate, for every number of challenges and concurrent *)
(* requests, every amount, and any number of slots, configurations and     *)
(* faults.                                                                 *)
(***************************************************************************)
EXTENDS TokenGate, TLAPS, FiniteSetTheorems

(* What a request that is under way has read.  A balance is the one of a   *)
(* slot the chain has reached, which no later slot changes.                *)
RequestStates ==
    {Idle}
    \cup [pc : {"consumed"}, ch : Challenges, ver : Versions, req : Amounts]
    \cup [pc : {"paid"}, ch : Challenges, ver : Versions, req : Amounts,
          slot : Slots, amount : Amounts]
    \cup [pc : {"claimed"}, ch : Challenges]
    \cup [pc : {"observed"}, ch : Challenges, slot : Slots, amount : Amounts]

ReadsAreTrue ==
    \A r \in Requests : request[r].pc \in {"paid", "observed"} =>
        /\ request[r].slot \in 1..Len(balances)
        /\ request[r].amount = balances[request[r].slot]

RequestInv == request \in [Requests -> RequestStates] /\ ReadsAreTrue

(* Sessions: one at most is active, and none has traces of another.        *)
SoleActive ==
    \A c, d \in Challenges : session[c].st = "active" /\ session[d].st = "active" => c = d
UnusedIsAbsent == \A c \in Challenges : session[c].st = "none" => session[c] = Absent
SlotsReached == \A c \in Challenges : session[c].slot \in 1..Len(balances)

GateInv ==
    TypeOK /\ RequestInv /\ SoleActive /\ UnusedIsAbsent /\ SlotsReached /\ ActiveIsPaid

(* The chain only grows, and a slot keeps the balance it had.              *)
LEMMA ChainGrows ==
    ASSUME TypeOK, NEW b \in Amounts, NextSlot(b)
    PROVE  /\ balances' \in Seq(Amounts) /\ Len(balances') = Len(balances) + 1
           /\ Len(balances') \in Slots
           /\ \A s \in 1..Len(balances) : balances'[s] = balances[s]
  BY GateAssumption DEF TypeOK, NextSlot, Slots

LEMMA GateInit == Init => GateInv
<1> SUFFICES ASSUME Init PROVE GateInv
  OBVIOUS
<1> USE GateAssumption DEF Init, Absent, Idle, Amounts, Versions, Slots, Ended
<1>1. PICK req \in Amounts \ {0}, b \in Amounts :
          /\ config = [ver |-> 1, on |-> TRUE, req |-> req, slot |-> 1]
          /\ balances = <<b>>
  OBVIOUS
<1>2. config \in Configs /\ balances \in Seq(Amounts) /\ Len(balances) = 1 /\ faults \in 0..MaxFaults
  BY <1>1 DEF Configs
<1>3. challenge \in [Challenges -> [st : {"none", "open", "gone"}, ver : Versions]]
  OBVIOUS
<1>4. session \in [Challenges -> Sessions]
  BY DEF Sessions
<1>5. TypeOK
  BY <1>2, <1>3, <1>4 DEF TypeOK, Sessions
<1>6. RequestInv
  BY DEF RequestInv, RequestStates, ReadsAreTrue
<1>7. SoleActive /\ UnusedIsAbsent /\ SlotsReached /\ ActiveIsPaid
  BY <1>2 DEF SoleActive, UnusedIsAbsent, SlotsReached, ActiveIsPaid
<1> QED
  BY <1>5, <1>6, <1>7 DEF GateInv

-----------------------------------------------------------------------------
(* What most steps do to the sessions: some active ones end, and nothing   *)
(* of what a session was granted for changes.                              *)
SessionsKept ==
    /\ session' \in [Challenges -> Sessions]
    /\ \A c \in Challenges :
          /\ session'[c].slot = session[c].slot
          /\ session'[c].ver = session[c].ver /\ session'[c].req = session[c].req
          /\ \/ session'[c].st = session[c].st
             \/ session[c].st = "active" /\ session'[c].st \in Ended
          /\ session[c].st = "none" => session'[c] = session[c]
          /\ session'[c].age = "fresh" => session[c].age = "fresh"

(* All steps but those of CreateSession and RecordBalance.                 *)
Keeping ==
    \/ \E c \in Challenges :
          CreateChallenge(c) \/ ChallengeExpires(c) \/ Reconcile(c) \/ Revoke(c)
          \/ TimePasses(c) \/ LeaseEnds(c)
    \/ \E r \in Requests :
          \/ \E c \in Challenges : Consume(r, c) \/ Claim(r, c)
          \/ \E s \in Slots : VerifyBalance(r, s) \/ Observe(r, s)
          \/ \E revoked \in BOOLEAN : RecheckFails(r, revoked)
          \/ Crash(r)
    \/ \E on \in BOOLEAN, req \in Amounts \ {0}, s \in Slots : UpdateConfig(on, req, s)
    \/ \E b \in Amounts : NextSlot(b)
    \/ UNCHANGED vars

(* What a session becomes when it ends.                                    *)
EndedAs(row, st) == [row EXCEPT !.st = st, !.claim = NoRequest, !.lease = FALSE]

LEMMA EndedRow ==
    ASSUME NEW row \in Sessions, NEW st \in Ended
    PROVE  /\ EndedAs(row, st) \in Sessions
           /\ EndedAs(row, st).st = st /\ st \notin {"none", "active"}
           /\ EndedAs(row, st).slot = row.slot /\ EndedAs(row, st).age = row.age
           /\ EndedAs(row, st).ver = row.ver /\ EndedAs(row, st).req = row.req
<1>1. st \notin {"none", "active"}
  BY DEF Ended
<1> QED
  BY <1>1 DEF EndedAs, Sessions

LEMMA CloseKeeps ==
    ASSUME TypeOK, NEW c \in Challenges, session[c].st = "active", NEW st \in Ended,
           Close(c, st)
    PROVE  SessionsKept
<1> DEFINE row == EndedAs(session[c], st)
<1>1. session' = [session EXCEPT ![c] = row]
  BY DEF TypeOK, Close, EndedAs
<1>2. /\ row \in Sessions /\ row.st = st
      /\ row.slot = session[c].slot /\ row.ver = session[c].ver /\ row.req = session[c].req
      /\ row.age = session[c].age
  <2>1. session[c] \in Sessions
    BY DEF TypeOK
  <2> QED
    BY <2>1, EndedRow
<1> QED
  BY <1>1, <1>2 DEF TypeOK, SessionsKept

LEMMA KeepingStep == GateInv /\ Keeping => SessionsKept
<1> SUFFICES ASSUME GateInv, Keeping PROVE SessionsKept
  OBVIOUS
<1>0. TypeOK /\ RequestInv /\ session \in [Challenges -> Sessions]
  BY DEF GateInv, TypeOK
<1>1. CASE session' = session
  BY <1>0, <1>1 DEF SessionsKept
<1>2. ASSUME NEW c \in Challenges, Reconcile(c) \/ Revoke(c) PROVE SessionsKept
  BY <1>0, <1>2, CloseKeeps DEF Reconcile, Revoke, Ended
<1>3. ASSUME NEW c \in Challenges, TimePasses(c) PROVE SessionsKept
  <2>1. PICK age \in {"rested", "due", "lapsed"} : session' = [session EXCEPT ![c].age = age]
    BY <1>3 DEF TimePasses
  <2>2. session[c].st = "active" /\ [session[c] EXCEPT !.age = age] \in Sessions
    BY <1>0, <1>3 DEF TimePasses, Sessions
  <2> QED
    BY <1>0, <2>1, <2>2 DEF SessionsKept, Sessions
<1>4. ASSUME NEW c \in Challenges, LeaseEnds(c) PROVE SessionsKept
  <2>1. session[c].st # "none"
    BY <1>4 DEF LeaseEnds, Leased, GateInv, UnusedIsAbsent, Absent
  <2> QED
    BY <1>0, <1>4, <2>1 DEF LeaseEnds, SessionsKept, Sessions
<1>5. ASSUME NEW r \in Requests, NEW c \in Challenges, Claim(r, c) PROVE SessionsKept
  BY <1>0, <1>5 DEF Claim, SessionsKept, Sessions
<1>6. ASSUME NEW r \in Requests, NEW rev \in BOOLEAN, RecheckFails(r, rev) PROVE SessionsKept
  <2>1. request[r].ch \in Challenges
    BY <1>0, <1>6 DEF RecheckFails, RequestInv, RequestStates, Idle
  <2> QED
    BY <1>0, <1>1, <1>6, <2>1, CloseKeeps DEF RecheckFails, Ended
<1>7. ASSUME NEW on \in BOOLEAN, NEW req \in Amounts \ {0}, NEW s \in Slots,
             UpdateConfig(on, req, s)
      PROVE  SessionsKept
  <2>1. ASSUME NEW c \in Challenges
        PROVE  \/ session'[c] = session[c]
               \/ /\ session[c].st = "active"
                  /\ session'[c] = EndedAs(session[c], "configuration_changed")
    BY <1>7 DEF UpdateConfig, Invalidated, EndedAs
  <2>2. session' = [c \in Challenges |-> session'[c]]
    BY <1>7 DEF UpdateConfig
  <2>3. "configuration_changed" \in Ended
    BY DEF Ended
  <2> QED
    BY <1>0, <2>1, <2>2, <2>3, EndedRow DEF SessionsKept
<1> QED
  BY <1>1, <1>2, <1>3, <1>4, <1>5, <1>6, <1>7
  DEF Keeping, vars, CreateChallenge, ChallengeExpires, Consume, VerifyBalance, Observe,
      Crash, NextSlot

LEMMA SessionsFrame ==
    ASSUME GateInv, SessionsKept, UNCHANGED <<config, balances>>
    PROVE  SoleActive' /\ UnusedIsAbsent' /\ SlotsReached' /\ ActiveIsPaid'
  BY DEF GateInv, SessionsKept, SoleActive, UnusedIsAbsent, SlotsReached, ActiveIsPaid,
         CurrentOf, Ended, Absent

LEMMA RequestsFrame ==
    ASSUME GateInv, UNCHANGED balances,
           request' = request \/ \E r \in Requests : Finish(r)
    PROVE  RequestInv'
  BY DEF GateInv, RequestInv, RequestStates, ReadsAreTrue, Finish, Idle

LEMMA TypesFrame ==
    ASSUME TypeOK, RequestInv', UNCHANGED <<config, balances, challenge>>,
           session' \in [Challenges -> Sessions], faults' \in 0..MaxFaults
    PROVE  TypeOK'
  BY DEF TypeOK, Sessions, RequestInv, RequestStates, Idle

LEMMA FaultType == TypeOK /\ Fault => faults' \in 0..MaxFaults
  BY GateAssumption DEF TypeOK, Fault

(* A step that only ends sessions, at the cost of a fault perhaps, and     *)
(* finishes at most one request.                                           *)
LEMMA OrdinaryStep ==
    ASSUME GateInv, SessionsKept, UNCHANGED <<config, balances, challenge>>,
           faults' \in 0..MaxFaults,
           request' = request \/ \E r \in Requests : Finish(r)
    PROVE  GateInv'
<1>1. RequestInv'
  BY RequestsFrame
<1>2. TypeOK'
  BY <1>1, TypesFrame DEF GateInv, SessionsKept
<1> QED
  BY <1>1, <1>2, SessionsFrame DEF GateInv

LEMMA GateStep == GateInv /\ [Next]_vars => GateInv'
<1> SUFFICES ASSUME GateInv, [Next]_vars PROVE GateInv'
  OBVIOUS
<1>0. TypeOK /\ RequestInv
  BY DEF GateInv
<1>k. session' = session => SessionsKept
  BY <1>0 DEF TypeOK, SessionsKept
<1>f. faults' = faults => faults' \in 0..MaxFaults
  BY <1>0 DEF TypeOK
<1>1. ASSUME NEW c \in Challenges, CreateChallenge(c) \/ ChallengeExpires(c) PROVE GateInv'
  <2>1. /\ challenge' \in [Challenges -> [st : {"none", "open", "gone"}, ver : Versions]]
        /\ UNCHANGED <<config, balances, session, request, faults>>
    BY <1>0, <1>1 DEF CreateChallenge, ChallengeExpires, TypeOK, Configs
  <2>2. TypeOK'
    BY <1>0, <2>1 DEF TypeOK
  <2>3. RequestInv'
    BY <2>1, RequestsFrame
  <2> QED
    BY <1>k, <2>1, <2>2, <2>3, SessionsFrame DEF GateInv
<1>2. ASSUME NEW c \in Challenges, Reconcile(c) PROVE GateInv'
  BY <1>2, <1>f, KeepingStep, OrdinaryStep DEF Keeping, Reconcile
<1>3. ASSUME NEW c \in Challenges, Revoke(c) PROVE GateInv'
  BY <1>3, <1>f, KeepingStep, OrdinaryStep DEF Keeping, Revoke
<1>4. ASSUME NEW c \in Challenges, TimePasses(c) PROVE GateInv'
  BY <1>4, <1>f, KeepingStep, OrdinaryStep DEF Keeping, TimePasses
<1>5. ASSUME NEW c \in Challenges, LeaseEnds(c) PROVE GateInv'
  BY <1>0, <1>5, <1>f, KeepingStep, FaultType, OrdinaryStep DEF Keeping, LeaseEnds
<1>6. ASSUME NEW r \in Requests, NEW c \in Challenges, Consume(r, c) PROVE GateInv'
  <2> DEFINE q == IF CurrentOf(challenge[c].ver)
                  THEN [pc |-> "consumed", ch |-> c, ver |-> config.ver, req |-> config.req]
                  ELSE Idle
  <2>1. /\ challenge' \in [Challenges -> [st : {"none", "open", "gone"}, ver : Versions]]
        /\ request' = [request EXCEPT ![r] = q]
        /\ UNCHANGED <<config, balances, session, faults>>
    BY <1>0, <1>6 DEF Consume, TypeOK
  <2>2. q \in RequestStates /\ q.pc \in {"consumed", "idle"}
    BY <1>0 DEF TypeOK, Configs, RequestStates, Idle
  <2>3. RequestInv'
    BY <1>0, <2>1, <2>2 DEF RequestInv, ReadsAreTrue
  <2>4. TypeOK'
    BY <1>0, <2>1, <2>2 DEF TypeOK, RequestInv
  <2> QED
    BY <1>k, <2>1, <2>3, <2>4, SessionsFrame DEF GateInv
<1>7. ASSUME NEW r \in Requests, NEW c \in Challenges, Claim(r, c) PROVE GateInv'
  <2> DEFINE q == [pc |-> "claimed", ch |-> c]
  <2>1. SessionsKept
    BY <1>7, KeepingStep DEF Keeping
  <2>2. /\ request' = [request EXCEPT ![r] = q]
        /\ UNCHANGED <<config, balances, challenge, faults>>
    BY <1>7 DEF Claim
  <2>3. q \in RequestStates /\ q.pc = "claimed"
    BY DEF RequestStates
  <2>4. RequestInv'
    BY <1>0, <2>2, <2>3 DEF RequestInv, ReadsAreTrue
  <2> QED
    BY <1>0, <1>f, <2>1, <2>2, <2>4, TypesFrame, SessionsFrame DEF GateInv, SessionsKept
<1>8. ASSUME NEW r \in Requests, NEW s \in Slots, VerifyBalance(r, s) PROVE GateInv'
  <2> DEFINE old == request[r]
             q == IF balances[s] < old.req THEN Idle
                  ELSE [pc |-> "paid", ch |-> old.ch, ver |-> old.ver, req |-> old.req,
                        slot |-> s, amount |-> balances[s]]
  <2>1. /\ request' = [request EXCEPT ![r] = q] /\ s \in 1..Len(balances)
        /\ UNCHANGED <<config, balances, challenge, session, faults>>
    BY <1>0, <1>8 DEF VerifyBalance, RequestInv
  <2>2. /\ q \in RequestStates
        /\ q.pc \in {"paid", "observed"} => q.slot = s /\ q.amount = balances[s]
    <3>1. old.ch \in Challenges /\ old.ver \in Versions /\ old.req \in Amounts
      BY <1>0, <1>8 DEF VerifyBalance, RequestInv, RequestStates, Idle
    <3>2. balances[s] \in Amounts
      BY <1>0, <2>1 DEF TypeOK
    <3> QED
      BY <3>1, <3>2 DEF RequestStates, Idle
  <2>3. RequestInv'
    BY <1>0, <2>1, <2>2 DEF RequestInv, ReadsAreTrue
  <2> QED
    BY <1>0, <1>f, <1>k, <2>1, <2>3, TypesFrame, SessionsFrame DEF GateInv, SessionsKept
<1>9. ASSUME NEW r \in Requests, NEW s \in Slots, Observe(r, s) PROVE GateInv'
  <2> DEFINE q == [pc |-> "observed", ch |-> request[r].ch, slot |-> s, amount |-> balances[s]]
  <2>1. /\ request' = [request EXCEPT ![r] = q] /\ s \in 1..Len(balances)
        /\ UNCHANGED <<config, balances, challenge, session, faults>>
    BY <1>0, <1>9 DEF Observe, RequestInv
  <2>2. q \in RequestStates
    <3>1. request[r].ch \in Challenges
      BY <1>0, <1>9 DEF Observe, RequestInv, RequestStates, Idle
    <3>2. balances[s] \in Amounts
      BY <1>0, <2>1 DEF TypeOK
    <3> QED
      BY <3>1, <3>2 DEF RequestStates
  <2>3. RequestInv'
    BY <1>0, <2>1, <2>2 DEF RequestInv, ReadsAreTrue
  <2> QED
    BY <1>0, <1>f, <1>k, <2>1, <2>3, TypesFrame, SessionsFrame DEF GateInv, SessionsKept
<1>10. ASSUME NEW r \in Requests, NEW rev \in BOOLEAN, RecheckFails(r, rev) PROVE GateInv'
  BY <1>0, <1>10, KeepingStep, FaultType, OrdinaryStep DEF Keeping, RecheckFails
<1>11. ASSUME NEW r \in Requests, CreateSession(r) PROVE GateInv'
  <2> DEFINE q == request[r]
             granted == Accepts(q) /\ session[q.ch].st = "none"
             new == [Absent EXCEPT !.st = "active", !.ver = q.ver, !.req = q.req,
                                   !.slot = q.slot]
  <2>1. /\ q.ch \in Challenges /\ q.ver \in Versions /\ q.req \in Amounts /\ q.slot \in Slots
        /\ q.slot \in 1..Len(balances) /\ q.amount = balances[q.slot]
    <3>1. q.pc = "paid"
      BY <1>11 DEF CreateSession
    <3>2. q \in [pc : {"paid"}, ch : Challenges, ver : Versions, req : Amounts,
                 slot : Slots, amount : Amounts]
      BY <1>0, <3>1 DEF RequestInv, RequestStates, Idle
    <3> QED
      BY <1>0, <3>1, <3>2 DEF RequestInv, ReadsAreTrue
  <2>2. UNCHANGED <<config, balances, challenge, faults>> /\ Finish(r)
    BY <1>11 DEF CreateSession
  <2>3. RequestInv'
    BY <2>2, RequestsFrame
  <2>4. CASE ~granted
    <3>1. session' = session
      BY <1>0, <1>11, <2>4 DEF CreateSession, TypeOK
    <3> QED
      BY <1>f, <1>k, <2>2, <3>1, OrdinaryStep
  <2>5. CASE granted
    <3>1. new \in Sessions /\ new.st = "active"
          /\ new.ver = q.ver /\ new.req = q.req /\ new.slot = q.slot
      BY <2>1 DEF Absent, Sessions
    <3>2. session'[q.ch] = new
      BY <1>11, <2>1, <2>5 DEF CreateSession
    <3>3. ASSUME NEW c \in Challenges, c # q.ch
          PROVE  /\ session'[c] \in Sessions /\ session'[c].st # "active"
                 /\ session'[c].slot = session[c].slot
                 /\ session'[c].st = "none" => session'[c] = session[c]
      <4>1. CASE session[c].st = "active"
        <5>1. session'[c] = EndedAs(session[c], "revoked")
          BY <1>11, <2>5, <3>3, <4>1 DEF CreateSession, Rotated, EndedAs
        <5>2. session[c] \in Sessions /\ "revoked" \in Ended
          BY <1>0 DEF TypeOK, Ended
        <5> QED
          BY <5>1, <5>2, EndedRow
      <4>2. CASE session[c].st # "active"
        <5>1. session'[c] = session[c]
          BY <1>11, <2>5, <3>3, <4>2 DEF CreateSession, Rotated
        <5> QED
          BY <1>0, <4>2, <5>1 DEF TypeOK
      <4> QED
        BY <4>1, <4>2
    <3>4. session' \in [Challenges -> Sessions]
      <4>1. session' = [c \in Challenges |-> session'[c]]
        BY <1>11 DEF CreateSession
      <4> QED
        BY <3>1, <3>2, <3>3, <4>1
    <3>5. TypeOK'
      BY <1>0, <1>f, <2>2, <2>3, <3>4, TypesFrame
    <3>6. SoleActive' /\ UnusedIsAbsent'
      BY <3>1, <3>2, <3>3 DEF GateInv, SoleActive, UnusedIsAbsent
    <3>7. SlotsReached'
      BY <2>1, <2>2, <3>1, <3>2, <3>3 DEF GateInv, SlotsReached
    <3>8. ActiveIsPaid'
      <4>1. /\ CurrentOf(q.ver) /\ q.req = config.req /\ balances[q.slot] >= config.req
            /\ q.slot >= config.slot
        BY <2>1, <2>5 DEF Accepts
      <4> QED
        BY <2>2, <3>1, <3>2, <3>3, <4>1 DEF ActiveIsPaid, CurrentOf
    <3> QED
      BY <2>3, <3>5, <3>6, <3>7, <3>8 DEF GateInv
  <2> QED
    BY <2>4, <2>5
<1>12. ASSUME NEW r \in Requests, RecordBalance(r) PROVE GateInv'
  <2> DEFINE q == request[r]
             c == q.ch
             st == IF q.amount < session[c].req THEN "insufficient_balance" ELSE session[c].st
             row == [session[c] EXCEPT
                        !.st = st, !.slot = q.slot,
                        !.age = IF @ = "lapsed" THEN @ ELSE "fresh",
                        !.claim = NoRequest, !.lease = FALSE]
  <2>1. /\ c \in Challenges /\ q.slot \in Slots /\ q.slot \in 1..Len(balances)
        /\ q.amount = balances[q.slot]
    BY <1>0, <1>12 DEF RecordBalance, RequestInv, RequestStates, ReadsAreTrue, Idle
  <2>2. UNCHANGED <<config, balances, challenge, faults>> /\ Finish(r)
    BY <1>12 DEF RecordBalance
  <2>3. RequestInv'
    BY <2>2, RequestsFrame
  <2>4. CASE session' = session
    BY <1>f, <1>k, <2>2, <2>4, OrdinaryStep
  <2>5. CASE \E end \in Ended : session[c].st = "active" /\ Close(c, end)
    BY <1>0, <1>f, <2>1, <2>2, <2>5, CloseKeeps, OrdinaryStep
  <2>6. CASE /\ Mine(r, c) /\ CurrentOf(session[c].ver) /\ ~Stale(c, q.slot)
             /\ session' = [session EXCEPT ![c] = row]
    <3>1. session[c] \in Sessions /\ session[c].st = "active"
      BY <1>0, <2>1, <2>6 DEF TypeOK, Mine
    <3>2. /\ row \in Sessions /\ row.st = st /\ st # "none" /\ row.slot = q.slot
          /\ row.ver = session[c].ver /\ row.req = session[c].req
      BY <2>1, <3>1 DEF Sessions, Ended
    <3>3. session' \in [Challenges -> Sessions]
      BY <1>0, <2>6, <3>2 DEF TypeOK
    <3>4. TypeOK'
      BY <1>0, <1>f, <2>2, <2>3, <3>3, TypesFrame
    <3>5. session'[c] = row /\ \A d \in Challenges \ {c} : session'[d] = session[d]
      BY <1>0, <2>1, <2>6 DEF TypeOK
    <3>6. SoleActive' /\ UnusedIsAbsent'
      <4>1. ASSUME NEW d \in Challenges
            PROVE  /\ session'[d].st = "active" => session[d].st = "active"
                   /\ session'[d].st = "none" => session'[d] = session[d]
        <5>1. CASE d = c
          BY <3>1, <3>2, <3>5, <5>1
        <5>2. CASE d # c
          BY <3>5, <5>2
        <5> QED
          BY <5>1, <5>2
      <4> QED
        BY <4>1 DEF GateInv, SoleActive, UnusedIsAbsent
    <3>7. SlotsReached'
      BY <2>1, <2>2, <3>2, <3>5 DEF GateInv, SlotsReached
    <3>8. /\ CurrentOf(session[c].ver) /\ session[c].req = config.req
          /\ session[c].slot >= config.slot /\ q.slot >= session[c].slot
          /\ {config.slot, session[c].slot, q.slot} \subseteq Int
      <4>1. {config.slot, session[c].slot, q.slot} \subseteq Int
        BY <1>0, <2>1, <3>1 DEF TypeOK, Configs, Sessions, Slots
      <4> QED
        BY <2>1, <2>6, <3>1, <4>1 DEF GateInv, ActiveIsPaid, Stale
    <3>9. st = "active" => balances[q.slot] >= config.req
      <4>1. q.amount \in Int /\ config.req \in Int
        <5>1. config \in Configs /\ balances[q.slot] \in Amounts
          BY <1>0, <2>1 DEF TypeOK
        <5> QED
          BY <2>1, <5>1 DEF Configs, Amounts
      <4> QED
        BY <2>1, <3>8, <4>1
    <3>10. ActiveIsPaid'
      <4>1. q.slot >= config.slot
        BY <3>8
      <4> QED
        <5>1. ASSUME NEW d \in Challenges, session'[d].st = "active"
              PROVE  /\ CurrentOf(session'[d].ver) /\ session'[d].req = config.req
                     /\ balances[session'[d].slot] >= config.req
                     /\ session'[d].slot >= config.slot
          <6>1. CASE d = c
            BY <3>2, <3>5, <3>8, <3>9, <4>1, <5>1, <6>1
          <6>2. CASE d # c
            BY <3>5, <5>1, <6>2 DEF GateInv, ActiveIsPaid
          <6> QED
            BY <6>1, <6>2
        <5> QED
          BY <2>2, <5>1 DEF ActiveIsPaid, CurrentOf
    <3> QED
      BY <2>3, <3>4, <3>6, <3>7, <3>10 DEF GateInv
  <2> QED
    BY <1>0, <1>12, <2>1, <2>4, <2>5, <2>6 DEF RecordBalance, Mine, Ended, TypeOK
<1>13. ASSUME NEW r \in Requests, Crash(r) PROVE GateInv'
  BY <1>0, <1>13, <1>k, FaultType, OrdinaryStep DEF Crash
<1>14. ASSUME NEW on \in BOOLEAN, NEW req \in Amounts \ {0}, NEW s \in Slots,
              UpdateConfig(on, req, s)
       PROVE  GateInv'
  <2>1. /\ config' \in Configs /\ UNCHANGED <<balances, challenge, request, faults>>
    <3>1. config.ver + 1 \in Versions
      <4>1. config.ver \in Versions /\ config.ver < MaxVersion
        BY <1>0, <1>14 DEF UpdateConfig, TypeOK, Configs
      <4> QED
        BY <4>1, GateAssumption DEF Versions
    <3> QED
      BY <1>14, <3>1 DEF UpdateConfig, Configs
  <2>2. SessionsKept /\ \A c \in Challenges : session'[c].st # "active"
    <3>1. ASSUME NEW c \in Challenges, session'[c].st = "active" PROVE FALSE
      <4>1. CASE session[c].st = "active"
        BY <1>14, <3>1, <4>1, <1>0 DEF UpdateConfig, Invalidated, TypeOK, Sessions
      <4> QED
        BY <1>14, <3>1, <4>1 DEF UpdateConfig, Invalidated
    <3> QED
      BY <1>14, <3>1, KeepingStep DEF Keeping
  <2>3. RequestInv'
    BY <2>1, RequestsFrame
  <2>4. TypeOK'
    BY <1>0, <2>1, <2>2, <2>3 DEF TypeOK, SessionsKept
  <2>5. UnusedIsAbsent' /\ SlotsReached'
    BY <2>1, <2>2 DEF GateInv, SessionsKept, UnusedIsAbsent, SlotsReached, Ended
  <2>6. SoleActive' /\ ActiveIsPaid'
    BY <2>2 DEF SoleActive, ActiveIsPaid
  <2> QED
    BY <2>3, <2>4, <2>5, <2>6 DEF GateInv
<1>15. ASSUME NEW b \in Amounts, NextSlot(b) PROVE GateInv'
  <2>1. UNCHANGED <<config, challenge, session, request, faults>>
    BY <1>15 DEF NextSlot
  <2>2. TypeOK'
    BY <1>0, <1>15, <2>1, ChainGrows DEF TypeOK
  <2>3. \A s \in 1..Len(balances) : s \in 1..Len(balances') /\ balances'[s] = balances[s]
    BY <1>0, <1>15, ChainGrows DEF TypeOK, Slots
  <2>4. RequestInv'
    BY <1>0, <2>1, <2>3 DEF RequestInv, ReadsAreTrue
  <2>5. SlotsReached' /\ ActiveIsPaid'
    BY <2>1, <2>3 DEF GateInv, SlotsReached, ActiveIsPaid, CurrentOf
  <2> QED
    BY <2>1, <2>2, <2>4, <2>5 DEF GateInv, SoleActive, UnusedIsAbsent
<1>16. CASE UNCHANGED vars
  BY <1>16, <1>k, <1>f, OrdinaryStep DEF vars
<1> QED
  BY <1>1, <1>2, <1>3, <1>4, <1>5, <1>6, <1>7, <1>8, <1>9, <1>10, <1>11, <1>12, <1>13,
     <1>14, <1>15, <1>16 DEF Next

(* The gate's variables keep their types, and what requests have read is   *)
(* true.                                                                   *)
THEOREM GateInvariant == Spec => []GateInv
<1>1. QED
  BY GateInit, GateStep, PTL DEF Spec
-----------------------------------------------------------------------------
(* However many tabs verify at once, and whatever rechecks, updates and    *)
(* failures come between their steps, one session of the wallet at most is *)
(* active.                                                                 *)
THEOREM OneSessionActive == Spec => []OneActive
<1>1. GateInv => OneActive
  <2> SUFFICES ASSUME GateInv PROVE OneActive
    OBVIOUS
  <2> DEFINE Active == {c \in Challenges : session[c].st = "active"}
  <2>1. CASE Active = {}
    BY <2>1, FS_EmptySet DEF OneActive
  <2>2. CASE Active # {}
    <3>1. PICK c \in Challenges : Active = {c}
      BY <2>2 DEF GateInv, SoleActive
    <3> QED
      BY <3>1, FS_Singleton DEF OneActive
  <2> QED
    BY <2>1, <2>2
<1> QED
  BY <1>1, GateInvariant, PTL

(* An active session was paid for under the configuration of the moment:   *)
(* a verification that read an older one is refused when it commits, and   *)
(* an update ends the sessions of the one before.                          *)
THEOREM ActiveSessionIsPaid == Spec => []ActiveIsPaid
<1>1. GateInv => ActiveIsPaid
  BY DEF GateInv
<1> QED
  BY <1>1, GateInvariant, PTL
-----------------------------------------------------------------------------
LEMMA NextShape ==
    [Next]_vars => Keeping \/ \E r \in Requests : CreateSession(r) \/ RecordBalance(r)
  BY DEF Next, Keeping

(* What a new session does to the others, and a recorded balance to its    *)
(* own.                                                                    *)
LEMMA CreateShape ==
    ASSUME GateInv, NEW r \in Requests, CreateSession(r), NEW c \in Challenges,
           session[c].st # "none"
    PROVE  /\ session'[c].slot = session[c].slot /\ session'[c].age = session[c].age
           /\ \/ session'[c].st = session[c].st
              \/ session[c].st = "active" /\ session'[c].st \in Ended
<1>1. session[c] \in Sessions
  BY DEF GateInv, TypeOK
<1>2. session'[c] = session[c] \/ session'[c] = EndedAs(session[c], "revoked")
  BY DEF CreateSession, Rotated, EndedAs
<1>3. session[c].st = "active" \/ session'[c] = session[c]
  BY DEF CreateSession, Rotated
<1>4. "revoked" \in Ended
  BY DEF Ended
<1> QED
  BY <1>1, <1>2, <1>3, <1>4, EndedRow

LEMMA RecordShape ==
    ASSUME GateInv, NEW r \in Requests, RecordBalance(r), NEW c \in Challenges
    PROVE  \/ session'[c] = session[c]
           \/ /\ session[c].st = "active" /\ session[c].claim = r
              /\ request[r].pc = "observed" /\ request'[r] = Idle
              /\ session'[c].slot >= session[c].slot
<1> DEFINE q == request[r]
<1>1. q.pc = "observed" /\ request'[r] = Idle
  BY DEF RecordBalance, Finish, GateInv, RequestInv
<1>2. q.ch \in Challenges /\ q.slot \in Slots
  BY <1>1 DEF GateInv, RequestInv, RequestStates, Idle
<1>3. session \in [Challenges -> Sessions]
  BY DEF GateInv, TypeOK
<1>4. CASE c # q.ch \/ ~Mine(r, q.ch)
  BY <1>2, <1>3, <1>4 DEF RecordBalance, Close
<1>5. CASE c = q.ch /\ Mine(r, q.ch)
  <2>1. \/ session'[c].slot = session[c].slot
        \/ ~Stale(c, q.slot) /\ session'[c].slot = q.slot
    <3>1. session[c].st = "active" /\ TypeOK /\ c = request[r].ch /\ Mine(r, c)
      BY <1>5 DEF Mine, GateInv
    <3>2. ASSUME NEW st \in Ended, Close(c, st) PROVE session'[c].slot = session[c].slot
      BY <3>1, <3>2, CloseKeeps DEF SessionsKept
    <3>3. \/ \E st \in Ended : Close(c, st)
          \/ ~Stale(c, q.slot) /\ session'[c].slot = q.slot
      <4>1. ASSUME ~Stale(c, q.slot), CurrentOf(session[c].ver)
            PROVE  session'[c].slot = q.slot
        <5> DEFINE st == IF q.amount < session[c].req THEN "insufficient_balance"
                         ELSE session[c].st
                   row == [session[c] EXCEPT
                              !.st = st, !.slot = q.slot,
                              !.age = IF @ = "lapsed" THEN @ ELSE "fresh",
                              !.claim = NoRequest, !.lease = FALSE]
        <5>1. session' = [session EXCEPT ![c] = row]
          BY <1>3, <3>1, <4>1 DEF RecordBalance
        <5>2. session[c] \in Sessions
          BY <1>3
        <5>3. row.slot = q.slot
          BY <5>2 DEF Sessions
        <5> QED
          BY <1>3, <5>1, <5>3
      <4>2. CASE ~CurrentOf(session[c].ver) \/ Stale(c, q.slot)
        <5>1. Close(c, "configuration_changed") \/ Close(c, "revoked")
          BY <3>1, <4>2 DEF RecordBalance
        <5>2. "configuration_changed" \in Ended /\ "revoked" \in Ended
          BY DEF Ended
        <5> QED
          BY <5>1, <5>2
      <4> QED
        BY <4>1, <4>2
    <3> QED
      BY <3>2, <3>3
  <2>2. session[c].slot \in Int /\ q.slot \in Int
    BY <1>2, <1>3 DEF Sessions, Slots
  <2> QED
    BY <1>1, <1>5, <2>1, <2>2 DEF Mine, Stale
<1> QED
  BY <1>4, <1>5

(* A check never replaces what a later slot has shown, and an ended        *)
(* session stays ended in the way it ended, whatever answers come late.    *)
THEOREM SessionsMoveOn == Spec => SessionsOnlyMoveOn
<1> DEFINE MovesOn(c) ==
        session[c].st # "none" =>
            /\ session'[c].slot >= session[c].slot
            /\ session[c].st \in Ended => session'[c].st = session[c].st
<1>1. ASSUME GateInv, [Next]_vars, NEW c \in Challenges PROVE MovesOn(c)
  <2>1. session[c].slot \in Int
    BY <1>1 DEF GateInv, TypeOK, Sessions, Slots
  <2>2. CASE SessionsKept
    BY <2>1, <2>2 DEF SessionsKept, Ended
  <2>3. ASSUME NEW r \in Requests, CreateSession(r) PROVE MovesOn(c)
    BY <1>1, <2>1, <2>3, CreateShape DEF Ended
  <2>4. ASSUME NEW r \in Requests, RecordBalance(r) PROVE MovesOn(c)
    BY <1>1, <2>1, <2>4, RecordShape DEF Ended
  <2> QED
    BY <1>1, <2>2, <2>3, <2>4, NextShape, KeepingStep
<1>2. GateInv /\ [Next]_vars => \A c \in Challenges : MovesOn(c)
  BY <1>1
<1> QED
  BY <1>2, GateInvariant, PTL DEF SessionsOnlyMoveOn, Spec

(* While a request holds the claim on a session, no other request records  *)
(* a balance in it.                                                        *)
THEOREM ClaimExcludesOthers == Spec => ClaimIsExclusive
<1> DEFINE Exclusive(c) ==
        session[c].age \in {"rested", "due"} /\ session'[c].age = "fresh" =>
            /\ session[c].claim # NoRequest
            /\ request[session[c].claim].pc = "observed"
            /\ request'[session[c].claim] = Idle
<1>1. ASSUME GateInv, [Next]_vars, NEW c \in Challenges PROVE Exclusive(c)
  <2>1. CASE SessionsKept
    BY <2>1 DEF SessionsKept
  <2>2. ASSUME NEW r \in Requests, CreateSession(r) PROVE Exclusive(c)
    <3>1. session[c].st = "none" => session[c].age = "fresh"
      BY <1>1 DEF GateInv, UnusedIsAbsent, Absent
    <3> QED
      BY <1>1, <2>2, <3>1, CreateShape
  <2>3. ASSUME NEW r \in Requests, RecordBalance(r) PROVE Exclusive(c)
    BY <1>1, <2>3, RecordShape, GateAssumption
  <2> QED
    BY <1>1, <2>1, <2>2, <2>3, NextShape, KeepingStep
<1>2. GateInv /\ [Next]_vars => \A c \in Challenges : Exclusive(c)
  BY <1>1
<1> QED
  BY <1>2, GateInvariant, PTL DEF ClaimIsExclusive, Spec
=============================================================================
