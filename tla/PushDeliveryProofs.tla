-------------------------- MODULE PushDeliveryProofs --------------------------
(***************************************************************************)
(* The two nested retry loops of a push repeat neither a success nor an     *)
(* invalid token, and a job is settled for a reason: for any number of      *)
(* jobs, handlers, attempts, retries and stalls.                            *)
(*                                                                         *)
(* The argument counts rounds.  A round of a job is open in a handler that  *)
(* has not heard the end of it, or pending while BullMQ will hand the job   *)
(* out again; it ends in at most one answer that is final.  Only a stall    *)
(* opens a round without ending one.                                        *)
(***************************************************************************)
EXTENDS PushDelivery, Integers, FiniteSets, FiniteSetTheorems, TLAPS

(* What the handlers and BullMQ agree on. *)
LocksAreActive ==
    \A j \in Job :
        /\ owner[j] # NoHandler => state[j] = "active"
        /\ ring[j] \in {"none", "adding"} => state[j] = "none"

AttemptsAreLeft ==
    \A j \in Job :
        /\ state[j] \in {"none", "waiting", "delayed", "active"} =>
               attemptsMade[j] < MaxAttempts /\ stalls[j] <= MaxStalls
        /\ attemptsMade[j] \in 0..MaxAttempts /\ stalls[j] \in 0..MaxStalls + 1

Open(j)    == {h \in Handler : job[h] = j /\ step[h] \in {"send", "sleep", "failure"}}
Pending(j) == IF state[j] \in {"none", "waiting", "delayed"} THEN 1 ELSE 0
Final(j)   == (pushed[j] - unheard[j]) + invalid[j]

RoundsAreCounted ==
    \A j \in Job :
        /\ IsFiniteSet(Open(j))
        /\ Final(j) + Cardinality(Open(j)) + Pending(j) <= 1 + stalls[j]

(* What may still be sent without another stall: the retries of the handlers *)
(* that have not ended, and the attempts BullMQ has not given out.           *)
Tries(j)  == {t \in Handler \X (1..MaxRetries + 1) :
                 job[t[1]] = j /\ step[t[1]] \in {"send", "sleep"} /\ attempt[t[1]] < t[2]}
Rounds(j) == CASE state[j] \in {"none", "waiting", "delayed"} -> MaxAttempts - attemptsMade[j]
               [] state[j] = "active" -> MaxAttempts - attemptsMade[j] - 1
               [] OTHER               -> 0

Planned(j) == Rounds(j) * (MaxRetries + 1)
Allowed(j) == (MaxAttempts + stalls[j]) * (MaxRetries + 1)

RetriesAreLeft ==
    \A h \in Handler : step[h] \in {"send", "sleep"} => attempt[h] <= MaxRetries

SendsAreBudgeted ==
    \A j \in Job :
        /\ IsFiniteSet(Tries(j))
        /\ sends[j] + Cardinality(Tries(j)) + Planned(j) <= Allowed(j)

(* A handler that is done with a job knows why. *)
DoneForAReason ==
    configured =>
        \A h \in Handler :
            step[h] \in {"success", "tokenInvalid"} => pushed[job[h]] + invalid[job[h]] > 0

Inv ==
    /\ TypeOK /\ LocksAreActive /\ AttemptsAreLeft
    /\ RoundsAreCounted /\ RetriesAreLeft /\ SendsAreBudgeted
    /\ DoneForAReason /\ SettledForAReason
-----------------------------------------------------------------------------
(* Where an answer leads. *)
LEMMA Answered ==
    ASSUME NEW answer \in {"ok", "invalid", "permanent", "transient"}, NEW n
    PROVE  /\ AfterAnswer(answer, n) \in {"success", "tokenInvalid", "failure", "sleep"}
           /\ AfterAnswer(answer, n) \in {"success", "tokenInvalid"} <=>
                  answer \in {"ok", "invalid"}
  BY DEF AfterAnswer

(* What a turn of the retry loop does. *)
LEMMA SendMoves ==
    ASSUME TypeOK, NEW h \in Handler, Send(h)
    PROVE  /\ step[h] = "send" /\ job[h] \in Job
           /\ step' = [step EXCEPT ![h] = step'[h]]
           /\ step'[h] \in {"success", "tokenInvalid", "failure", "sleep"}
           /\ \/ /\ ~configured /\ attempt' = attempt /\ UNCHANGED fcmVars
              \/ /\ configured
                 /\ attempt' = [attempt EXCEPT ![h] = @ + 1]
                 /\ \E arrived \in {0, 1}, lost \in {0, 1}, dead \in {0, 1} :
                      /\ sends' = [sends EXCEPT ![job[h]] = @ + 1]
                      /\ pushed' = [pushed EXCEPT ![job[h]] = @ + arrived]
                      /\ unheard' = [unheard EXCEPT ![job[h]] = @ + lost]
                      /\ invalid' = [invalid EXCEPT ![job[h]] = @ + dead]
                      /\ (arrived - lost) + dead =
                             IF step'[h] \in {"success", "tokenInvalid"} THEN 1 ELSE 0
                      /\ lost <= arrived
<1>1. step[h] = "send" /\ job[h] \in Job /\ step \in [Handler -> SendStep]
  BY DEF Send, TypeOK
<1>2. CASE ~configured
  BY <1>1, <1>2 DEF Send, fcmVars
<1>3. CASE configured
  <2>1. PICK answer \in {"ok", "invalid", "permanent", "transient"}, came \in BOOLEAN :
           /\ answer = "ok" => came
           /\ answer \in {"invalid", "permanent"} => ~came
           /\ attempt' = [attempt EXCEPT ![h] = @ + 1]
           /\ step' = [step EXCEPT ![h] = AfterAnswer(answer, attempt[h] + 1)]
           /\ Count(sends, job[h], TRUE)
           /\ Count(pushed, job[h], came)
           /\ Count(unheard, job[h], came /\ answer # "ok")
           /\ Count(invalid, job[h], answer = "invalid")
    BY <1>3 DEF Send
  <2>2. step'[h] = AfterAnswer(answer, attempt[h] + 1)
    BY <1>1, <2>1
  <2>3. /\ step'[h] \in {"success", "tokenInvalid", "failure", "sleep"}
        /\ step'[h] \in {"success", "tokenInvalid"} <=> answer \in {"ok", "invalid"}
    BY <2>2, Answered
  <2> DEFINE arrived == IF came THEN 1 ELSE 0
             lost    == IF came /\ answer # "ok" THEN 1 ELSE 0
             dead    == IF answer = "invalid" THEN 1 ELSE 0
  <2>4. /\ sends' = [sends EXCEPT ![job[h]] = @ + 1]
        /\ pushed' = [pushed EXCEPT ![job[h]] = @ + arrived]
        /\ unheard' = [unheard EXCEPT ![job[h]] = @ + lost]
        /\ invalid' = [invalid EXCEPT ![job[h]] = @ + dead]
    BY <2>1 DEF Count
  <2>5. /\ (arrived - lost) + dead = IF answer \in {"ok", "invalid"} THEN 1 ELSE 0
        /\ lost <= arrived
        /\ arrived \in {0, 1} /\ lost \in {0, 1} /\ dead \in {0, 1}
    BY <2>1
  <2> HIDE DEF arrived, lost, dead
  <2> QED
    BY <1>1, <1>3, <2>1, <2>2, <2>3, <2>4, <2>5
<1> QED
  BY <1>2, <1>3

(* Every counter stays in its range. *)
LEMMA TypeStep ==
    TypeOK /\ LocksAreActive /\ AttemptsAreLeft /\ [Next]_vars => TypeOK'
<1> SUFFICES ASSUME TypeOK, LocksAreActive, AttemptsAreLeft, [Next]_vars PROVE TypeOK'
  OBVIOUS
<1> USE DEF TypeOK, jobVars, handlerVars, fcmVars
<1>1. ASSUME NEW j \in Job, Ring(j) \/ AddJob(j) \/ Promote(j) PROVE TypeOK'
  BY <1>1 DEF Ring, AddJob, Promote, RingStep, JobState
<1>2. ASSUME NEW j \in Job, Stall(j) PROVE TypeOK'
  BY <1>2, PushAssumption DEF Stall, AttemptsAreLeft, JobState
<1>3. ASSUME NEW h \in Handler, Take(h) PROVE TypeOK'
  BY <1>3, PushAssumption DEF Take, JobState, SendStep
<1>4. ASSUME NEW h \in Handler, Send(h) PROVE TypeOK'
  <2>1. /\ step' \in [Handler -> SendStep]
        /\ \A k \in Handler : step'[k] = "idle" <=> step[k] = "idle"
    BY <1>4, SendMoves DEF SendStep, Result
  <2>2. /\ attempt' \in [Handler -> Nat] /\ sends' \in [Job -> Nat]
        /\ pushed' \in [Job -> Nat] /\ unheard' \in [Job -> Nat] /\ invalid' \in [Job -> Nat]
    BY <1>4, SendMoves
  <2> QED
    BY <1>4, <2>1, <2>2 DEF Send
<1>5. ASSUME NEW h \in Handler, Wake(h) PROVE TypeOK'
  BY <1>5 DEF Wake, SendStep
<1>6. ASSUME NEW h \in Handler, Return(h) PROVE TypeOK'
  <2>1. job[h] \in Job
    BY <1>6 DEF Return, Result
  <2>2. owner[job[h]] = h => attemptsMade[job[h]] + 1 \in 0..MaxAttempts
    BY <2>1, PushAssumption DEF LocksAreActive, AttemptsAreLeft
  <2>3. /\ state' \in [Job -> JobState] /\ owner' \in [Job -> Handler \union {NoHandler}]
        /\ attemptsMade' \in [Job -> 0..MaxAttempts]
    BY <1>6, <2>1, <2>2 DEF Return, JobState
  <2>4. /\ job' \in [Handler -> Job \union {NoJob}] /\ step' \in [Handler -> SendStep]
        /\ attempt' \in [Handler -> Nat]
        /\ \A k \in Handler : step'[k] = "idle" <=> job'[k] = NoJob
    BY <1>6 DEF Return, Free, SendStep
  <2> QED
    BY <1>6, <2>3, <2>4 DEF Return
<1>7. ASSUME NEW h \in Handler, Die(h) PROVE TypeOK'
  BY <1>7 DEF Die, Free, SendStep
<1>8. CASE RedisFails \/ RedisRecovers \/ UNCHANGED vars
  BY <1>8 DEF RedisFails, RedisRecovers, vars
<1> QED
  BY <1>1, <1>2, <1>3, <1>4, <1>5, <1>6, <1>7, <1>8 DEF Next

(* A job has an owner only while BullMQ counts it as active. *)
LEMMA LocksAreActiveStep ==
    TypeOK /\ LocksAreActive /\ [Next]_vars => LocksAreActive'
<1> SUFFICES ASSUME TypeOK, LocksAreActive, [Next]_vars PROVE LocksAreActive'
  OBVIOUS
<1> USE DEF TypeOK, LocksAreActive, jobVars
<1>1. ASSUME NEW j \in Job, Ring(j) \/ AddJob(j) \/ Promote(j) PROVE LocksAreActive'
  BY <1>1 DEF Ring, AddJob, Promote
<1>2. ASSUME NEW j \in Job, Stall(j) PROVE LocksAreActive'
  BY <1>2 DEF Stall
<1>3. ASSUME NEW h \in Handler, Take(h) PROVE LocksAreActive'
  BY <1>3 DEF Take
<1>4. ASSUME NEW h \in Handler, Send(h) \/ Wake(h) \/ Die(h) PROVE LocksAreActive'
  BY <1>4 DEF Send, Wake, Die
<1>5. ASSUME NEW h \in Handler, Return(h) PROVE LocksAreActive'
  <2>1. job[h] \in Job
    BY <1>5 DEF Return, Result
  <2> QED
    BY <1>5, <2>1, PushAssumption DEF Return
<1>6. CASE RedisFails \/ RedisRecovers \/ UNCHANGED vars
  BY <1>6 DEF RedisFails, RedisRecovers, vars
<1> QED
  BY <1>1, <1>2, <1>3, <1>4, <1>5, <1>6 DEF Next

(* A job that is not settled has an attempt and a stall left. *)
LEMMA AttemptsAreLeftStep ==
    TypeOK /\ LocksAreActive /\ AttemptsAreLeft /\ SettledForAReason /\ [Next]_vars
        => /\ AttemptsAreLeft'
           /\ \A j \in Job : state'[j] = "failed" =>
                  attemptsMade'[j] = MaxAttempts \/ stalls'[j] > MaxStalls
<1> SUFFICES ASSUME TypeOK, LocksAreActive, AttemptsAreLeft, SettledForAReason, [Next]_vars,
                    NEW j \in Job
             PROVE  /\ state'[j] \in {"none", "waiting", "delayed", "active"} =>
                           attemptsMade'[j] < MaxAttempts /\ stalls'[j] <= MaxStalls
                    /\ attemptsMade'[j] \in 0..MaxAttempts /\ stalls'[j] \in 0..MaxStalls + 1
                    /\ state'[j] = "failed" =>
                           attemptsMade'[j] = MaxAttempts \/ stalls'[j] > MaxStalls
  BY DEF AttemptsAreLeft
<1> DEFINE Goal == /\ state'[j] \in {"none", "waiting", "delayed", "active"} =>
                          attemptsMade'[j] < MaxAttempts /\ stalls'[j] <= MaxStalls
                   /\ attemptsMade'[j] \in 0..MaxAttempts /\ stalls'[j] \in 0..MaxStalls + 1
                   /\ state'[j] = "failed" =>
                          attemptsMade'[j] = MaxAttempts \/ stalls'[j] > MaxStalls
<1> SUFFICES Goal
  OBVIOUS
<1> USE PushAssumption DEF TypeOK, jobVars
<1>0. /\ state[j] \in {"none", "waiting", "delayed", "active"} =>
             attemptsMade[j] < MaxAttempts /\ stalls[j] <= MaxStalls
      /\ attemptsMade[j] \in 0..MaxAttempts /\ stalls[j] \in 0..MaxStalls + 1
      /\ state[j] = "failed" => attemptsMade[j] = MaxAttempts \/ stalls[j] > MaxStalls
      /\ state[j] \in JobState
  BY DEF AttemptsAreLeft, SettledForAReason
<1>1. CASE /\ attemptsMade'[j] = attemptsMade[j] /\ stalls'[j] = stalls[j]
           /\ \/ state'[j] = state[j]
              \/ /\ state[j] \in {"none", "waiting", "delayed", "active"}
                 /\ state'[j] # "failed"
  BY <1>0, <1>1
<1> HIDE DEF Goal
<1>2. ASSUME NEW k \in Job, Ring(k) \/ AddJob(k) \/ Promote(k) PROVE Goal
  BY <1>1, <1>2 DEF Ring, AddJob, Promote, LocksAreActive, Goal
<1>3. ASSUME NEW k \in Job, Stall(k) PROVE Goal
  BY <1>0, <1>3 DEF Stall, Goal
<1>4. ASSUME NEW h \in Handler, Take(h) PROVE Goal
  BY <1>1, <1>4 DEF Take, Goal
<1>5. ASSUME NEW h \in Handler, Send(h) \/ Wake(h) \/ Die(h) PROVE Goal
  BY <1>1, <1>5 DEF Send, Wake, Die, Goal
<1>6. ASSUME NEW h \in Handler, Return(h) PROVE Goal
  <2>1. job[h] \in Job /\ stalls' = stalls
    BY <1>6 DEF Return, Result
  <2>2. CASE job[h] # j \/ owner[j] # h
    <3>1. attemptsMade'[j] = attemptsMade[j] /\ state'[j] = state[j]
      BY <1>6, <2>1, <2>2 DEF Return
    <3> QED
      BY <1>1, <2>1, <3>1 DEF Goal
  <2>3. CASE job[h] = j /\ owner[j] = h
    <3>1. state[j] = "active"
      BY <2>3 DEF LocksAreActive
    <3>2. \/ state'[j] = "completed" /\ attemptsMade' = attemptsMade
          \/ /\ attemptsMade'[j] = attemptsMade[j] + 1
             /\ state'[j] = IF attemptsMade[j] + 1 < MaxAttempts THEN "delayed" ELSE "failed"
      BY <1>6, <2>1, <2>3 DEF Return
    <3> QED
      BY <1>0, <2>1, <3>1, <3>2 DEF Goal
  <2> QED
    BY <2>2, <2>3
<1>7. CASE RedisFails \/ RedisRecovers \/ UNCHANGED vars
  BY <1>1, <1>7 DEF RedisFails, RedisRecovers, vars, Goal
<1> QED
  BY <1>2, <1>3, <1>4, <1>5, <1>6, <1>7 DEF Next

-----------------------------------------------------------------------------
(* Rounds.  Nothing but a step of h changes where h is with a job. *)
LEMMA OpenMoves ==
    ASSUME NEW j \in Job, NEW h \in Handler, IsFiniteSet(Open(j)),
           \A k \in Handler \ {h} : job'[k] = job[k] /\ step'[k] = step[k]
    PROVE  /\ IsFiniteSet(Open(j)')
           /\ Cardinality(Open(j)) \in Nat /\ Cardinality(Open(j)') \in Nat
           /\ h \in Open(j) /\ h \notin Open(j)' =>
                  Cardinality(Open(j)') = Cardinality(Open(j)) - 1
           /\ h \notin Open(j) /\ h \in Open(j)' =>
                  Cardinality(Open(j)') = Cardinality(Open(j)) + 1
           /\ (h \in Open(j) <=> h \in Open(j)') =>
                  Cardinality(Open(j)') = Cardinality(Open(j))
<1>1. \A k \in Handler \ {h} : k \in Open(j)' <=> k \in Open(j)
  BY DEF Open
<1>2. Open(j) \subseteq Handler /\ Open(j)' \subseteq Handler
  BY DEF Open
<1>3. CASE h \in Open(j) /\ h \notin Open(j)'
  <2>1. Open(j)' = Open(j) \ {h}
    BY <1>1, <1>2, <1>3
  <2> QED
    BY <1>3, <2>1, FS_RemoveElement, FS_CardinalityType
<1>4. CASE h \notin Open(j) /\ h \in Open(j)'
  <2>1. Open(j)' = Open(j) \union {h}
    BY <1>1, <1>2, <1>4
  <2> QED
    BY <1>4, <2>1, FS_AddElement, FS_CardinalityType
<1>5. CASE h \in Open(j) <=> h \in Open(j)'
  <2>1. Open(j)' = Open(j)
    BY <1>1, <1>2, <1>5
  <2> QED
    BY <1>5, <2>1, FS_CardinalityType
<1> QED
  BY <1>3, <1>4, <1>5

(* A round ends in one final answer; only a stall opens another one. *)
LEMMA RoundsAreCountedStep ==
    TypeOK /\ LocksAreActive /\ RoundsAreCounted /\ [Next]_vars => RoundsAreCounted'
<1> SUFFICES ASSUME TypeOK, LocksAreActive, RoundsAreCounted, [Next]_vars, NEW j \in Job
             PROVE  /\ IsFiniteSet(Open(j)')
                    /\ Final(j)' + Cardinality(Open(j)') + Pending(j)' <= 1 + stalls'[j]
  BY DEF RoundsAreCounted
<1> DEFINE Goal == /\ IsFiniteSet(Open(j)')
                   /\ Final(j)' + Cardinality(Open(j)') + Pending(j)' <= 1 + stalls'[j]
<1> SUFFICES Goal
  OBVIOUS
<1> USE DEF jobVars, handlerVars, fcmVars
<1>0. /\ IsFiniteSet(Open(j)) /\ Cardinality(Open(j)) \in Nat
      /\ Final(j) + Cardinality(Open(j)) + Pending(j) <= 1 + stalls[j]
      /\ Final(j) \in Int /\ stalls[j] \in Nat /\ state[j] \in JobState
      /\ Pending(j) \in {0, 1}
  BY FS_CardinalityType DEF RoundsAreCounted, TypeOK, Final, Pending
<1>1. ASSUME UNCHANGED handlerVars, UNCHANGED fcmVars,
             \/ stalls'[j] = stalls[j] /\ Pending(j)' = Pending(j)
             \/ stalls'[j] = stalls[j] + 1 /\ Pending(j) = 0 /\ Pending(j)' \in {0, 1}
      PROVE  Goal
  <2>1. Open(j)' = Open(j) /\ Final(j)' = Final(j)
    BY <1>1 DEF Open, Final
  <2> QED
    BY <1>0, <1>1, <2>1
<1>2. ASSUME NEW k \in Job, Ring(k) \/ AddJob(k) \/ Promote(k) PROVE Goal
  <2>1. Pending(j)' = Pending(j) /\ stalls' = stalls
    BY <1>2 DEF Ring, AddJob, Promote, TypeOK, LocksAreActive, Pending
  <2> QED
    BY <1>1, <1>2, <2>1 DEF Ring, AddJob, Promote
<1>3. ASSUME NEW k \in Job, Stall(k) PROVE Goal
  <2>1. \/ stalls'[j] = stalls[j] /\ Pending(j)' = Pending(j)
        \/ stalls'[j] = stalls[j] + 1 /\ Pending(j) = 0 /\ Pending(j)' \in {0, 1}
    BY <1>3 DEF Stall, TypeOK, Pending
  <2> QED
    BY <1>1, <1>3, <2>1 DEF Stall
<1>4. ASSUME NEW h \in Handler, Take(h) PROVE Goal
  <2>1. PICK k \in Job : /\ state[k] = "waiting"
                         /\ state' = [state EXCEPT ![k] = "active"]
                         /\ job' = [job EXCEPT ![h] = k]
    BY <1>4 DEF Take
  <2>2. /\ job[h] = NoJob /\ step' = [step EXCEPT ![h] = "send"]
        /\ Final(j)' = Final(j) /\ stalls' = stalls
    BY <1>4 DEF Take, Final
  <2>3. /\ \A i \in Handler \ {h} : job'[i] = job[i] /\ step'[i] = step[i]
        /\ h \notin Open(j) /\ (h \in Open(j)' <=> k = j)
    BY <2>1, <2>2, PushAssumption DEF Open, TypeOK
  <2>4. Pending(j)' = IF k = j THEN 0 ELSE Pending(j)
    BY <2>1 DEF Pending, TypeOK
  <2>5. k = j => Pending(j) = 1
    BY <2>1 DEF Pending
  <2> QED
    BY <1>0, <2>2, <2>3, <2>4, <2>5, OpenMoves
<1>5. ASSUME NEW h \in Handler, Send(h) PROVE Goal
  <2>0. /\ job' = job /\ state' = state /\ stalls' = stalls
        /\ step[h] = "send" /\ step' = [step EXCEPT ![h] = step'[h]]
        /\ step'[h] \in {"success", "tokenInvalid", "failure", "sleep"}
    BY <1>5, SendMoves DEF Send
  <2>1. Pending(j)' = Pending(j) /\ \A i \in Handler \ {h} : job'[i] = job[i] /\ step'[i] = step[i]
    BY <2>0 DEF Pending, TypeOK
  <2>2. /\ h \in Open(j) <=> job[h] = j
        /\ h \in Open(j)' <=> job[h] = j /\ step'[h] \notin {"success", "tokenInvalid"}
    BY <2>0 DEF Open
  <2>3. \/ Final(j)' = Final(j)
        \/ /\ Final(j)' = Final(j) + 1 /\ job[h] = j
           /\ step'[h] \in {"success", "tokenInvalid"}
    <3>1. CASE UNCHANGED fcmVars
      BY <3>1 DEF Final
    <3>2. ASSUME NEW arrived \in {0, 1}, NEW lost \in {0, 1}, NEW dead \in {0, 1},
                 pushed' = [pushed EXCEPT ![job[h]] = @ + arrived],
                 unheard' = [unheard EXCEPT ![job[h]] = @ + lost],
                 invalid' = [invalid EXCEPT ![job[h]] = @ + dead],
                 (arrived - lost) + dead =
                     IF step'[h] \in {"success", "tokenInvalid"} THEN 1 ELSE 0
          PROVE  \/ Final(j)' = Final(j)
                 \/ /\ Final(j)' = Final(j) + 1 /\ job[h] = j
                    /\ step'[h] \in {"success", "tokenInvalid"}
      <4>1. pushed[j] \in Nat /\ unheard[j] \in Nat /\ invalid[j] \in Nat
        BY DEF TypeOK
      <4>2. CASE job[h] # j
        BY <3>2, <4>2 DEF Final, TypeOK
      <4>3. CASE job[h] = j
        <5>1. /\ pushed'[j] = pushed[j] + arrived /\ unheard'[j] = unheard[j] + lost
              /\ invalid'[j] = invalid[j] + dead
          BY <3>2, <4>3 DEF TypeOK
        <5> QED
          BY <3>2, <4>1, <4>3, <5>1 DEF Final
      <4> QED
        BY <4>2, <4>3
    <3> QED
      BY <1>5, <3>1, <3>2, SendMoves
  <2> QED
    BY <1>0, <2>0, <2>1, <2>2, <2>3, OpenMoves
<1>6. ASSUME NEW h \in Handler, Wake(h) PROVE Goal
  <2>1. /\ Open(j)' = Open(j) /\ Final(j)' = Final(j) /\ Pending(j)' = Pending(j)
        /\ stalls' = stalls
    BY <1>6 DEF Wake, Open, Final, Pending, TypeOK
  <2> QED
    BY <1>0, <2>1
<1>7. ASSUME NEW h \in Handler, Free(h)
      PROVE  /\ \A i \in Handler \ {h} : job'[i] = job[i] /\ step'[i] = step[i]
             /\ h \notin Open(j)'
  BY <1>7 DEF Free, Open, TypeOK
<1>8. ASSUME NEW h \in Handler, Return(h) PROVE Goal
  <2>1. /\ Free(h) /\ stalls' = stalls /\ Final(j)' = Final(j) /\ job[h] \in Job
    BY <1>8 DEF Return, Final, TypeOK, Result
  <2>2. \/ Pending(j)' = Pending(j)
        \/ /\ job[h] = j /\ step[h] = "failure" /\ Pending(j) = 0 /\ Pending(j)' \in {0, 1}
    <3>1. CASE job[h] # j \/ owner[j] # h
      <4>1. state'[j] = state[j]
        BY <1>8, <2>1, <3>1 DEF Return, TypeOK
      <4> QED
        BY <4>1 DEF Pending
    <3>2. CASE job[h] = j /\ owner[j] = h
      <4>1. state[j] = "active"
        BY <3>2, PushAssumption DEF LocksAreActive
      <4>2. step[h] = "failure" \/ state'[j] = "completed"
        BY <1>8, <3>2 DEF Return, TypeOK
      <4> QED
        BY <3>2, <4>1, <4>2 DEF Pending
    <3> QED
      BY <3>1, <3>2
  <2>3. job[h] = j /\ step[h] = "failure" => h \in Open(j)
    BY DEF Open
  <2> QED
    BY <1>0, <1>7, <2>1, <2>2, <2>3, OpenMoves
<1>9. ASSUME NEW h \in Handler, Die(h) PROVE Goal
  <2>1. /\ Free(h) /\ stalls' = stalls /\ Final(j)' = Final(j) /\ Pending(j)' = Pending(j)
    BY <1>9 DEF Die, Final, Pending
  <2> QED
    BY <1>0, <1>7, <2>1, OpenMoves
<1>10. CASE RedisFails \/ RedisRecovers \/ UNCHANGED vars
  <2>1. UNCHANGED <<jobVars, handlerVars, fcmVars>>
    BY <1>10 DEF RedisFails, RedisRecovers, vars
  <2> QED
    BY <1>1, <2>1 DEF Pending
<1> HIDE DEF Goal
<1> QED
  BY <1>2, <1>3, <1>4, <1>5, <1>6, <1>8, <1>9, <1>10 DEF Next

-----------------------------------------------------------------------------
(* Sends. *)
LEMMA RetriesAreLeftStep ==
    TypeOK /\ RetriesAreLeft /\ [Next]_vars => RetriesAreLeft'
<1> SUFFICES ASSUME TypeOK, RetriesAreLeft, [Next]_vars, NEW g \in Handler,
                    step'[g] \in {"send", "sleep"}
             PROVE  attempt'[g] <= MaxRetries
  BY DEF RetriesAreLeft
<1> DEFINE Few == attempt'[g] <= MaxRetries
<1> SUFFICES Few
  OBVIOUS
<1>0. ASSUME UNCHANGED handlerVars PROVE Few
  BY <1>0 DEF RetriesAreLeft, handlerVars
<1>1. ASSUME NEW h \in Handler, Send(h) PROVE Few
  <2>1. /\ step' = [step EXCEPT ![h] = step'[h]] /\ step[h] = "send"
        /\ attempt' = attempt \/ attempt' = [attempt EXCEPT ![h] = @ + 1]
    BY <1>1, SendMoves
  <2>2. CASE g # h
    BY <2>1, <2>2 DEF RetriesAreLeft, TypeOK
  <2>3. CASE g = h
    <3>1. CASE ~configured
      BY <1>1, <2>3, <3>1 DEF Send, TypeOK
    <3>2. CASE configured
      <4>1. PICK answer \in {"ok", "invalid", "permanent", "transient"} :
               /\ attempt' = [attempt EXCEPT ![h] = @ + 1]
               /\ step' = [step EXCEPT ![h] = AfterAnswer(answer, attempt[h] + 1)]
        BY <1>1, <3>2 DEF Send
      <4>2. step'[h] = AfterAnswer(answer, attempt[h] + 1) /\ attempt'[h] = attempt[h] + 1
        BY <4>1 DEF TypeOK
      <4> QED
        BY <2>3, <4>2 DEF AfterAnswer
    <3> QED
      BY <3>1, <3>2
  <2> QED
    BY <2>2, <2>3
<1>2. ASSUME NEW h \in Handler, Wake(h) PROVE Few
  BY <1>2 DEF Wake, RetriesAreLeft, TypeOK
<1>3. ASSUME NEW h \in Handler, Take(h) PROVE Few
  BY <1>3, PushAssumption DEF Take, RetriesAreLeft, TypeOK
<1>4. ASSUME NEW h \in Handler, Return(h) \/ Die(h) PROVE Few
  BY <1>4 DEF Return, Die, Free, RetriesAreLeft, TypeOK
<1>5. ASSUME NEW j \in Job, Ring(j) \/ AddJob(j) \/ Promote(j) \/ Stall(j) PROVE Few
  BY <1>0, <1>5 DEF Ring, AddJob, Promote, Stall
<1>6. ASSUME RedisFails \/ RedisRecovers \/ UNCHANGED vars PROVE Few
  BY <1>0, <1>6 DEF RedisFails, RedisRecovers, vars
<1> HIDE DEF Few
<1> QED
  BY <1>1, <1>2, <1>3, <1>4, <1>5, <1>6 DEF Next

(* The tries of n attempts. *)
Budget(n) == n * (MaxRetries + 1)

(* A round has MaxRetries + 1 tries. *)
LEMMA Budgets ==
    /\ \A n \in Int : Budget(n) \in Int /\ Budget(n + 1) = Budget(n) + MaxRetries + 1
    /\ \A n, m \in Int : n <= m => Budget(n) <= Budget(m)
<1>1. MaxRetries \in Nat
  BY PushAssumption
<1>2. ASSUME NEW n \in Int PROVE Budget(n) \in Int /\ Budget(n + 1) = Budget(n) + MaxRetries + 1
  BY <1>1 DEF Budget
<1>3. ASSUME NEW n \in Int, NEW m \in Int, n <= m PROVE Budget(n) <= Budget(m)
  <2>1. (m - n) * (MaxRetries + 1) >= 0
    BY <1>1, <1>3
  <2> QED
    BY <1>1, <2>1 DEF Budget
<1> QED
  BY <1>2, <1>3

(* What a handler may still send, when it starts, sends and ends. *)
LEMMA TriesMove ==
    ASSUME NEW j \in Job, NEW h \in Handler, IsFiniteSet(Tries(j)),
           \A k \in Handler \ {h} :
               job'[k] = job[k] /\ step'[k] = step[k] /\ attempt'[k] = attempt[k]
    PROVE  /\ Cardinality(Tries(j)) \in Nat
           /\ IsFiniteSet(Tries(j)') /\ Cardinality(Tries(j)') \in Nat
           /\ Cardinality(Tries(j)') <= Cardinality(Tries(j)) + MaxRetries + 1
           /\ \/ job'[h] # j \/ step'[h] \notin {"send", "sleep"}
              \/ job'[h] = job[h] /\ step[h] \in {"send", "sleep"} /\ attempt'[h] = attempt[h]
              => Cardinality(Tries(j)') <= Cardinality(Tries(j))
           /\ /\ job'[h] = j /\ job[h] = j /\ step[h] = "send"
              /\ attempt[h] \in 0..MaxRetries /\ attempt'[h] = attempt[h] + 1
              => Cardinality(Tries(j)') <= Cardinality(Tries(j)) - 1
<1> DEFINE All == {h} \X (1..MaxRetries + 1)
<1>0. MaxRetries \in Nat
  BY PushAssumption
<1>1. IsFiniteSet(All) /\ Cardinality(All) = MaxRetries + 1
  <2>1. IsFiniteSet({h}) /\ Cardinality({h}) = 1
    BY FS_Singleton
  <2>2. IsFiniteSet(1..MaxRetries + 1) /\ Cardinality(1..MaxRetries + 1) = MaxRetries + 1
    BY <1>0, FS_Interval
  <2>3. IsFiniteSet(All) /\ Cardinality(All) = Cardinality({h}) * Cardinality(1..MaxRetries + 1)
    BY <2>1, <2>2, FS_Product
  <2> QED
    BY <1>0, <2>1, <2>2, <2>3
<1>2. \A t \in Handler \X (1..MaxRetries + 1) :
         t[1] # h => (t \in Tries(j)' <=> t \in Tries(j))
  BY DEF Tries
<1>3. /\ Tries(j) \subseteq Handler \X (1..MaxRetries + 1)
      /\ Tries(j)' \subseteq Handler \X (1..MaxRetries + 1)
  BY DEF Tries
<1>4. /\ Cardinality(Tries(j)) \in Nat
      /\ IsFiniteSet(Tries(j)') /\ Cardinality(Tries(j)') \in Nat
      /\ Cardinality(Tries(j)') <= Cardinality(Tries(j)) + MaxRetries + 1
  <2>1. Tries(j)' \subseteq Tries(j) \union All
    BY <1>2, <1>3
  <2>2. /\ IsFiniteSet(Tries(j) \union All)
        /\ Cardinality(Tries(j) \union All) <= Cardinality(Tries(j)) + MaxRetries + 1
        /\ Cardinality(Tries(j)) \in Nat /\ Cardinality(Tries(j) \union All) \in Nat
    <3> HIDE DEF All
    <3>1. Cardinality(Tries(j) \intersect All) \in Nat
      BY FS_Intersection, FS_CardinalityType
    <3>2. Cardinality(Tries(j)) \in Nat
      BY FS_CardinalityType
    <3>3. /\ IsFiniteSet(Tries(j) \union All)
          /\ Cardinality(Tries(j) \union All) =
                 Cardinality(Tries(j)) + Cardinality(All) - Cardinality(Tries(j) \intersect All)
      BY <1>1, FS_Union
    <3>4. Cardinality(Tries(j) \union All) \in Nat
      BY <3>3, FS_CardinalityType
    <3> QED
      BY <1>0, <1>1, <3>1, <3>2, <3>3, <3>4
  <2> HIDE DEF All
  <2> QED
    BY <1>0, <2>1, <2>2, FS_Subset, FS_CardinalityType
<1>5. ASSUME \/ job'[h] # j \/ step'[h] \notin {"send", "sleep"}
             \/ job'[h] = job[h] /\ step[h] \in {"send", "sleep"} /\ attempt'[h] = attempt[h]
      PROVE  Cardinality(Tries(j)') <= Cardinality(Tries(j))
  <2>1. \A t \in Tries(j)' : t[1] = h => t \in Tries(j)
    BY <1>5 DEF Tries
  <2>2. Tries(j)' \subseteq Tries(j)
    BY <1>2, <1>3, <2>1
  <2> QED
    BY <2>2, FS_Subset
<1>6. ASSUME job'[h] = j, job[h] = j, step[h] = "send",
             attempt[h] \in 0..MaxRetries, attempt'[h] = attempt[h] + 1
      PROVE  Cardinality(Tries(j)') <= Cardinality(Tries(j)) - 1
  <2> DEFINE try == <<h, attempt[h] + 1>>
  <2>1. try \in Tries(j) /\ try \notin Tries(j)'
    BY <1>0, <1>6 DEF Tries
  <2>2. \A t \in Tries(j)' : t[1] = h => t \in Tries(j)
    BY <1>6 DEF Tries
  <2> HIDE DEF try
  <2>3. Tries(j)' \subseteq Tries(j) \ {try}
    BY <1>2, <1>3, <2>1, <2>2
  <2>4. /\ IsFiniteSet(Tries(j) \ {try})
        /\ Cardinality(Tries(j) \ {try}) = Cardinality(Tries(j)) - 1
    BY <2>1, FS_RemoveElement
  <2> QED
    BY <2>3, <2>4, FS_Subset
<1> QED
  BY <1>4, <1>5, <1>6

(* A send uses up a try that was allowed, and none comes back. *)
LEMMA SendsAreBudgetedStep ==
    ASSUME TypeOK, LocksAreActive, AttemptsAreLeft, RetriesAreLeft, SendsAreBudgeted,
           [Next]_vars
    PROVE  SendsAreBudgeted'
<1> SUFFICES ASSUME NEW j \in Job
             PROVE  /\ IsFiniteSet(Tries(j)')
                    /\ sends'[j] + Cardinality(Tries(j)') + Planned(j)' <= Allowed(j)'
  BY DEF SendsAreBudgeted
<1> DEFINE Goal == /\ IsFiniteSet(Tries(j)')
                   /\ sends'[j] + Cardinality(Tries(j)') + Budget(Rounds(j)')
                          <= Budget(MaxAttempts + stalls'[j])
<1> SUFFICES Goal
  BY DEF Planned, Allowed, Budget
<1>0. /\ IsFiniteSet(Tries(j)) /\ Cardinality(Tries(j)) \in Nat
      /\ sends[j] + Cardinality(Tries(j)) + Budget(Rounds(j)) <= Budget(MaxAttempts + stalls[j])
      /\ sends[j] \in Nat /\ stalls[j] \in Nat /\ attemptsMade[j] \in Nat
      /\ MaxRetries \in Nat /\ MaxAttempts \in Nat
  BY FS_CardinalityType, PushAssumption DEF SendsAreBudgeted, Planned, Allowed, Budget, TypeOK
<1>a. Rounds(j) \in Nat /\ state[j] \in JobState
  BY <1>0 DEF Rounds, AttemptsAreLeft, TypeOK, JobState
<1>b. /\ Budget(Rounds(j)) \in Int /\ Budget(MaxAttempts + stalls[j]) \in Int
      /\ Budget(Rounds(j) + 1) = Budget(Rounds(j)) + MaxRetries + 1
      /\ Budget((MaxAttempts + stalls[j]) + 1)
             = Budget(MaxAttempts + stalls[j]) + MaxRetries + 1
      /\ \A n, m \in Int : n <= m => Budget(n) <= Budget(m)
      /\ \A n \in Int : Budget(n) \in Int
  <2>1. Rounds(j) \in Int /\ MaxAttempts + stalls[j] \in Int
    BY <1>0, <1>a
  <2>2. ASSUME NEW n \in Int
        PROVE  Budget(n) \in Int /\ Budget(n + 1) = Budget(n) + MaxRetries + 1
    BY Budgets
  <2>3. ASSUME NEW n \in Int, NEW m \in Int, n <= m PROVE Budget(n) <= Budget(m)
    BY <2>3, Budgets
  <2> QED
    BY <2>1, <2>2, <2>3
<1>1. ASSUME IsFiniteSet(Tries(j)'), Cardinality(Tries(j)') \in Nat, sends'[j] \in Nat,
             sends'[j] + Cardinality(Tries(j)') <= sends[j] + Cardinality(Tries(j)),
             Rounds(j)' \in Int,
             \/ stalls'[j] = stalls[j] /\ Rounds(j)' <= Rounds(j)
             \/ stalls'[j] = stalls[j] + 1 /\ Rounds(j)' <= Rounds(j) + 1
      PROVE  Goal
  <2>1. Budget(Rounds(j)') \in Int
    BY <1>b, <1>1
  <2>2. CASE stalls'[j] = stalls[j] /\ Rounds(j)' <= Rounds(j)
    <3>1. Budget(Rounds(j)') <= Budget(Rounds(j))
      BY <1>1, <1>a, <1>b, <2>2
    <3> QED
      BY <1>0, <1>1, <1>b, <2>1, <2>2, <3>1
  <2>3. CASE stalls'[j] = stalls[j] + 1 /\ Rounds(j)' <= Rounds(j) + 1
    <3>1. Budget(Rounds(j)') <= Budget(Rounds(j) + 1)
      BY <1>1, <1>a, <1>b, <2>3
    <3>2. MaxAttempts + stalls'[j] = (MaxAttempts + stalls[j]) + 1
      BY <1>0, <2>3
    <3> QED
      BY <1>0, <1>1, <1>b, <2>1, <3>1, <3>2
  <2> QED
    BY <1>1, <2>2, <2>3
<1>2. ASSUME UNCHANGED handlerVars, UNCHANGED fcmVars, Rounds(j)' \in Int,
             \/ stalls'[j] = stalls[j] /\ Rounds(j)' <= Rounds(j)
             \/ stalls'[j] = stalls[j] + 1 /\ Rounds(j)' <= Rounds(j) + 1
      PROVE  Goal
  <2>1. Tries(j)' = Tries(j) /\ sends' = sends
    BY <1>2 DEF Tries, handlerVars, fcmVars
  <2> HIDE DEF Goal
  <2> QED
    BY <1>0, <1>1, <1>2, <2>1
<1>3. ASSUME UNCHANGED jobVars PROVE stalls'[j] = stalls[j] /\ Rounds(j)' = Rounds(j)
  BY <1>3 DEF Rounds, jobVars
<1>4. ASSUME NEW k \in Job, Ring(k) \/ AddJob(k) \/ Promote(k) PROVE Goal
  <2>1. stalls'[j] = stalls[j] /\ Rounds(j)' = Rounds(j)
    BY <1>4 DEF Ring, AddJob, Promote, Rounds, TypeOK, LocksAreActive, jobVars
  <2>2. UNCHANGED handlerVars /\ UNCHANGED fcmVars
    BY <1>4 DEF Ring, AddJob, Promote
  <2> HIDE DEF Goal
  <2> QED
    BY <1>2, <1>a, <2>1, <2>2
<1>5. ASSUME NEW k \in Job, Stall(k) PROVE Goal
  <2>1. UNCHANGED handlerVars /\ UNCHANGED fcmVars /\ attemptsMade' = attemptsMade
    BY <1>5 DEF Stall
  <2>2. CASE k = j
    <3>1. /\ state[j] = "active" /\ stalls'[j] = stalls[j] + 1
          /\ state'[j] \in {"waiting", "failed"}
      BY <1>5, <2>2 DEF Stall, TypeOK
    <3>2. Rounds(j)' \in Int /\ Rounds(j)' <= Rounds(j) + 1
      BY <1>0, <1>a, <2>1, <3>1 DEF Rounds
    <3> HIDE DEF Goal
    <3> QED
      BY <1>2, <2>1, <3>1, <3>2
  <2>3. CASE k # j
    <3>1. stalls'[j] = stalls[j] /\ Rounds(j)' = Rounds(j)
      BY <1>5, <2>1, <2>3 DEF Stall, Rounds, TypeOK
    <3> HIDE DEF Goal
    <3> QED
      BY <1>2, <1>a, <2>1, <3>1
  <2> QED
    BY <2>2, <2>3
<1>6. ASSUME NEW h \in Handler, Take(h) PROVE Goal
  <2>1. PICK k \in Job : /\ state[k] = "waiting"
                         /\ state' = [state EXCEPT ![k] = "active"]
                         /\ job' = [job EXCEPT ![h] = k]
    BY <1>6 DEF Take
  <2>2. /\ step' = [step EXCEPT ![h] = "send"] /\ attempt' = [attempt EXCEPT ![h] = 0]
        /\ sends' = sends /\ stalls' = stalls /\ attemptsMade' = attemptsMade
    BY <1>6 DEF Take, fcmVars
  <2>3. \A i \in Handler \ {h} :
           job'[i] = job[i] /\ step'[i] = step[i] /\ attempt'[i] = attempt[i]
    BY <2>1, <2>2 DEF TypeOK
  <2>4. CASE k = j
    <3>1. Rounds(j) = Rounds(j)' + 1 /\ Rounds(j)' \in Int
      BY <1>0, <2>1, <2>2, <2>4 DEF Rounds, TypeOK
    <3>2. /\ Budget(Rounds(j)) = Budget(Rounds(j)') + MaxRetries + 1
          /\ Budget(Rounds(j)') \in Int
      BY <3>1, Budgets
    <3>3. /\ IsFiniteSet(Tries(j)') /\ Cardinality(Tries(j)') \in Nat
          /\ Cardinality(Tries(j)') <= Cardinality(Tries(j)) + MaxRetries + 1
      BY <1>0, <2>3, TriesMove
    <3> QED
      BY <1>0, <1>b, <2>2, <3>2, <3>3
  <2>5. CASE k # j
    <3>1. Rounds(j)' = Rounds(j) /\ stalls'[j] = stalls[j]
      BY <2>1, <2>2, <2>5 DEF Rounds, TypeOK
    <3>2. job'[h] # j
      BY <2>1, <2>5 DEF TypeOK
    <3>3. /\ IsFiniteSet(Tries(j)') /\ Cardinality(Tries(j)') \in Nat
          /\ Cardinality(Tries(j)') <= Cardinality(Tries(j))
      BY <1>0, <2>3, <3>2, TriesMove
    <3> HIDE DEF Goal
    <3> QED
      BY <1>0, <1>1, <1>a, <2>2, <3>1, <3>3
  <2> QED
    BY <2>4, <2>5
<1>7. ASSUME NEW h \in Handler, Send(h) PROVE Goal
  <2>1. /\ UNCHANGED jobVars /\ job' = job /\ step[h] = "send" /\ job[h] \in Job
        /\ step' = [step EXCEPT ![h] = step'[h]]
    BY <1>7, SendMoves DEF Send
  <2>2. Rounds(j)' = Rounds(j) /\ stalls'[j] = stalls[j]
    BY <1>3, <2>1
  <2>3. attempt[h] \in 0..MaxRetries
    BY <1>0, <2>1 DEF RetriesAreLeft, TypeOK
  <2>4. CASE ~configured
    <3>1. step'[h] = "success" /\ attempt' = attempt /\ sends' = sends
      BY <1>7, <2>4 DEF Send, fcmVars, TypeOK
    <3>2. \A i \in Handler \ {h} :
             job'[i] = job[i] /\ step'[i] = step[i] /\ attempt'[i] = attempt[i]
      BY <2>1, <3>1 DEF TypeOK
    <3>3. /\ IsFiniteSet(Tries(j)') /\ Cardinality(Tries(j)') \in Nat
          /\ Cardinality(Tries(j)') <= Cardinality(Tries(j))
      BY <1>0, <3>1, <3>2, TriesMove
    <3> HIDE DEF Goal
    <3> QED
      BY <1>0, <1>1, <1>a, <2>2, <3>1, <3>3
  <2>5. CASE configured
    <3>1. /\ attempt' = [attempt EXCEPT ![h] = @ + 1]
          /\ sends' = [sends EXCEPT ![job[h]] = @ + 1]
      BY <1>7, <2>5, SendMoves
    <3>2. /\ attempt'[h] = attempt[h] + 1
          /\ \A i \in Handler \ {h} :
                 job'[i] = job[i] /\ step'[i] = step[i] /\ attempt'[i] = attempt[i]
      BY <2>1, <3>1 DEF TypeOK
    <3>3. CASE job[h] = j
      <4>1. sends'[j] = sends[j] + 1
        BY <3>1, <3>3 DEF TypeOK
      <4>2. /\ IsFiniteSet(Tries(j)') /\ Cardinality(Tries(j)') \in Nat
            /\ Cardinality(Tries(j)') <= Cardinality(Tries(j)) - 1
        BY <1>0, <2>1, <2>3, <3>2, <3>3, TriesMove
      <4> HIDE DEF Goal
      <4> QED
        BY <1>0, <1>1, <1>a, <2>2, <4>1, <4>2
    <3>4. CASE job[h] # j
      <4>1. sends'[j] = sends[j]
        BY <3>1, <3>4, <2>1 DEF TypeOK
      <4>2. /\ IsFiniteSet(Tries(j)') /\ Cardinality(Tries(j)') \in Nat
            /\ Cardinality(Tries(j)') <= Cardinality(Tries(j))
        BY <1>0, <2>1, <3>2, <3>4, TriesMove
      <4> HIDE DEF Goal
      <4> QED
        BY <1>0, <1>1, <1>a, <2>2, <4>1, <4>2
    <3> QED
      BY <3>3, <3>4
  <2> QED
    BY <2>4, <2>5
<1>8. ASSUME NEW h \in Handler, Wake(h) PROVE Goal
  <2>1. /\ UNCHANGED jobVars /\ sends' = sends /\ step[h] = "sleep"
        /\ job'[h] = job[h] /\ attempt'[h] = attempt[h]
        /\ \A i \in Handler \ {h} :
               job'[i] = job[i] /\ step'[i] = step[i] /\ attempt'[i] = attempt[i]
    BY <1>8 DEF Wake, fcmVars, TypeOK
  <2>2. /\ IsFiniteSet(Tries(j)') /\ Cardinality(Tries(j)') \in Nat
        /\ Cardinality(Tries(j)') <= Cardinality(Tries(j))
    BY <1>0, <2>1, TriesMove
  <2> HIDE DEF Goal
  <2> QED
    BY <1>0, <1>1, <1>3, <1>a, <2>1, <2>2
<1>9. ASSUME NEW h \in Handler, Free(h), sends' = sends, stalls' = stalls,
             Rounds(j)' \in Int, Rounds(j)' <= Rounds(j)
      PROVE  Goal
  <2>1. /\ job'[h] = NoJob
        /\ \A i \in Handler \ {h} :
               job'[i] = job[i] /\ step'[i] = step[i] /\ attempt'[i] = attempt[i]
    BY <1>9 DEF Free, TypeOK
  <2>2. /\ IsFiniteSet(Tries(j)') /\ Cardinality(Tries(j)') \in Nat
        /\ Cardinality(Tries(j)') <= Cardinality(Tries(j))
    BY <1>0, <2>1, PushAssumption, TriesMove
  <2> HIDE DEF Goal
  <2> QED
    BY <1>0, <1>1, <1>9, <2>2
<1>10. ASSUME NEW h \in Handler, Return(h) PROVE Goal
  <2>1. /\ Free(h) /\ stalls' = stalls /\ sends' = sends /\ job[h] \in Job
    BY <1>10 DEF Return, TypeOK, Result, fcmVars
  <2>2. Rounds(j)' \in Int /\ Rounds(j)' <= Rounds(j)
    <3>1. CASE job[h] # j \/ owner[j] # h
      <4>1. state'[j] = state[j] /\ attemptsMade'[j] = attemptsMade[j]
        BY <1>10, <2>1, <3>1 DEF Return, TypeOK
      <4>2. Rounds(j)' = Rounds(j)
        BY <4>1 DEF Rounds
      <4> QED
        BY <1>a, <4>2
    <3>2. CASE job[h] = j /\ owner[j] = h
      <4>1. state[j] = "active"
        BY <3>2, PushAssumption DEF LocksAreActive
      <4>2. \/ state'[j] = "completed"
            \/ /\ attemptsMade'[j] = attemptsMade[j] + 1
               /\ state'[j] \in {"delayed", "failed"}
        BY <1>10, <3>2 DEF Return, TypeOK
      <4>3. Rounds(j) = MaxAttempts - attemptsMade[j] - 1
        BY <4>1 DEF Rounds
      <4>4. CASE state'[j] \in {"completed", "failed"}
        <5>1. Rounds(j)' = 0
          BY <4>4 DEF Rounds
        <5> QED
          BY <1>a, <5>1
      <4>5. CASE state'[j] = "delayed" /\ attemptsMade'[j] = attemptsMade[j] + 1
        <5>1. Rounds(j)' = MaxAttempts - (attemptsMade[j] + 1)
          BY <4>5 DEF Rounds
        <5> QED
          BY <1>0, <1>a, <4>3, <5>1
      <4> QED
        BY <4>2, <4>4, <4>5
    <3> QED
      BY <3>1, <3>2
  <2> HIDE DEF Goal
  <2> QED
    BY <1>9, <2>1, <2>2
<1>11. ASSUME NEW h \in Handler, Die(h) PROVE Goal
  <2>1. Free(h) /\ UNCHANGED jobVars /\ sends' = sends /\ stalls' = stalls
    BY <1>11 DEF Die, fcmVars, jobVars
  <2> HIDE DEF Goal
  <2> QED
    BY <1>3, <1>9, <1>a, <2>1
<1>12. ASSUME RedisFails \/ RedisRecovers \/ UNCHANGED vars PROVE Goal
  <2>1. UNCHANGED jobVars /\ UNCHANGED handlerVars /\ UNCHANGED fcmVars
    BY <1>12 DEF RedisFails, RedisRecovers, vars
  <2> HIDE DEF Goal
  <2> QED
    BY <1>2, <1>3, <1>a, <2>1
<1> HIDE DEF Goal
<1> QED
  BY <1>4, <1>5, <1>6, <1>7, <1>8, <1>10, <1>11, <1>12 DEF Next

-----------------------------------------------------------------------------
(* Reasons.  What a device got and what FCM said of its token stays. *)
LEMMA NothingIsUnsaid ==
    TypeOK /\ [Next]_vars =>
        /\ configured' = configured
        /\ \A j \in Job : pushed[j] + invalid[j] > 0 => pushed'[j] + invalid'[j] > 0
<1> DEFINE Kept(j) == pushed[j] + invalid[j] > 0 => pushed'[j] + invalid'[j] > 0
<1> SUFFICES ASSUME TypeOK, [Next]_vars
             PROVE  configured' = configured /\ \A j \in Job : Kept(j)
  OBVIOUS
<1> USE DEF fcmVars
<1>1. ASSUME NEW h \in Handler, Send(h)
      PROVE  configured' = configured /\ \A j \in Job : Kept(j)
  <2>1. configured' = configured
    BY <1>1 DEF Send
  <2>2. ASSUME NEW j \in Job, NEW arrived \in {0, 1}, NEW dead \in {0, 1},
               pushed' = [pushed EXCEPT ![job[h]] = @ + arrived],
               invalid' = [invalid EXCEPT ![job[h]] = @ + dead]
        PROVE  Kept(j)
    BY <2>2 DEF TypeOK
  <2>3. ASSUME NEW j \in Job, UNCHANGED fcmVars PROVE Kept(j)
    BY <2>3
  <2> HIDE DEF Kept
  <2> QED
    BY <1>1, <2>1, <2>2, <2>3, SendMoves
<1>2. ASSUME NEW k \in Job, Ring(k) \/ AddJob(k) \/ Promote(k) \/ Stall(k)
      PROVE  configured' = configured /\ UNCHANGED fcmVars
  BY <1>2 DEF Ring, AddJob, Promote, Stall
<1>3. ASSUME NEW h \in Handler, Take(h) \/ Wake(h) \/ Return(h) \/ Die(h)
      PROVE  configured' = configured /\ UNCHANGED fcmVars
  BY <1>3 DEF Take, Wake, Return, Die
<1>4. ASSUME RedisFails \/ RedisRecovers \/ UNCHANGED vars
      PROVE  configured' = configured /\ UNCHANGED fcmVars
  BY <1>4 DEF RedisFails, RedisRecovers, vars
<1>5. ASSUME UNCHANGED fcmVars, NEW j \in Job PROVE Kept(j)
  BY <1>5
<1> HIDE DEF Kept
<1> QED
  BY <1>1, <1>2, <1>3, <1>4, <1>5 DEF Next

(* A handler is done when the device got the push or its token is dead. *)
LEMMA DoneForAReasonStep ==
    TypeOK /\ DoneForAReason /\ [Next]_vars => DoneForAReason'
<1> SUFFICES ASSUME TypeOK, DoneForAReason, [Next]_vars, configured, NEW g \in Handler,
                    step'[g] \in {"success", "tokenInvalid"}
             PROVE  pushed'[job'[g]] + invalid'[job'[g]] > 0
  BY NothingIsUnsaid DEF DoneForAReason
<1> DEFINE Said == pushed'[job'[g]] + invalid'[job'[g]] > 0
<1> SUFFICES Said
  OBVIOUS
<1>0. ASSUME job'[g] = job[g], step'[g] = step[g] PROVE Said
  <2>1. job[g] \in Job /\ pushed[job[g]] + invalid[job[g]] > 0
    BY <1>0 DEF DoneForAReason, TypeOK
  <2> QED
    BY <1>0, <2>1, NothingIsUnsaid
<1>1. ASSUME NEW h \in Handler, Send(h) PROVE Said
  <2>1. job' = job /\ \A k \in Handler \ {h} : step'[k] = step[k]
    BY <1>1, SendMoves DEF Send, TypeOK
  <2>2. CASE g # h
    BY <1>0, <2>1, <2>2
  <2>3. CASE g = h
    <3>1. /\ job[h] \in Job
          /\ pushed[job[h]] \in Nat /\ invalid[job[h]] \in Nat
      BY <1>1, SendMoves DEF TypeOK
    <3>2. ASSUME NEW arrived \in {0, 1}, NEW lost \in {0, 1}, NEW dead \in {0, 1},
                 pushed' = [pushed EXCEPT ![job[h]] = @ + arrived],
                 invalid' = [invalid EXCEPT ![job[h]] = @ + dead],
                 (arrived - lost) + dead = 1
          PROVE  pushed'[job[h]] + invalid'[job[h]] > 0
      <4>1. /\ pushed'[job[h]] = pushed[job[h]] + arrived
            /\ invalid'[job[h]] = invalid[job[h]] + dead
        BY <3>1, <3>2 DEF TypeOK
      <4> QED
        BY <3>1, <3>2, <4>1
    <3> QED
      BY <1>1, <2>1, <2>3, <3>2, SendMoves
  <2> QED
    BY <2>2, <2>3
<1>2. ASSUME NEW k \in Job, Ring(k) \/ AddJob(k) \/ Promote(k) \/ Stall(k) PROVE Said
  BY <1>0, <1>2 DEF Ring, AddJob, Promote, Stall, handlerVars
<1>3. ASSUME NEW h \in Handler, Take(h) \/ Wake(h) PROVE Said
  <2>1. PICK here \in {"send"}, k \in Job \union {NoJob} :
           step' = [step EXCEPT ![h] = here] /\ job' = [job EXCEPT ![h] = k]
    <3>1. CASE Take(h)
      BY <3>1 DEF Take
    <3>2. CASE Wake(h)
      BY <3>2 DEF Wake, TypeOK
    <3> QED
      BY <1>3, <3>1, <3>2
  <2> QED
    BY <1>0, <2>1 DEF TypeOK
<1>4. ASSUME NEW h \in Handler, Return(h) \/ Die(h) PROVE Said
  BY <1>0, <1>4 DEF Return, Die, Free, TypeOK
<1>5. ASSUME RedisFails \/ RedisRecovers \/ UNCHANGED vars PROVE Said
  BY <1>0, <1>5 DEF RedisFails, RedisRecovers, vars, handlerVars
<1> HIDE DEF Said
<1> QED
  BY <1>1, <1>2, <1>3, <1>4, <1>5 DEF Next

(* BullMQ counts a job as completed when its handler is done. *)
LEMMA CompletedStep ==
    ASSUME TypeOK, DoneForAReason, SettledForAReason, [Next]_vars, NEW j \in Job,
           configured, state'[j] = "completed"
    PROVE  pushed'[j] + invalid'[j] > 0
<1> DEFINE Said == pushed'[j] + invalid'[j] > 0
<1> SUFFICES Said
  OBVIOUS
<1>0. ASSUME state'[j] = state[j] PROVE Said
  BY <1>0, NothingIsUnsaid DEF SettledForAReason
<1>1. ASSUME NEW h \in Handler, Return(h) PROVE Said
  <2>1. CASE job[h] = j /\ owner[j] = h
    <3>1. step[h] \in {"success", "tokenInvalid"}
      BY <1>1, <2>1 DEF Return, Result, TypeOK
    <3> QED
      BY <2>1, <3>1, NothingIsUnsaid DEF DoneForAReason
  <2>2. CASE job[h] # j \/ owner[j] # h
    <3>1. state'[j] = state[j]
      BY <1>1, <2>2 DEF Return, TypeOK
    <3> QED
      BY <1>0, <3>1
  <2> QED
    BY <2>1, <2>2
<1>2. ASSUME NEW k \in Job, AddJob(k) \/ Promote(k) \/ Stall(k) PROVE Said
  <2>1. \/ state' = state
        \/ \E s \in {"waiting", "failed"} : state' = [state EXCEPT ![k] = s]
    BY <1>2 DEF AddJob, Promote, Stall
  <2> QED
    BY <1>0, <2>1 DEF TypeOK
<1>3. ASSUME NEW k \in Job, Ring(k) PROVE Said
  BY <1>0, <1>3 DEF Ring, jobVars
<1>4. ASSUME NEW h \in Handler, Take(h) PROVE Said
  BY <1>0, <1>4 DEF Take, TypeOK
<1>5. ASSUME NEW h \in Handler, Send(h) \/ Wake(h) \/ Die(h) PROVE Said
  BY <1>0, <1>5 DEF Send, Wake, Die, jobVars
<1>6. ASSUME RedisFails \/ RedisRecovers \/ UNCHANGED vars PROVE Said
  BY <1>0, <1>6 DEF RedisFails, RedisRecovers, vars, jobVars
<1> HIDE DEF Said
<1> QED
  BY <1>1, <1>2, <1>3, <1>4, <1>5, <1>6 DEF Next

-----------------------------------------------------------------------------
(* Nothing has been sent in the beginning. *)
LEMMA InitHolds == Init => Inv
<1> SUFFICES ASSUME Init PROVE Inv
  OBVIOUS
<1>1. /\ TypeOK /\ LocksAreActive /\ AttemptsAreLeft /\ DoneForAReason /\ SettledForAReason
  BY PushAssumption DEF Init, TypeOK, LocksAreActive, AttemptsAreLeft, DoneForAReason,
                        SettledForAReason, RingStep, JobState, SendStep
<1>2. ASSUME NEW j \in Job
      PROVE  /\ IsFiniteSet(Open(j))
             /\ Final(j) + Cardinality(Open(j)) + Pending(j) <= 1 + stalls[j]
  <2>1. Open(j) = {} /\ Final(j) = 0 /\ Pending(j) = 1 /\ stalls[j] = 0
    BY PushAssumption DEF Init, Open, Final, Pending
  <2> QED
    BY <2>1, FS_EmptySet
<1>3. RetriesAreLeft
  BY DEF Init, RetriesAreLeft
<1>4. ASSUME NEW j \in Job
      PROVE  /\ IsFiniteSet(Tries(j))
             /\ sends[j] + Cardinality(Tries(j)) + Budget(Rounds(j))
                    <= Budget(MaxAttempts + stalls[j])
  <2>1. Tries(j) = {} /\ Rounds(j) = MaxAttempts /\ sends[j] = 0 /\ stalls[j] = 0
    BY PushAssumption DEF Init, Tries, Rounds
  <2>2. Budget(MaxAttempts) \in Int /\ MaxAttempts + stalls[j] = MaxAttempts
    BY <2>1, PushAssumption, Budgets
  <2> QED
    BY <2>1, <2>2, FS_EmptySet
<1> QED
  BY <1>1, <1>2, <1>3, <1>4 DEF Inv, RoundsAreCounted, SendsAreBudgeted, Planned, Allowed, Budget

(* The parts of the invariant keep each other. *)
LEMMA InvStep == Inv /\ [Next]_vars => Inv'
<1> SUFFICES ASSUME Inv, [Next]_vars PROVE Inv'
  OBVIOUS
<1>1. /\ TypeOK /\ LocksAreActive /\ AttemptsAreLeft
      /\ RoundsAreCounted /\ RetriesAreLeft /\ SendsAreBudgeted
      /\ DoneForAReason /\ SettledForAReason
  BY DEF Inv
<1>2. /\ TypeOK' /\ LocksAreActive' /\ AttemptsAreLeft'
      /\ RoundsAreCounted' /\ RetriesAreLeft' /\ DoneForAReason'
  BY <1>1, TypeStep, LocksAreActiveStep, AttemptsAreLeftStep, RoundsAreCountedStep,
     RetriesAreLeftStep, DoneForAReasonStep
<1>5. SendsAreBudgeted'
  BY <1>1, SendsAreBudgetedStep
<1>3. configured' = configured
  BY <1>1, NothingIsUnsaid
<1>4. SettledForAReason'
  BY <1>1, <1>3, AttemptsAreLeftStep, CompletedStep DEF SettledForAReason
<1> QED
  BY <1>2, <1>4, <1>5 DEF Inv

(* They hold in every reachable state. *)
LEMMA Invariant == Spec => []Inv
  BY InitHolds, InvStep, PTL DEF Spec

(* Neither of the two nested loops that retry a push repeats a success or an *)
(* answer that the token is invalid: what reaches the device beyond the      *)
(* first is paid for by an answer that got lost or a lock that expired.      *)
THEOREM PushesAreCountedHolds == Spec => []PushesAreCounted
<1>1. Inv => PushesAreCounted
  <2> SUFFICES ASSUME Inv, NEW j \in Job
               PROVE  pushed[j] + invalid[j] <= 1 + unheard[j] + stalls[j]
    BY DEF PushesAreCounted
  <2>1. /\ IsFiniteSet(Open(j))
        /\ Final(j) + Cardinality(Open(j)) + Pending(j) <= 1 + stalls[j]
    BY DEF Inv, RoundsAreCounted
  <2>2. Cardinality(Open(j)) \in Nat /\ Pending(j) \in {0, 1}
    BY <2>1, FS_CardinalityType DEF Pending
  <2>3. /\ pushed[j] \in Nat /\ invalid[j] \in Nat /\ unheard[j] \in Nat /\ stalls[j] \in Nat
    BY DEF Inv, TypeOK
  <2> QED
    BY <2>1, <2>2, <2>3 DEF Final
<1> QED
  BY <1>1, Invariant, PTL

(* BullMQ counts a job as completed only when the device got the push, its  *)
(* token is dead or there is no Firebase client, and gives it up only after *)
(* the last attempt or the last stall.                                      *)
THEOREM SettledForAReasonHolds == Spec => []SettledForAReason
<1>1. Inv => SettledForAReason
  BY DEF Inv
<1> QED
  BY <1>1, Invariant, PTL

(* The nested retries stay within their product: a job is sent at most once  *)
(* for each attempt of BullMQ and each try of the service, and for one more  *)
(* attempt after each lock that expired.                                     *)
THEOREM SendsAreBoundedHolds == Spec => []SendsAreBounded
<1>1. Inv => SendsAreBounded
  <2> SUFFICES ASSUME Inv, NEW j \in Job
               PROVE  sends[j] <= (MaxAttempts + stalls[j]) * (MaxRetries + 1)
    BY DEF SendsAreBounded
  <2>1. /\ IsFiniteSet(Tries(j)) /\ sends[j] \in Nat /\ stalls[j] \in Nat
        /\ sends[j] + Cardinality(Tries(j)) + Budget(Rounds(j)) <= Budget(MaxAttempts + stalls[j])
        /\ MaxAttempts \in Nat
    BY PushAssumption DEF Inv, SendsAreBudgeted, Planned, Allowed, Budget, TypeOK
  <2>2. Rounds(j) \in Nat
    BY <2>1 DEF Inv, Rounds, AttemptsAreLeft, TypeOK
  <2>3. Budget(0) <= Budget(Rounds(j)) /\ Budget(Rounds(j)) \in Int /\ Budget(0) = 0
    <3>1. Budget(0) = 0
      BY PushAssumption DEF Budget
    <3> QED
      BY <2>2, <3>1, Budgets
  <2>4. Cardinality(Tries(j)) \in Nat
    BY <2>1, FS_CardinalityType
  <2>6. Budget(MaxAttempts + stalls[j]) \in Int
    <3>1. MaxAttempts + stalls[j] \in Int
      BY <2>1
    <3> QED
      BY <3>1, Budgets
  <2>5. sends[j] <= Budget(MaxAttempts + stalls[j])
    BY <2>1, <2>3, <2>4, <2>6
  <2> QED
    BY <2>5 DEF Budget
<1> QED
  BY <1>1, Invariant, PTL

=============================================================================
