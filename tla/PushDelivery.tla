---------------------------- MODULE PushDelivery ----------------------------
(***************************************************************************)
(* Calling a party: ring enqueues a push job, a notification worker takes  *)
(* it from BullMQ and sends it through Firebase Cloud Messaging.  Retries  *)
(* are nested: the service retries a transient error itself, and BullMQ    *)
(* retries a job whose handler threw.                                      *)
(*                                                                         *)
(* BullMQ, Redis and FCM are external.  A job in BullMQ is locked by the   *)
(* handler that took it; a lock that is not renewed, because the process   *)
(* died or was cut off, expires, and the job is handed out again.  The     *)
(* first handler may still be at work.                                     *)
(*                                                                         *)
(* Backoff delays are left out: any job may run between two retries.       *)
(***************************************************************************)
EXTENDS Naturals

CONSTANTS
    Job,            \* rings of customers that registered a device
    Handler,        \* job handlers that run together: concurrency x processes
    NoJob, NoHandler,
    MaxAttempts,    \* PUSH_NOTIFICATION_JOB_OPTIONS.attempts
    MaxRetries,     \* FCM_MAX_RETRIES
    MaxStalls       \* BullMQ's maxStalledCount

ASSUME PushAssumption ==
    /\ NoJob \notin Job /\ NoHandler \notin Handler
    /\ MaxAttempts \in Nat \ {0}
    /\ MaxRetries \in Nat /\ MaxStalls \in Nat

VARIABLES
    configured,     \* is Firebase enabled, with credentials?
    redis,          \* is Redis reachable?
    ring,           \* Job -> where the request that rings is
    state,          \* Job -> the state of the job in BullMQ
    owner,          \* Job -> the handler whose lock BullMQ knows
    attemptsMade,   \* Job -> attempts that ended in an exception
    stalls,         \* Job -> locks that expired
    job,            \* Handler -> the job it works on
    step,           \* Handler -> where it is in send
    attempt,        \* Handler -> the local variable attempt of send
    sends,          \* Job -> calls of messaging.send
    pushed,         \* Job -> notifications that reached the device
    unheard,        \* Job -> those of them that were answered with an error
    invalid         \* Job -> answers that the device token is invalid

jobVars     == <<state, owner, attemptsMade, stalls>>
handlerVars == <<job, step, attempt>>
fcmVars     == <<sends, pushed, unheard, invalid>>
vars        == <<configured, redis, ring, jobVars, handlerVars, fcmVars>>

JobState == {"none", "waiting", "delayed", "active", "completed", "failed"}
RingStep == {"none", "adding", "dispatched", "undispatched"}
Result   == {"success", "tokenInvalid", "failure"}
SendStep == {"idle", "send", "sleep"} \union Result

TypeOK ==
    /\ configured \in BOOLEAN
    /\ redis \in BOOLEAN
    /\ ring \in [Job -> RingStep]
    /\ state \in [Job -> JobState]
    /\ owner \in [Job -> Handler \union {NoHandler}]
    /\ attemptsMade \in [Job -> 0..MaxAttempts]
    /\ stalls \in [Job -> 0..MaxStalls + 1]
    /\ job \in [Handler -> Job \union {NoJob}]
    /\ step \in [Handler -> SendStep]
    /\ \A h \in Handler : step[h] = "idle" <=> job[h] = NoJob
    /\ attempt \in [Handler -> Nat]
    /\ sends \in [Job -> Nat] /\ pushed \in [Job -> Nat] /\ unheard \in [Job -> Nat]
    /\ invalid \in [Job -> Nat]

Init ==
    /\ configured \in BOOLEAN
    /\ redis = TRUE
    /\ ring = [j \in Job |-> "none"]
    /\ state = [j \in Job |-> "none"]
    /\ owner = [j \in Job |-> NoHandler]
    /\ attemptsMade = [j \in Job |-> 0]
    /\ stalls = [j \in Job |-> 0]
    /\ job = [h \in Handler |-> NoJob]
    /\ step = [h \in Handler |-> "idle"]
    /\ attempt = [h \in Handler |-> 0]
    /\ sends = [j \in Job |-> 0]
    /\ pushed = [j \in Job |-> 0]
    /\ unheard = [j \in Job |-> 0]
    /\ invalid = [j \in Job |-> 0]

-----------------------------------------------------------------------------
(* The request that rings, from the moment the ticket is saved. *)

Ring(j) ==
    /\ ring[j] = "none"
    /\ ring' = [ring EXCEPT ![j] = "adding"]
    /\ UNCHANGED <<configured, redis, jobVars, handlerVars, fcmVars>>

(* Mutant: every ring is reported as dispatched. *)
AddJobReportsAll(j) ==
    /\ ring[j] = "adding"
    /\ redis
    /\ ring' = [ring EXCEPT ![j] = "dispatched"]
    /\ \/ state' = [state EXCEPT ![j] = "waiting"]
       \/ UNCHANGED state
    /\ UNCHANGED <<configured, redis, owner, attemptsMade, stalls, handlerVars, fcmVars>>

(* With maxRetriesPerRequest: null a command neither fails nor times out    *)
(* while Redis is away; it waits.  A Redis that answers may still refuse.   *)
AddJob(j) ==
    /\ ring[j] = "adding"
    /\ redis
    /\ \/ /\ state' = [state EXCEPT ![j] = "waiting"]
          /\ ring' = [ring EXCEPT ![j] = "dispatched"]
       \/ /\ ring' = [ring EXCEPT ![j] = "undispatched"]
          /\ UNCHANGED state
    /\ UNCHANGED <<configured, redis, owner, attemptsMade, stalls, handlerVars, fcmVars>>

-----------------------------------------------------------------------------
(* A handler of the notification worker. *)

Take(h) ==
    /\ redis
    /\ job[h] = NoJob
    /\ \E j \in Job :
        /\ state[j] = "waiting"
        /\ state' = [state EXCEPT ![j] = "active"]
        /\ owner' = [owner EXCEPT ![j] = h]
        /\ job' = [job EXCEPT ![h] = j]
    /\ step' = [step EXCEPT ![h] = "send"]
    /\ attempt' = [attempt EXCEPT ![h] = 0]
    /\ UNCHANGED <<configured, redis, ring, attemptsMade, stalls, fcmVars>>

Count(counter, j, happened) ==
    counter' = [counter EXCEPT ![j] = @ + (IF happened THEN 1 ELSE 0)]

(* Mutants: an invalid token is thrown like any other failure; a retry too  *)
(* many; a message FCM refuses for good is put down to its token.           *)
AfterAnswerThrows(answer, n) ==
    CASE answer = "ok"        -> "success"
      [] answer = "transient" -> IF n <= MaxRetries THEN "sleep" ELSE "failure"
      [] OTHER                -> "failure"

AfterAnswerOnceMore(answer, n) ==
    CASE answer = "ok"        -> "success"
      [] answer = "invalid"   -> "tokenInvalid"
      [] answer = "permanent" -> "failure"
      [] answer = "transient" -> IF n <= MaxRetries + 1 THEN "sleep" ELSE "failure"

AfterAnswerBlamesToken(answer, n) ==
    CASE answer = "ok"                       -> "success"
      [] answer \in {"invalid", "permanent"} -> "tokenInvalid"
      [] answer = "transient" -> IF n <= MaxRetries THEN "sleep" ELSE "failure"

(* Where send goes when FCM answers attempt n.  An unknown code, and no     *)
(* code at all, count as transient.                                         *)
AfterAnswer(answer, n) ==
    CASE answer = "ok"        -> "success"
      [] answer = "invalid"   -> "tokenInvalid"
      [] answer = "permanent" -> "failure"
      [] answer = "transient" -> IF n <= MaxRetries THEN "sleep" ELSE "failure"

(* One turn of the retry loop.  A message may reach the device although the *)
(* answer is an error.  Without a Firebase client send pretends success.    *)
Send(h) ==
    /\ step[h] = "send"
    /\ \/ /\ ~configured
          /\ step' = [step EXCEPT ![h] = "success"]
          /\ UNCHANGED <<attempt, fcmVars>>
       \/ /\ configured
          /\ \E answer \in {"ok", "invalid", "permanent", "transient"},
                arrived \in BOOLEAN :
              /\ answer = "ok" => arrived
              /\ answer \in {"invalid", "permanent"} => ~arrived
              /\ attempt' = [attempt EXCEPT ![h] = @ + 1]
              /\ step' = [step EXCEPT ![h] = AfterAnswer(answer, attempt[h] + 1)]
              /\ Count(sends, job[h], TRUE)
              /\ Count(pushed, job[h], arrived)
              /\ Count(unheard, job[h], arrived /\ answer # "ok")
              /\ Count(invalid, job[h], answer = "invalid")
    /\ UNCHANGED <<configured, redis, ring, jobVars, job>>

Wake(h) ==
    /\ step[h] = "sleep"
    /\ step' = [step EXCEPT ![h] = "send"]
    /\ UNCHANGED <<configured, redis, ring, jobVars, job, attempt, fcmVars>>

Free(h) ==
    /\ job' = [job EXCEPT ![h] = NoJob]
    /\ step' = [step EXCEPT ![h] = "idle"]
    /\ attempt' = [attempt EXCEPT ![h] = 0]

(* The handler returns a result, or throws if the push failed and the token *)
(* is not to blame.  BullMQ ignores a handler that has lost its lock.       *)
Return(h) ==
    /\ redis
    /\ step[h] \in Result
    /\ LET j == job[h]  made == attemptsMade[j] + 1 IN
       \/ /\ owner[j] # h
          /\ UNCHANGED <<state, owner, attemptsMade>>
       \/ /\ owner[j] = h
          /\ owner' = [owner EXCEPT ![j] = NoHandler]
          /\ \/ /\ step[h] # "failure"
                /\ state' = [state EXCEPT ![j] = "completed"]
                /\ UNCHANGED attemptsMade
             \/ /\ step[h] = "failure"
                /\ attemptsMade' = [attemptsMade EXCEPT ![j] = made]
                /\ state' = [state EXCEPT ![j] =
                                 IF made < MaxAttempts THEN "delayed" ELSE "failed"]
    /\ Free(h)
    /\ UNCHANGED <<configured, redis, ring, stalls, fcmVars>>

-----------------------------------------------------------------------------
(* BullMQ, and what may happen to it. *)

Promote(j) ==
    /\ redis
    /\ state[j] = "delayed"
    /\ state' = [state EXCEPT ![j] = "waiting"]
    /\ UNCHANGED <<configured, redis, ring, owner, attemptsMade, stalls, handlerVars, fcmVars>>

(* The process of a handler dies; its lock stays in Redis for a while. *)
Die(h) ==
    /\ job[h] # NoJob
    /\ Free(h)
    /\ UNCHANGED <<configured, redis, ring, jobVars, fcmVars>>

(* A lock expires: at once or later when its handler died, and also under a *)
(* handler that is too slow to renew it.                                    *)
Stall(j) ==
    /\ redis
    /\ state[j] = "active"
    /\ owner' = [owner EXCEPT ![j] = NoHandler]
    /\ stalls' = [stalls EXCEPT ![j] = @ + 1]
    /\ state' = [state EXCEPT ![j] = IF stalls[j] < MaxStalls THEN "waiting" ELSE "failed"]
    /\ UNCHANGED <<configured, redis, ring, attemptsMade, handlerVars, fcmVars>>

Attended(j) == owner[j] # NoHandler /\ job[owner[j]] = j

RedisFails ==
    /\ redis
    /\ redis' = FALSE
    /\ UNCHANGED <<configured, ring, jobVars, handlerVars, fcmVars>>

RedisRecovers ==
    /\ ~redis
    /\ redis' = TRUE
    /\ UNCHANGED <<configured, ring, jobVars, handlerVars, fcmVars>>

Next ==
    \/ \E j \in Job : Ring(j) \/ AddJob(j) \/ Promote(j) \/ Stall(j)
    \/ \E h \in Handler : Take(h) \/ Send(h) \/ Wake(h) \/ Return(h) \/ Die(h)
    \/ RedisFails \/ RedisRecovers

Spec == Init /\ [][Next]_vars

(* Timers fire and FCM calls settle (weak fairness).  A command issued      *)
(* while Redis is away is sent when it is back, so an operation that Redis  *)
(* could serve again and again is served (strong fairness).                 *)
Fairness ==
    /\ \A h \in Handler : /\ WF_vars(Send(h)) /\ WF_vars(Wake(h))
                          /\ SF_vars(Take(h)) /\ SF_vars(Return(h))
    /\ \A j \in Job : /\ SF_vars(AddJob(j)) /\ SF_vars(Promote(j))
                      /\ SF_vars(~Attended(j) /\ Stall(j))

OutageSpec == Spec /\ Fairness

(* Outages of Redis end. *)
FairSpec == OutageSpec /\ WF_vars(RedisRecovers)

-----------------------------------------------------------------------------
(* Properties. *)

(* One ring reaches a device more than once, or reaches it after FCM said   *)
(* the token is invalid, only for a notification whose answer got lost or a *)
(* lock that expired: neither of the two retry loops repeats a success or   *)
(* an invalid token.                                                        *)
PushesAreCounted == \A j \in Job : pushed[j] + invalid[j] <= 1 + unheard[j] + stalls[j]

(* The nested retries stay within their product, a stalled job within one   *)
(* more round for each stall.                                               *)
SendsAreBounded ==
    \A j \in Job : sends[j] <= (MaxAttempts + stalls[j]) * (MaxRetries + 1)

(* BullMQ takes a job as completed only when the device got the push, the   *)
(* token is dead or nothing can be sent at all, and gives it up only after  *)
(* the last attempt or stall.                                               *)
SettledForAReason ==
    \A j \in Job :
        /\ state[j] = "completed" /\ configured => pushed[j] + invalid[j] > 0
        /\ state[j] = "failed" => attemptsMade[j] = MaxAttempts \/ stalls[j] > MaxStalls

(* A request that rings is answered: the push is off its path. *)
RingIsAnswered ==
    \A j \in Job : ring[j] = "adding" ~> ring[j] \in {"dispatched", "undispatched"}

(* A ring either tells the staff that no push went out, or its push is      *)
(* settled in the end: sent, dead, or given up after the last attempt.      *)
Settled(j) ==
    \/ ring[j] = "undispatched"
    \/ ring[j] = "dispatched" /\ state[j] \in {"completed", "failed"}

RingIsSettled == \A j \in Job : ring[j] = "adding" ~> Settled(j)
=============================================================================
