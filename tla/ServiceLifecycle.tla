--------------------------- MODULE ServiceLifecycle ---------------------------
(***************************************************************************)
(* The life of a process of the service, from bootstrap to its exit, with  *)
(* GET /health while Redis comes and goes.  ServiceShutdown has what       *)
(* happens from the signal on.                                             *)
(*                                                                         *)
(* Two connections lead to Redis.  The one of the cache gives up for good  *)
(* after its retries (retryStrategy), and refuses commands from then on;   *)
(* the one of BullMQ retries forever.  With maxRetriesPerRequest: null     *)
(* neither fails a command while it retries.                               *)
(***************************************************************************)
EXTENDS ServiceShutdown

CONSTANT
    Probe           \* the requests that are GET /health

ASSUME ProbeAssumption == Probe \subseteq Request

VARIABLES
    redisUp,        \* is Redis there?
    ended,          \* has the connection of the cache given up?
    ping            \* Probe -> Dependency -> waiting, up, down

lifecycleVars == <<redisUp, ended, ping>>

Dependency == {"database", "redis", "bullmq"}

Asked == [d \in Dependency |-> "waiting"]

LifecycleTypeOK ==
    /\ TypeOK
    /\ redisUp \in BOOLEAN /\ ended \in BOOLEAN
    /\ ping \in [Probe -> [Dependency -> {"waiting", "up", "down"}]]

(* The connection of BullMQ is lazy and there from the start. *)
LifecycleInit ==
    /\ closesHttp \in ClosesHttp
    /\ step = "boot database"
    /\ code = "none"
    /\ forced = FALSE /\ failed = FALSE
    /\ listening = FALSE
    /\ open = {"bullmq"}
    /\ request = [r \in Request |-> "none"]
    /\ job = [j \in Job |-> "none"]
    /\ redisUp \in BOOLEAN
    /\ ended = FALSE
    /\ ping = [p \in Probe |-> Asked]

-----------------------------------------------------------------------------
(* bootstrap. *)

Connected(connection, next) ==
    /\ open' = open \union {connection}
    /\ step' = next
    /\ UNCHANGED <<code, failed, listening, workVars>>

(* bootstrap().catch *)
BootFails ==
    /\ Exit("1")
    /\ failed' = TRUE
    /\ UNCHANGED <<listening, open>>

ConnectDatabase ==
    /\ step = "boot database"
    /\ Connected("database", "boot redis") \/ BootFails
    /\ UNCHANGED <<closesHttp, forced, lifecycleVars>>

(* The connection is lazy, so that connect() opens it, once. *)
ConnectRedis ==
    /\ step = "boot redis"
    /\ \/ redisUp /\ Connected("redis", "boot rabbitmq")
       \/ BootFails
    /\ UNCHANGED <<closesHttp, forced, lifecycleVars>>

(* RabbitMQ may be there or not: an error of its connect() is logged, and   *)
(* the service runs without.  The worker starts, the server listens and the *)
(* signals are handled without another await; an error of listen has no     *)
(* handler.                                                                 *)
Listen ==
    /\ step = "boot rabbitmq"
    /\ \/ /\ step' = "running"
          /\ listening' = TRUE
          /\ open' \in {open, open \union {"rabbitmq"}}
          /\ UNCHANGED <<code, failed, workVars>>
       \/ BootFails
    /\ UNCHANGED <<closesHttp, forced, lifecycleVars>>

(* A signal that nobody handles yet. *)
Terminate ==
    /\ step \in Boot
    /\ Exit("signal")
    /\ UNCHANGED <<closesHttp, forced, failed, listening, open, lifecycleVars>>

-----------------------------------------------------------------------------
(* HealthService.check pings the three dependencies and waits for all. *)

(* Mutant: a client that gave up keeps commands as one that retries does. *)
VerdictsWhileUp(dependency) ==
    CASE dependency = "database" -> {"up", "down"}
      [] OTHER                   -> IF redisUp /\ ~ended THEN {"up"} ELSE {}

(* What a ping may settle with, if it settles. *)
Verdicts(dependency) ==
    CASE dependency = "database" -> {"up", "down"}
      [] dependency = "redis"    -> IF ended THEN {"down"} ELSE IF redisUp THEN {"up"} ELSE {}
      [] dependency = "bullmq"   -> IF redisUp THEN {"up"} ELSE {}

Settle(p) ==
    /\ step # "exited"
    /\ request[p] = "running"
    /\ \E d \in Dependency :
        /\ ping[p][d] = "waiting"
        /\ \E verdict \in Verdicts(d) : ping' = [ping EXCEPT ![p][d] = verdict]
    /\ UNCHANGED <<vars, redisUp, ended>>

(* 200 if all of them are up, 503 otherwise. *)
Report(p) ==
    /\ \A d \in Dependency : ping[p][d] # "waiting"
    /\ Respond(p)
    /\ UNCHANGED lifecycleVars

RedisFails ==
    /\ redisUp
    /\ redisUp' = FALSE
    /\ UNCHANGED <<vars, ended, ping>>

RedisRecovers ==
    /\ ~redisUp
    /\ redisUp' = TRUE
    /\ UNCHANGED <<vars, ended, ping>>

(* retryStrategy returns null; nothing connects again. *)
GiveUp ==
    /\ step # "exited" /\ "redis" \in open
    /\ ~redisUp
    /\ ended' = TRUE
    /\ UNCHANGED <<vars, redisUp, ping>>

-----------------------------------------------------------------------------
(* RedisService.disconnect leaves a connection that has ended alone. *)
Close ==
    /\ CloseConnection
    /\ step = "redis" /\ ended => ~failed'
    /\ UNCHANGED lifecycleVars

Work ==
    /\ \/ \E r \in Request : Accept(r)
       \/ \E r \in Request \ Probe : Respond(r)
       \/ \E j \in Job : TakeJob(j) \/ FinishJob(j)
    /\ UNCHANGED lifecycleVars

Shutdown ==
    /\ Signal \/ SocketsClosed \/ CloseHttp \/ Drained \/ WorkersClosed \/ ForceExit
    /\ UNCHANGED lifecycleVars

LifecycleNext ==
    \/ ConnectDatabase \/ ConnectRedis \/ Listen \/ Terminate
    \/ Work \/ Shutdown \/ Close
    \/ \E p \in Probe : Settle(p) \/ Report(p)
    \/ RedisFails \/ RedisRecovers \/ GiveUp

(* The timer fires; an outage of Redis ends, and what was asked meanwhile   *)
(* is sent again.  No other request, job or library is assumed to end.      *)
LifecycleSpec ==
    /\ LifecycleInit /\ [][LifecycleNext]_<<vars, lifecycleVars>>
    /\ WF_<<vars, lifecycleVars>>(ForceExit /\ UNCHANGED lifecycleVars)
    /\ WF_<<vars, lifecycleVars>>(RedisRecovers)
    /\ \A p \in Probe :
        /\ SF_<<vars, lifecycleVars>>(Settle(p))
        /\ WF_<<vars, lifecycleVars>>(Report(p))

-----------------------------------------------------------------------------
(* Properties. *)

(* A health check is answered, or cut off by a shutdown, once the outage of *)
(* Redis it came in ends; a cache connection that has given up meanwhile    *)
(* does not keep it.                                                        *)
ProbesAreAnswered ==
    \A p \in Probe : request[p] = "running" ~> request[p] \in {"done", "cut"}
=============================================================================
