--------------------------- MODULE ServiceShutdown ---------------------------
(***************************************************************************)
(* handleShutdown of server.ts: what a SIGTERM does to the requests and    *)
(* push jobs in flight, and to the connections they use.                   *)
(*                                                                         *)
(* The libraries are external.  What matters of them is when a close calls *)
(* back, and whether the close of the Socket.IO server, which is attached  *)
(* to the HTTP server, closes that one too.  Socket.IO 4 does.  server.ts  *)
(* is written for one that does not, and closes the HTTP server itself     *)
(* afterwards.                                                             *)
(***************************************************************************)
CONSTANTS
    Request,        \* HTTP requests
    Job,            \* push jobs
    ClosesHttp      \* what closing Socket.IO may do to the HTTP server

ASSUME ShutdownAssumption == ClosesHttp \subseteq BOOLEAN /\ ClosesHttp # {}

VARIABLES
    closesHttp,     \* does it here?
    step,           \* what handleShutdown is waiting for
    code,           \* how the process ended, "none" while it runs
    forced,         \* the 10 s timer fired
    failed,         \* the bootstrap, or the close of a connection, ended in an error
    listening,      \* does the HTTP server accept requests?
    open,           \* connections the process has opened and not closed
    request,        \* Request -> none, running, done, cut
    job             \* Job -> none, active, done, cut

vars == <<closesHttp, step, code, forced, failed, listening, open, request, job>>

Connection == {"bullmq", "rabbitmq", "redis", "database"}

Boot == {"boot database", "boot redis", "boot rabbitmq"}

Steps == Boot \union Connection \union
             {"running", "sockets", "http", "drain", "workers", "exited"}

TypeOK ==
    /\ closesHttp \in BOOLEAN
    /\ step \in Steps
    /\ code \in {"none", "0", "1", "signal"}
    /\ step = "exited" <=> code # "none"
    /\ forced \in BOOLEAN /\ failed \in BOOLEAN /\ listening \in BOOLEAN
    /\ open \subseteq Connection
    /\ request \in [Request -> {"none", "running", "done", "cut"}]
    /\ job \in [Job -> {"none", "active", "done", "cut"}]

Init ==
    /\ closesHttp \in ClosesHttp
    /\ step = "running"
    /\ code = "none"
    /\ forced = FALSE /\ failed = FALSE
    /\ listening = TRUE
    /\ open = Connection
    /\ request = [r \in Request |-> "none"]
    /\ job = [j \in Job |-> "none"]

-----------------------------------------------------------------------------
(* The work of the process. *)

workVars == <<request, job>>

Accept(r) ==
    /\ step # "exited" /\ listening
    /\ request[r] = "none"
    /\ request' = [request EXCEPT ![r] = "running"]
    /\ UNCHANGED <<closesHttp, step, code, forced, failed, listening, open, job>>

Respond(r) ==
    /\ step # "exited"
    /\ request[r] = "running"
    /\ request' = [request EXCEPT ![r] = "done"]
    /\ UNCHANGED <<closesHttp, step, code, forced, failed, listening, open, job>>

(* The worker takes jobs until it is told to close. *)
TakeJob(j) ==
    /\ step \in {"running", "sockets", "http", "drain"}
    /\ job[j] = "none"
    /\ job' = [job EXCEPT ![j] = "active"]
    /\ UNCHANGED <<closesHttp, step, code, forced, failed, listening, open, request>>

FinishJob(j) ==
    /\ step # "exited"
    /\ job[j] = "active"
    /\ job' = [job EXCEPT ![j] = "done"]
    /\ UNCHANGED <<closesHttp, step, code, forced, failed, listening, open, request>>

Served == \A r \in Request : request[r] # "running"
Idle   == \A j \in Job : job[j] # "active"

-----------------------------------------------------------------------------
(* handleShutdown. *)

(* process.exit: whatever is in flight is cut off. *)
Exit(status) ==
    /\ step' = "exited"
    /\ code' = status
    /\ request' = [r \in Request |-> IF request[r] = "running" THEN "cut" ELSE request[r]]
    /\ job' = [j \in Job |-> IF job[j] = "active" THEN "cut" ELSE job[j]]

(* The first signal; isShuttingDown makes later ones return at once. *)
Signal ==
    /\ step = "running"
    /\ step' = "sockets"
    /\ listening' = ~closesHttp
    /\ UNCHANGED <<closesHttp, code, forced, failed, open, workVars>>

(* Mutant: the close of the Socket.IO server is not awaited. *)
SocketsClosedAtOnce ==
    /\ step = "sockets"
    /\ step' = "http"
    /\ UNCHANGED <<closesHttp, code, forced, failed, listening, open, workVars>>

(* io.close calls back; with the HTTP server when it closes that one too. *)
SocketsClosed ==
    /\ step = "sockets"
    /\ closesHttp => Served
    /\ step' = "http"
    /\ UNCHANGED <<closesHttp, code, forced, failed, listening, open, workVars>>

(* server.close fails on a server that is closed already. *)
CloseHttp ==
    /\ step = "http"
    /\ \/ /\ listening
          /\ listening' = FALSE
          /\ step' = "drain"
          /\ UNCHANGED <<code, workVars>>
       \/ /\ ~listening
          /\ Exit("1")
          /\ UNCHANGED listening
    /\ UNCHANGED <<closesHttp, forced, failed, open>>

Drained ==
    /\ step = "drain"
    /\ Served
    /\ step' = "workers"
    /\ UNCHANGED <<closesHttp, code, forced, failed, listening, open, workVars>>

(* worker.close waits for the active jobs. *)
WorkersClosed ==
    /\ step = "workers"
    /\ Idle
    /\ step' = "bullmq"
    /\ UNCHANGED <<closesHttp, code, forced, failed, listening, open, workVars>>

After(connection) ==
    CASE connection = "bullmq"   -> "rabbitmq"
      [] connection = "rabbitmq" -> "redis"
      [] connection = "redis"    -> "database"
      [] OTHER                   -> "exited"

(* One connection after the other; one that will not close ends it all. *)
CloseConnection ==
    /\ step \in Connection
    /\ \/ /\ open' = open \ {step}
          /\ IF After(step) = "exited"
             THEN Exit("0")
             ELSE step' = After(step) /\ UNCHANGED <<code, workVars>>
          /\ UNCHANGED failed
       \/ /\ Exit("1")
          /\ failed' = TRUE
          /\ UNCHANGED open
    /\ UNCHANGED <<closesHttp, forced, listening>>

(* Mutant: the timer is cleared when the requests are served. *)
ForceExitEarly ==
    /\ step \in {"sockets", "http", "drain"}
    /\ Exit("1")
    /\ forced' = TRUE
    /\ UNCHANGED <<closesHttp, failed, listening, open>>

ForceExit ==
    /\ step \notin Boot \union {"running", "exited"}
    /\ Exit("1")
    /\ forced' = TRUE
    /\ UNCHANGED <<closesHttp, failed, listening, open>>

Next ==
    \/ \E r \in Request : Accept(r) \/ Respond(r)
    \/ \E j \in Job : TakeJob(j) \/ FinishJob(j)
    \/ Signal \/ SocketsClosed \/ CloseHttp \/ Drained \/ WorkersClosed
    \/ CloseConnection \/ ForceExit

Spec == Init /\ [][Next]_vars

-----------------------------------------------------------------------------
(* Properties. *)

(* No connection is closed while a request or a push job may still use it,  *)
(* and no request that was accepted is cut off by anything but the timer.   *)
(* With Socket.IO 4 the second rests on io.close alone, which waits for the *)
(* requests before the server.close that fails; the first is about a        *)
(* shutdown that gets past it.                                              *)
RequestsAreServed ==
    [][ /\ ~(Served /\ Idle) => open \subseteq open'
        /\ \A r \in Request : request[r] = "running" /\ request'[r] = "cut" => forced' ]_vars

(* A shutdown in which everything closes in time is a clean one: it reports *)
(* success and cuts off neither a request nor a push job.                   *)
ShutdownIsClean ==
    code \in {"0", "1"} /\ ~forced /\ ~failed =>
        /\ code = "0"
        /\ \A r \in Request : request[r] # "cut"
        /\ \A j \in Job : job[j] # "cut"

(* A process that was told to stop stops. *)
ShutdownEnds == step = "sockets" ~> step = "exited"
=============================================================================
