------------------------ MODULE ServiceLifecycleProofs ------------------------
(***************************************************************************)
(* The shutdown serves what was accepted, for any number of requests, push *)
(* jobs and health checks, and however Redis comes and goes.               *)
(*                                                                         *)
(* The invariant follows handleShutdown from step to step: whether the     *)
(* HTTP server accepts, and which work has ended when a step is reached.   *)
(* The one subtle place is the close of the HTTP server: it may end the    *)
(* process at once, and cuts no request off because it fails only when the *)
(* close of Socket.IO has waited for the requests already.                 *)
(***************************************************************************)
EXTENDS ServiceLifecycle, TLAPS

(* When the HTTP server accepts requests. *)
ListensWhileServing ==
    /\ listening => step \in {"running", "sockets", "http", "exited"}
    /\ step \in {"sockets", "http"} => (listening <=> ~closesHttp)

(* Requests are drained before the worker is closed, and the worker's jobs   *)
(* before the connections are.                                              *)
DrainedInOrder ==
    /\ step \in Boot \union {"workers", "exited"} \union Connection => Served
    /\ step = "http" /\ closesHttp => Served
    /\ step \in Boot \union {"exited"} \union Connection => Idle

Inv ==
    /\ TypeOK
    /\ ListensWhileServing
    /\ DrainedInOrder

-----------------------------------------------------------------------------
(* The bootstrap starts with nothing in flight. *)
LEMMA InitHolds == LifecycleInit => Inv
<1> SUFFICES ASSUME LifecycleInit PROVE Inv
  OBVIOUS
<1>1. TypeOK
  BY ShutdownAssumption DEF LifecycleInit, TypeOK, Steps, Boot, Connection
<1>2. ListensWhileServing
  BY DEF LifecycleInit, ListensWhileServing
<1>3. DrainedInOrder
  BY DEF LifecycleInit, DrainedInOrder, Served, Idle, Boot, Connection
<1> QED
  BY <1>1, <1>2, <1>3 DEF Inv

(* What process.exit leaves behind: nothing runs any more. *)
LEMMA ExitCutsOff ==
  ASSUME TypeOK, NEW status \in {"0", "1", "signal"}, Exit(status)
  PROVE  /\ step' = "exited" /\ code' = status
         /\ request' \in [Request -> {"none", "running", "done", "cut"}]
         /\ job' \in [Job -> {"none", "active", "done", "cut"}]
         /\ Served' /\ Idle'
<1>1. request' \in [Request -> {"none", "running", "done", "cut"}] /\ Served'
  BY DEF Exit, TypeOK, Served
<1>2. job' \in [Job -> {"none", "active", "done", "cut"}] /\ Idle'
  BY DEF Exit, TypeOK, Idle
<1> QED
  BY <1>1, <1>2 DEF Exit

(* However the process ends. *)
LEMMA ExitKeepsInv ==
  ASSUME Inv, NEW status \in {"0", "1", "signal"}, Exit(status),
         closesHttp' = closesHttp, forced' \in BOOLEAN, failed' \in BOOLEAN,
         listening' \in BOOLEAN, open' \subseteq Connection
  PROVE  Inv'
<1>1. /\ step' = "exited" /\ code' = status
      /\ request' \in [Request -> {"none", "running", "done", "cut"}]
      /\ job' \in [Job -> {"none", "active", "done", "cut"}]
      /\ Served' /\ Idle'
  BY ExitCutsOff DEF Inv
<1>2. TypeOK'
  BY <1>1 DEF Inv, TypeOK, Steps
<1>3. ListensWhileServing' /\ DrainedInOrder'
  BY <1>1 DEF ListensWhileServing, DrainedInOrder
<1> QED
  BY <1>2, <1>3 DEF Inv

(* The bootstrap, and a signal that comes before it has ended. *)
LEMMA BootStep ==
  ASSUME Inv, ConnectDatabase \/ ConnectRedis \/ Listen \/ Terminate
  PROVE  Inv'
<1>1. step \in Boot /\ closesHttp' = closesHttp /\ forced' = forced
  BY DEF ConnectDatabase, ConnectRedis, Listen, Terminate, Boot
<1>2. Served /\ Idle
  BY <1>1 DEF Inv, DrainedInOrder
<1>3. CASE BootFails
  BY <1>1, <1>3, ExitKeepsInv DEF BootFails, Inv, TypeOK
<1>4. CASE Terminate
  BY <1>4, ExitKeepsInv DEF Terminate, Inv, TypeOK
<1>5. CASE ~BootFails /\ ~Terminate
  <2>1. UNCHANGED <<code, forced, failed, closesHttp, request, job>>
    BY <1>5 DEF ConnectDatabase, ConnectRedis, Listen, Connected, workVars
  <2>2. \/ step = "boot database" /\ step' = "boot redis" /\ listening' = listening
        \/ step = "boot redis" /\ step' = "boot rabbitmq" /\ listening' = listening
        \/ step = "boot rabbitmq" /\ step' = "running" /\ listening' = TRUE
    BY <1>5 DEF ConnectDatabase, ConnectRedis, Listen, Connected
  <2>3. open' \subseteq open \union Connection
    BY <1>5 DEF ConnectDatabase, ConnectRedis, Listen, Connected, Connection
  <2>4. TypeOK'
    BY <2>1, <2>2, <2>3 DEF Inv, TypeOK, Steps, Boot
  <2>5. ListensWhileServing'
    <3>1. ~listening
      BY <2>2 DEF Inv, ListensWhileServing
    <3>2. /\ listening' => step' = "running"
          /\ step' \notin {"sockets", "http"}
      <4>1. CASE step' = "running"
        BY <4>1
      <4>2. CASE step' # "running"
        <5>1. listening' = listening
          BY <2>2, <4>2
        <5>2. step' \in {"boot redis", "boot rabbitmq"}
          BY <2>2, <4>2
        <5> QED
          BY <3>1, <5>1, <5>2
      <4> QED
        BY <4>1, <4>2
    <3> QED
      BY <3>2 DEF ListensWhileServing
  <2>6. DrainedInOrder'
    BY <1>2, <2>1, <2>2 DEF DrainedInOrder, Served, Idle
  <2> QED
    BY <2>4, <2>5, <2>6 DEF Inv
<1> QED
  BY <1>3, <1>4, <1>5

(* The work of the process while it runs. *)
LEMMA WorkStep ==
  ASSUME Inv, 
         \/ \E r \in Request : Accept(r) \/ Respond(r)
         \/ \E j \in Job : TakeJob(j) \/ FinishJob(j)
  PROVE  Inv'
<1>1. UNCHANGED <<closesHttp, step, code, forced, failed, listening, open>>
  BY DEF Accept, Respond, TakeJob, FinishJob
<1>2. ListensWhileServing'
  BY <1>1 DEF Inv, ListensWhileServing
<1>3. step # "exited"
  BY DEF Accept, Respond, TakeJob, FinishJob
<1>4. /\ request' \in [Request -> {"none", "running", "done", "cut"}]
      /\ job' \in [Job -> {"none", "active", "done", "cut"}]
  BY DEF Inv, TypeOK, Accept, Respond, TakeJob, FinishJob
<1>5. Served /\ ~listening => Served'
  BY DEF Inv, TypeOK, Accept, Respond, TakeJob, FinishJob, Served
<1>6. Idle /\ step \notin {"running", "sockets", "http", "drain"} => Idle'
  BY DEF Inv, TypeOK, Accept, Respond, TakeJob, FinishJob, Idle
<1>7. DrainedInOrder'
  <2>1. step \in Boot \union {"workers"} \union Connection => Served'
    BY <1>5 DEF Inv, DrainedInOrder, ListensWhileServing, Boot, Connection
  <2>2. step = "http" /\ closesHttp => Served'
    BY <1>5 DEF Inv, TypeOK, DrainedInOrder, ListensWhileServing
  <2>3. step \in Boot \union Connection => Idle'
    BY <1>6 DEF Inv, DrainedInOrder, Boot, Connection
  <2> QED
    BY <1>1, <1>3, <2>1, <2>2, <2>3 DEF DrainedInOrder
<1>8. TypeOK'
  BY <1>1, <1>4 DEF Inv, TypeOK
<1> QED
  BY <1>2, <1>7, <1>8 DEF Inv

(* The shutdown moves on without ending the process. *)
LEMMA ShutdownMoves ==
  ASSUME Inv, Signal \/ SocketsClosed \/ Drained \/ WorkersClosed
  PROVE  Inv'
<1>1. UNCHANGED <<closesHttp, code, forced, failed, open, request, job>>
  BY DEF Signal, SocketsClosed, Drained, WorkersClosed, workVars
<1>2. \/ step = "running" /\ step' = "sockets" /\ listening' = ~closesHttp
      \/ step = "sockets" /\ step' = "http" /\ listening' = listening /\ (closesHttp => Served)
      \/ step = "drain" /\ step' = "workers" /\ listening' = listening /\ Served
      \/ step = "workers" /\ step' = "bullmq" /\ listening' = listening /\ Idle
  BY DEF Signal, SocketsClosed, Drained, WorkersClosed
<1>3. TypeOK'
  BY <1>1, <1>2 DEF Inv, TypeOK, Steps, Connection
<1>4. ListensWhileServing'
  <2>1. CASE step = "running" /\ step' = "sockets" /\ listening' = ~closesHttp
    BY <1>1, <2>1 DEF ListensWhileServing
  <2>2. CASE step = "sockets" /\ step' = "http" /\ listening' = listening
    BY <1>1, <2>2 DEF Inv, ListensWhileServing
  <2>3. CASE step \in {"drain", "workers"} /\ step' \in {"workers", "bullmq"} /\ listening' = listening
    BY <2>3 DEF Inv, ListensWhileServing
  <2> QED
    BY <1>2, <2>1, <2>2, <2>3
<1>5. DrainedInOrder'
  BY <1>1, <1>2 DEF Inv, DrainedInOrder, Served, Idle, Boot, Connection
<1> QED
  BY <1>3, <1>4, <1>5 DEF Inv

(* server.close ends the process when the server is closed already. *)
LEMMA CloseHttpStep == ASSUME Inv, CloseHttp PROVE Inv'
<1>1. step = "http" /\ UNCHANGED <<closesHttp, forced, failed, open>>
  BY DEF CloseHttp
<1>2. CASE listening
  <2>1. step' = "drain" /\ listening' = FALSE /\ UNCHANGED <<code, request, job>>
    BY <1>2 DEF CloseHttp, workVars
  <2>2. TypeOK'
    BY <1>1, <2>1 DEF Inv, TypeOK, Steps
  <2>3. ListensWhileServing'
    BY <1>1, <2>1 DEF Inv, ListensWhileServing
  <2>4. DrainedInOrder'
    BY <2>1 DEF DrainedInOrder, Boot, Connection
  <2> QED
    BY <2>2, <2>3, <2>4 DEF Inv
<1>3. CASE ~listening
  BY <1>1, <1>3, ExitKeepsInv DEF CloseHttp, Inv, TypeOK
<1> QED
  BY <1>2, <1>3

(* A connection closes, or ends it all. *)
LEMMA CloseConnectionStep == ASSUME Inv, CloseConnection PROVE Inv'
<1>1. step \in Connection /\ UNCHANGED <<closesHttp, forced, listening>>
  BY DEF CloseConnection
<1>2. Served /\ Idle
  BY <1>1 DEF Inv, DrainedInOrder
<1>3. CASE Exit("1") /\ failed' = TRUE /\ open' = open
  BY <1>1, <1>3, ExitKeepsInv DEF Inv, TypeOK
<1>4. CASE Exit("0") /\ failed' = failed /\ open' = open \ {step}
  BY <1>1, <1>4, ExitKeepsInv DEF Inv, TypeOK
<1>5. CASE step' = After(step) /\ step' # "exited" /\ UNCHANGED <<code, failed, request, job>>
           /\ open' = open \ {step}
  <2>1. step' \in {"rabbitmq", "redis", "database"}
    BY <1>1, <1>5 DEF After, Connection
  <2>2. TypeOK'
    BY <1>1, <1>5, <2>1 DEF Inv, TypeOK, Steps, Connection
  <2>3. ListensWhileServing'
    BY <1>1, <1>5, <2>1 DEF Inv, ListensWhileServing, Connection
  <2>4. DrainedInOrder'
    BY <1>2, <1>5, <2>1 DEF DrainedInOrder, Served, Idle, Boot, Connection
  <2> QED
    BY <2>2, <2>3, <2>4 DEF Inv
<1> QED
  BY <1>3, <1>4, <1>5 DEF CloseConnection, workVars

(* The timer of handleShutdown. *)
LEMMA ForceExitStep == ASSUME Inv, ForceExit PROVE Inv'
BY ExitKeepsInv DEF ForceExit, Inv, TypeOK

(* Redis and the health checks touch nothing of it. *)
LEMMA UntouchedStep == ASSUME Inv, UNCHANGED vars PROVE Inv'
BY DEF vars, Inv, TypeOK, ListensWhileServing, DrainedInOrder, Served, Idle

(* The parts of the invariant hold together, from the bootstrap on. *)
LEMMA Invariant == LifecycleSpec => []Inv
<1>1. ASSUME Inv, [LifecycleNext]_<<vars, lifecycleVars>> PROVE Inv'
  <2>1. CASE ConnectDatabase \/ ConnectRedis \/ Listen \/ Terminate
    BY <1>1, <2>1, BootStep
  <2>2. CASE Work
    BY <1>1, <2>2, WorkStep DEF Work
  <2>3. CASE Shutdown
    BY <1>1, <2>3, ShutdownMoves, CloseHttpStep, ForceExitStep DEF Shutdown
  <2>4. CASE Close
    BY <1>1, <2>4, CloseConnectionStep DEF Close
  <2>5. ASSUME NEW p \in Probe, Report(p) PROVE Inv'
    BY <1>1, <2>5, WorkStep, ProbeAssumption DEF Report
  <2>6. ASSUME NEW p \in Probe, Settle(p) PROVE Inv'
    BY <1>1, <2>6, UntouchedStep DEF Settle
  <2>7. CASE RedisFails \/ RedisRecovers \/ GiveUp
    BY <1>1, <2>7, UntouchedStep DEF RedisFails, RedisRecovers, GiveUp
  <2>8. CASE UNCHANGED <<vars, lifecycleVars>>
    BY <1>1, <2>8, UntouchedStep
  <2> QED
    BY <1>1, <2>1, <2>2, <2>3, <2>4, <2>5, <2>6, <2>7, <2>8 DEF LifecycleNext
<1> QED
  BY InitHolds, <1>1, PTL DEF LifecycleSpec

(* When handleShutdown closes a connection, or exits because server.close    *)
(* has failed, nothing that it was to wait for runs any more.               *)
LEMMA StepServes ==
  ASSUME Inv, LifecycleNext
  PROVE  /\ ~(Served /\ Idle) => open \subseteq open'
         /\ \A r \in Request : request[r] = "running" /\ request'[r] = "cut" => forced'
<1> DEFINE Goal == /\ ~(Served /\ Idle) => open \subseteq open'
                   /\ \A r \in Request : request[r] = "running" /\ request'[r] = "cut" => forced'
<1> SUFFICES Goal
  OBVIOUS
<1>1. CASE Served /\ Idle
  BY <1>1 DEF Served
<1>2. CASE step \in Boot \union Connection
  <2>1. Served /\ Idle
    BY <1>2 DEF Inv, DrainedInOrder
  <2> QED
    BY <1>1, <2>1
<1>3. CASE UNCHANGED vars
  BY <1>3, Zenon DEF vars
<1>4. CASE Work \/ \E p \in Probe : Report(p)
  <2>1. open' = open
    BY <1>4 DEF Work, Report, Accept, Respond, TakeJob, FinishJob
  <2>2. \A r \in Request : request'[r] = "cut" => request[r] = "cut"
    <3>1. request' = request \/ \E r \in Request, v \in {"running", "done"} :
              request' = [request EXCEPT ![r] = v]
      BY <1>4, ProbeAssumption DEF Work, Report, Accept, Respond, TakeJob, FinishJob
    <3> QED
      BY <3>1 DEF Inv, TypeOK
  <2> QED
    BY <2>1, <2>2
<1>5. CASE Signal \/ SocketsClosed \/ Drained \/ WorkersClosed
  <2>1. open' = open /\ request' = request
    BY <1>5 DEF Signal, SocketsClosed, Drained, WorkersClosed, workVars
  <2> QED
    BY <2>1
<1>6. CASE CloseHttp
  <2>1. open' = open
    BY <1>6 DEF CloseHttp
  <2>2. CASE listening
    BY <1>6, <2>1, <2>2 DEF CloseHttp, workVars
  <2>3. CASE ~listening
    <3>1. Served
      BY <1>6, <2>3 DEF CloseHttp, Inv, TypeOK, ListensWhileServing, DrainedInOrder
    <3> QED
      BY <2>1, <3>1 DEF Served
  <2> QED
    BY <2>2, <2>3
<1>7. CASE ForceExit
  BY <1>7 DEF ForceExit
<1>8. LifecycleNext => \/ step \in Boot \union Connection
                       \/ UNCHANGED vars
                       \/ Work \/ \E p \in Probe : Report(p)
                       \/ Signal \/ SocketsClosed \/ Drained \/ WorkersClosed
                       \/ CloseHttp \/ ForceExit
  BY DEF LifecycleNext, ConnectDatabase, ConnectRedis, Listen, Terminate, Shutdown, Close,
         CloseConnection, Settle, RedisFails, RedisRecovers, GiveUp, Boot
<1> HIDE DEF Goal
<1> QED
  BY <1>2, <1>3, <1>4, <1>5, <1>6, <1>7, <1>8

(* No connection is closed while a request or a push job may still use it,  *)
(* and nothing but the timer of handleShutdown cuts a request off: whether  *)
(* closing Socket.IO closes the HTTP server or not.                         *)
THEOREM RequestsAreServedHolds == LifecycleSpec => RequestsAreServed
<1>1. ASSUME Inv, [LifecycleNext]_<<vars, lifecycleVars>>
      PROVE  [ /\ ~(Served /\ Idle) => open \subseteq open'
               /\ \A r \in Request :
                      request[r] = "running" /\ request'[r] = "cut" => forced' ]_vars
  <2>1. CASE LifecycleNext
    BY <1>1, <2>1, StepServes
  <2>2. CASE UNCHANGED <<vars, lifecycleVars>>
    BY <2>2
  <2> QED
    BY <1>1, <2>1, <2>2
<1> QED
  BY <1>1, Invariant, PTL DEF LifecycleSpec, RequestsAreServed
===============================================================================
