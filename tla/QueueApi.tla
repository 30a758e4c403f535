------------------------------- MODULE QueueApi -------------------------------
(***************************************************************************)
(* HTTP requests that ask about a wait or join the queue, from the router  *)
(* to the status the client reads: GET .../eta, POST .../join and the      *)
(* staff's walk-in registration.  Every one of them asks the restaurant    *)
(* service twice and MlEtaServiceClient once; this is where the answers of *)
(* the two clients meet the middleware around the handlers.                *)
(*                                                                         *)
(* Requests run concurrently and share the breaker of the ML service.  The *)
(* restaurant client is here what RemoteCall says of it, without effects:  *)
(* these calls only ask.                                                   *)
(***************************************************************************)
EXTENDS EtaClient, HttpStatus

VARIABLES
    route,      \* Call -> what the request asks for
    stage,      \* Call -> the middleware or await the request is at
    code,       \* Call -> the status it is answered with, NoCode before
    stored,     \* Call -> was a ticket inserted for it?
    free        \* Call -> was it told a table is free?

apiVars == <<route, stage, code, stored, free>>

NoCode == 0

Route == {"eta", "join", "walk-in"}

Stage == {"none", "middleware", "status", "availability", "duplicates", "metrics", "predict",
          "insert", "cache", "answered"}

ApiTypeOK ==
    /\ route \in [Call -> Route \union {"none"}]
    /\ stage \in [Call -> Stage]
    /\ code \in [Call -> {NoCode} \union 200..599]
    /\ stored \in [Call -> BOOLEAN]
    /\ free \in [Call -> BOOLEAN]

ApiInit ==
    /\ Init
    /\ route = [c \in Call |-> "none"]
    /\ stage = [c \in Call |-> "none"]
    /\ code = [c \in Call |-> NoCode]
    /\ stored = [c \in Call |-> FALSE]
    /\ free = [c \in Call |-> FALSE]

-----------------------------------------------------------------------------
(* Moving on, answering and throwing. *)

Goto(c, next) ==
    /\ stage' = [stage EXCEPT ![c] = next]
    /\ UNCHANGED code

Respond(c, answer) ==
    /\ stage' = [stage EXCEPT ![c] = "answered"]
    /\ code' = [code EXCEPT ![c] = answer]

Throw(c, error) == Respond(c, StatusOfError(error))

Arrive(c) ==
    /\ stage[c] = "none"
    /\ \E asked \in Route : route' = [route EXCEPT ![c] = asked]
    /\ Goto(c, "middleware")
    /\ UNCHANGED <<vars, stored, free>>

-----------------------------------------------------------------------------
(* The middleware, in the order of the routers.  It has no await of I/O:    *)
(* together it either answers or lets the request into the handler.         *)

(* express.json runs before every route. *)
ParserAnswers == {StatusOfError(Error("UNEXPECTED"))}

(* customerAuthMiddleware asks for a user, staffAuthMiddleware for a role   *)
(* and for the restaurant of the path as well.                              *)
AuthAnswers(asked) == IF asked = "walk-in" THEN {401, 403} ELSE {401}

(* Parameters and a query that do not validate are a 400, a body a 422. *)
ValidationAnswers(asked) == IF asked = "eta" THEN {400} ELSE {400, 422}

Middleware(c) ==
    /\ stage[c] = "middleware"
    /\ \/ Goto(c, "status")
       \/ \E answer \in ParserAnswers \union AuthAnswers(route[c])
                             \union ValidationAnswers(route[c]) : Respond(c, answer)
    /\ UNCHANGED <<vars, route, stored, free>>

-----------------------------------------------------------------------------
(* GetQueueEtaUseCase and RegisterQueueUseCase. *)

(* What the restaurant client throws: not found, a 4xx with its status, or  *)
(* unavailable, with 503 or without a status in the details.                *)
RestaurantErrors ==
    {Error("RESTAURANT_NOT_FOUND"), Upstream(400), Upstream(503), Upstream(0)}

GetRestaurantStatus(c) ==
    /\ stage[c] = "status"
    /\ \/ Goto(c, "availability")
       \/ \E error \in RestaurantErrors \union
              {Error("RESTAURANT_BLOCKED"), Error("SUBSCRIPTION_REQUIRED")} : Throw(c, error)
    /\ UNCHANGED <<vars, route, stored, free>>

(* A free table sends away who wants to join, and only is taken down for    *)
(* who asks for the wait.                                                   *)
CheckAvailability(c) ==
    /\ stage[c] = "availability"
    /\ \/ /\ \E error \in RestaurantErrors \union {Error("RESTAURANT_NOT_ACCEPTING_QUEUE")} :
                 Throw(c, error)
          /\ UNCHANGED free
       \/ /\ free' = [free EXCEPT ![c] = TRUE]
          /\ IF route[c] = "eta" THEN Goto(c, "metrics")
             ELSE Throw(c, Error("TABLES_AVAILABLE"))
       \/ /\ Goto(c, IF route[c] = "eta" THEN "metrics" ELSE "duplicates")
          /\ UNCHANGED free
    /\ UNCHANGED <<vars, route, stored>>

(* The queries may fail; the only error they throw is a PersistenceError. *)
FindDuplicates(c) ==
    /\ stage[c] = "duplicates"
    /\ \/ Goto(c, "metrics")
       \/ \E error \in {Error("ACTIVE_QUEUE_ENTRY_EXISTS"), Error("PERSISTENCE")} : Throw(c, error)
    /\ UNCHANGED <<vars, route, stored, free>>

(* The metrics count the people ahead; with a free table and nobody waiting *)
(* the wait is zero, otherwise predictEta is called at once.                *)
QueryMetrics(c) ==
    /\ stage[c] = "metrics"
    /\ \/ /\ Throw(c, Error("PERSISTENCE"))
          /\ UNCHANGED vars
       \/ /\ free[c]
          /\ Respond(c, 200)
          /\ UNCHANGED vars
       \/ \E people \in 0..MaxAhead :
             /\ free[c] => people > 0
             /\ Predict(c, people)
             /\ Goto(c, "predict")
    /\ UNCHANGED <<route, stored, free>>

UsePrediction(c) ==
    /\ stage[c] = "predict"
    /\ status[c] = "answered"
    /\ IF route[c] = "eta" THEN Respond(c, 200) ELSE Goto(c, "insert")
    /\ UNCHANGED <<vars, route, stored, free>>

(* Mutant: the second look for duplicates comes after the insert. *)
InsertThenVerify(c) ==
    /\ stage[c] = "insert"
    /\ stored' = [stored EXCEPT ![c] = TRUE]
    /\ Goto(c, "cache") \/ Throw(c, Error("ACTIVE_QUEUE_ENTRY_EXISTS"))
    /\ UNCHANGED <<vars, route, free>>

(* createWithHistory looks for duplicates again.  A transaction may commit  *)
(* and its answer be lost.                                                  *)
Insert(c) ==
    /\ stage[c] = "insert"
    /\ \/ /\ Throw(c, Error("ACTIVE_QUEUE_ENTRY_EXISTS"))
          /\ UNCHANGED stored
       \/ /\ stored' = [stored EXCEPT ![c] = TRUE]
          /\ Goto(c, "cache") \/ Throw(c, Error("PERSISTENCE"))
       \/ /\ Throw(c, Error("PERSISTENCE"))
          /\ UNCHANGED stored
    /\ UNCHANGED <<vars, route, free>>

(* saveLiveEntry and the broadcast are non-blocking: they may fail. *)
Cache(c) ==
    /\ stage[c] = "cache"
    /\ Respond(c, 201)
    /\ UNCHANGED <<vars, route, stored, free>>

Handler(c) ==
    \/ GetRestaurantStatus(c) \/ CheckAvailability(c) \/ FindDuplicates(c)
    \/ QueryMetrics(c) \/ UsePrediction(c) \/ Insert(c) \/ Cache(c)

Client ==
    /\ (\E c \in Call : Receive(c) \/ TimeOut(c)) \/ Reset
    /\ UNCHANGED apiVars

ApiNext ==
    \/ \E c \in Call : Arrive(c) \/ Middleware(c) \/ Handler(c)
    \/ Client

(* Express runs the middleware, the event loop resumes a handler whose I/O  *)
(* has settled, the restaurant client and the database answer or throw, and *)
(* the timers of MlEtaServiceClient fire.                                   *)
ApiSpec ==
    /\ ApiInit /\ [][ApiNext]_<<vars, apiVars>>
    /\ \A c \in Call :
        /\ WF_<<vars, apiVars>>(Middleware(c) \/ Handler(c))
        /\ WF_<<vars, apiVars>>(TimeOut(c) /\ UNCHANGED apiVars)

-----------------------------------------------------------------------------
(* Properties. *)

(* The status tells whether this request put the party in the queue: it did *)
(* if it is a 201, and did not if it is a 200 or a 4xx.  A 5xx leaves it    *)
(* open.  After a 409 for a duplicate the party is in the queue, by a       *)
(* request before this one.                                                 *)
StatusTellsTheTruth ==
    \A c \in Call :
        /\ code[c] = 201 => stored[c]
        /\ code[c] = 200 \/ IsClientError(code[c]) => ~stored[c]

(* Every request is answered, whatever the ML service, the database and the *)
(* restaurant service do.                                                   *)
EveryRequestIsAnswered ==
    \A c \in Call : stage[c] # "none" ~> stage[c] = "answered"
=============================================================================
