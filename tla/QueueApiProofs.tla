---------------------------- MODULE QueueApiProofs ----------------------------
(***************************************************************************)
(* The status a client reads and the queue agree, for any number of        *)
(* requests, any predictions and any thresholds of the breaker.            *)
(*                                                                         *)
(* What makes StatusTellsTheTruth inductive is where a ticket may be       *)
(* inserted: a request with a stored ticket has passed its insert, and     *)
(* nothing after it can answer with a 4xx (StoredIsLate).                  *)
(***************************************************************************)
EXTENDS QueueApi, CircuitBreakerProofs, TLAPS

apiAll == <<vars, apiVars>>

StoredIsLate ==
    \A c \in Call :
        /\ stage[c] # "answered" => code[c] = NoCode
        /\ stored[c] => stage[c] \in {"cache", "answered"}
        /\ stage[c] = "cache" => stored[c]

ApiInv == ApiTypeOK /\ StoredIsLate /\ StatusTellsTheTruth

-----------------------------------------------------------------------------
(* An error is answered with an error, and a failure of the service or of   *)
(* the database with a 500.                                                 *)
LEMMA ErrorsAreErrors ==
    ASSUME NEW error, error.code \in ErrorCode, error.upstream \in {0} \union 400..599
    PROVE  /\ StatusOfError(error) \in 400..599
           /\ error.code \in {"PERSISTENCE", "UNEXPECTED"} => StatusOfError(error) = 500
BY DEF StatusOfError, MapDomainErrorToHttpStatus, ErrorCode

(* The errors of the handlers are of that kind. *)
LEMMA HandlerErrors ==
    /\ \A error \in RestaurantErrors : StatusOfError(error) \in 400..599
    /\ \A name \in ErrorCode : StatusOfError(Error(name)) \in 400..599
    /\ StatusOfError(Error("PERSISTENCE")) = 500
    /\ StatusOfError(Error("UNEXPECTED")) = 500
<1>1. ASSUME NEW name \in ErrorCode
      PROVE  StatusOfError(Error(name)) \in 400..599
    <2>1. Error(name).code = name /\ Error(name).upstream = 0
        BY DEF Error
    <2> QED BY <2>1, ErrorsAreErrors
<1>2. ASSUME NEW answer \in Nat, answer = 0 \/ answer \in 400..599
      PROVE  StatusOfError(Upstream(answer)) \in 400..599
    <2>1. /\ Upstream(answer).code \in ErrorCode
          /\ Upstream(answer).upstream \in {0} \union 400..599
        BY <1>2 DEF Upstream, ErrorCode
    <2> QED BY <2>1, ErrorsAreErrors
<1>3. \A error \in RestaurantErrors : StatusOfError(error) \in 400..599
    <2>1. "RESTAURANT_NOT_FOUND" \in ErrorCode
        BY DEF ErrorCode
    <2>2. StatusOfError(Error("RESTAURANT_NOT_FOUND")) \in 400..599
        BY <1>1, <2>1
    <2>3. /\ StatusOfError(Upstream(400)) \in 400..599
          /\ StatusOfError(Upstream(503)) \in 400..599
          /\ StatusOfError(Upstream(0)) \in 400..599
        BY <1>2
    <2> QED BY <2>2, <2>3 DEF RestaurantErrors
<1>4. StatusOfError(Error("PERSISTENCE")) = 500 /\ StatusOfError(Error("UNEXPECTED")) = 500
    BY ErrorsAreErrors DEF Error, ErrorCode
<1> QED BY <1>1, <1>3, <1>4

(* A step of one request c: where it goes, what it answers, and whether a   *)
(* ticket is stored for it afterwards.                                      *)
StepOf(c, next, answer, kept) ==
    /\ stage' = [stage EXCEPT ![c] = next]
    /\ code' = [code EXCEPT ![c] = answer]
    /\ stored' = [stored EXCEPT ![c] = kept]

(* It answers nothing and moves on, or answers with a status that tells     *)
(* whether the ticket is stored.                                            *)
Truthful(next, answer, kept) ==
    /\ next \in Stage /\ answer \in {NoCode} \union 200..599 /\ kept \in BOOLEAN
    /\ next # "answered" => answer = NoCode
    /\ kept => next \in {"cache", "answered"}
    /\ next = "cache" => kept
    /\ answer = 201 => kept
    /\ answer = 200 \/ IsClientError(answer) => ~kept

OthersTyped ==
    /\ route' \in [Call -> Route \union {"none"}]
    /\ free' \in [Call -> BOOLEAN]

(* A step of one request with an answer that is true keeps the invariant. *)
LEMMA OneRequestMoves ==
    ASSUME ApiInv, OthersTyped, NEW c \in Call, NEW next, NEW answer, NEW kept,
           StepOf(c, next, answer, kept), Truthful(next, answer, kept)
    PROVE  ApiInv'
<1>1. ApiTypeOK'
    BY DEF ApiInv, ApiTypeOK, OthersTyped, StepOf, Truthful
<1>2. StoredIsLate'
    BY DEF ApiInv, ApiTypeOK, StoredIsLate, StepOf, Truthful
<1>3. StatusTellsTheTruth'
    BY DEF ApiInv, ApiTypeOK, StatusTellsTheTruth, IsClientError, StepOf, Truthful
<1> QED BY <1>1, <1>2, <1>3 DEF ApiInv

(* A request that has inserted nothing yet. *)
Early(c) == stage[c] \notin {"cache", "answered"}

(* Nothing is stored and nothing is answered before the insert. *)
LEMMA EarlyIsUnstored ==
    ASSUME ApiInv, NEW c \in Call, Early(c)
    PROVE  /\ stored[c] = FALSE /\ code[c] = NoCode
           /\ stored = [stored EXCEPT ![c] = FALSE]
           /\ code = [code EXCEPT ![c] = NoCode]
BY DEF ApiInv, ApiTypeOK, StoredIsLate, Early

(* The two ways to go on before anything is stored, and an error thrown. *)
LEMMA Moves ==
    ASSUME ApiInv, OthersTyped, NEW c \in Call, NEW next \in Stage \ {"cache", "answered"},
           Early(c), Goto(c, next), UNCHANGED stored
    PROVE  ApiInv'
<1>1. StepOf(c, next, NoCode, FALSE)
    BY EarlyIsUnstored DEF StepOf, Goto
<1>2. Truthful(next, NoCode, FALSE)
    BY DEF Truthful, NoCode, IsClientError
<1> QED BY <1>1, <1>2, OneRequestMoves

(* A request may be answered with anything but 201 before the insert. *)
LEMMA Answers ==
    ASSUME ApiInv, OthersTyped, NEW c \in Call, NEW answer \in 200..599, answer # 201,
           Early(c), Respond(c, answer), UNCHANGED stored
    PROVE  ApiInv'
<1>1. StepOf(c, "answered", answer, FALSE)
    BY EarlyIsUnstored DEF StepOf, Respond
<1>2. Truthful("answered", answer, FALSE)
    BY DEF Truthful, Stage
<1> QED BY <1>1, <1>2, OneRequestMoves

Refusal(error) == StatusOfError(error) \in 400..599

(* What a use case throws before the insert is answered with its status. *)
LEMMA Throws ==
    ASSUME ApiInv, OthersTyped, NEW c \in Call, NEW error, Refusal(error),
           Early(c), Throw(c, error), UNCHANGED stored
    PROVE  ApiInv'
<1> USE DEF Refusal
<1>1. StatusOfError(error) \in 200..599 /\ StatusOfError(error) # 201
    OBVIOUS
<1>2. Respond(c, StatusOfError(error))
    BY DEF Throw
<1> QED BY <1>1, <1>2, Answers

-----------------------------------------------------------------------------
(* The insert stores the ticket, finds a duplicate, or fails. *)
LEMMA InsertKeeps ==
    ASSUME ApiInv, NEW c \in Call, Insert(c)
    PROVE  ApiInv'
<1>1. Early(c) /\ OthersTyped
    BY DEF Insert, Early, OthersTyped, ApiInv, ApiTypeOK
<1>2. /\ StatusOfError(Error("ACTIVE_QUEUE_ENTRY_EXISTS")) \in 400..599
      /\ StatusOfError(Error("PERSISTENCE")) = 500
    <2>1. "ACTIVE_QUEUE_ENTRY_EXISTS" \in ErrorCode
        BY DEF ErrorCode
    <2> QED BY <2>1, HandlerErrors
<1>3. CASE Throw(c, Error("ACTIVE_QUEUE_ENTRY_EXISTS")) /\ UNCHANGED stored
    <2>1. Refusal(Error("ACTIVE_QUEUE_ENTRY_EXISTS"))
        BY <1>2 DEF Refusal
    <2> QED BY <1>1, <1>3, <2>1, Throws
<1>4. CASE Throw(c, Error("PERSISTENCE")) /\ UNCHANGED stored
    <2>1. Refusal(Error("PERSISTENCE"))
        BY <1>2 DEF Refusal
    <2> QED BY <1>1, <1>4, <2>1, Throws
<1>5. CASE stored' = [stored EXCEPT ![c] = TRUE] /\ Goto(c, "cache")
    <2>1. StepOf(c, "cache", NoCode, TRUE)
        BY <1>1, <1>5, EarlyIsUnstored DEF StepOf, Goto
    <2>2. Truthful("cache", NoCode, TRUE)
        BY DEF Truthful, Stage, NoCode, IsClientError
    <2> QED BY <1>1, <2>1, <2>2, OneRequestMoves
<1>6. CASE stored' = [stored EXCEPT ![c] = TRUE] /\ Throw(c, Error("PERSISTENCE"))
    <2>1. StepOf(c, "answered", 500, TRUE)
        BY <1>2, <1>6 DEF StepOf, Throw, Respond
    <2>2. Truthful("answered", 500, TRUE)
        BY DEF Truthful, Stage, IsClientError
    <2> QED BY <1>1, <2>1, <2>2, OneRequestMoves
<1> QED BY <1>3, <1>4, <1>5, <1>6 DEF Insert

(* After the insert the answer is 201 whatever the cache does. *)
LEMMA CacheKeeps ==
    ASSUME ApiInv, NEW c \in Call, Cache(c)
    PROVE  ApiInv'
<1>1. OthersTyped
    BY DEF Cache, OthersTyped, ApiInv, ApiTypeOK
<1>2. StepOf(c, "answered", 201, TRUE)
    BY DEF StepOf, Cache, Respond, ApiInv, ApiTypeOK, StoredIsLate
<1>3. Truthful("answered", 201, TRUE)
    BY DEF Truthful, Stage, IsClientError
<1> QED BY <1>1, <1>2, <1>3, OneRequestMoves

(* The use case, from the checks of the restaurant to the cache. *)
LEMMA HandlerKeeps ==
    ASSUME ApiInv, NEW c \in Call, Handler(c)
    PROVE  ApiInv'
<1>0. /\ {"RESTAURANT_BLOCKED", "SUBSCRIPTION_REQUIRED", "RESTAURANT_NOT_ACCEPTING_QUEUE",
          "TABLES_AVAILABLE", "ACTIVE_QUEUE_ENTRY_EXISTS", "PERSISTENCE"} \subseteq ErrorCode
      /\ {"availability", "duplicates", "metrics", "predict", "insert"}
             \subseteq Stage \ {"cache", "answered"}
    BY DEF ErrorCode, Stage
<1>1. CASE GetRestaurantStatus(c)
    <2>1. Early(c) /\ OthersTyped /\ UNCHANGED stored
        BY <1>1 DEF GetRestaurantStatus, Early, OthersTyped, ApiInv, ApiTypeOK
    <2>2. CASE Goto(c, "availability")
        BY <1>0, <2>1, <2>2, Moves
    <2>3. ASSUME NEW error \in RestaurantErrors \union
                     {Error("RESTAURANT_BLOCKED"), Error("SUBSCRIPTION_REQUIRED")},
                 Throw(c, error)
          PROVE  ApiInv'
        <3>1. Refusal(error)
            BY <1>0, HandlerErrors DEF Refusal
        <3> QED BY <2>1, <2>3, <3>1, Throws
    <2>4. \/ Goto(c, "availability")
          \/ \E error \in RestaurantErrors \union
                 {Error("RESTAURANT_BLOCKED"), Error("SUBSCRIPTION_REQUIRED")} : Throw(c, error)
        BY <1>1 DEF GetRestaurantStatus
    <2> QED BY <2>2, <2>3, <2>4
<1>2. CASE CheckAvailability(c)
    <2>0. /\ stage[c] = "availability" /\ UNCHANGED <<route, stored>>
          /\ free' = free \/ free' = [free EXCEPT ![c] = TRUE]
        BY <1>2 DEF CheckAvailability
    <2>1. Early(c) /\ OthersTyped /\ UNCHANGED stored
        <3>1. free' \in [Call -> BOOLEAN]
            <4>1. free \in [Call -> BOOLEAN]
                BY DEF ApiInv, ApiTypeOK
            <4>2. [free EXCEPT ![c] = TRUE] \in [Call -> BOOLEAN]
                BY <4>1
            <4> QED BY <2>0, <4>1, <4>2
        <3>2. route' \in [Call -> Route \union {"none"}]
            BY <2>0 DEF ApiInv, ApiTypeOK
        <3> QED BY <2>0, <3>1, <3>2 DEF Early, OthersTyped
    <2>2. ASSUME NEW error \in RestaurantErrors \union
                     {Error("RESTAURANT_NOT_ACCEPTING_QUEUE"), Error("TABLES_AVAILABLE")},
                 Throw(c, error)
          PROVE  ApiInv'
        <3>1. Refusal(error)
            BY <1>0, HandlerErrors DEF Refusal
        <3> QED BY <2>1, <2>2, <3>1, Throws
    <2>3. CASE Goto(c, "metrics")
        BY <1>0, <2>1, <2>3, Moves
    <2>4. CASE Goto(c, "duplicates")
        BY <1>0, <2>1, <2>4, Moves
    <2> QED BY <1>2, <2>2, <2>3, <2>4 DEF CheckAvailability
<1>3. CASE FindDuplicates(c)
    <2>1. Early(c) /\ OthersTyped /\ UNCHANGED stored
        BY <1>3 DEF FindDuplicates, Early, OthersTyped, ApiInv, ApiTypeOK
    <2>2. CASE Goto(c, "metrics")
        BY <1>0, <2>1, <2>2, Moves
    <2>3. ASSUME NEW error \in {Error("ACTIVE_QUEUE_ENTRY_EXISTS"), Error("PERSISTENCE")},
                 Throw(c, error)
          PROVE  ApiInv'
        <3>1. Refusal(error)
            BY <1>0, HandlerErrors DEF Refusal
        <3> QED BY <2>1, <2>3, <3>1, Throws
    <2> QED BY <1>3, <2>2, <2>3 DEF FindDuplicates
<1>4. CASE QueryMetrics(c)
    <2>1. Early(c) /\ OthersTyped /\ UNCHANGED stored
        BY <1>4 DEF QueryMetrics, Early, OthersTyped, ApiInv, ApiTypeOK
    <2>2. CASE Throw(c, Error("PERSISTENCE"))
        <3>1. Refusal(Error("PERSISTENCE"))
            BY <1>0, HandlerErrors DEF Refusal
        <3> QED BY <2>1, <2>2, <3>1, Throws
    <2>3. CASE Respond(c, 200)
        BY <2>1, <2>3, Answers
    <2>4. CASE Goto(c, "predict")
        BY <1>0, <2>1, <2>4, Moves
    <2> QED BY <1>4, <2>2, <2>3, <2>4 DEF QueryMetrics
<1>5. CASE UsePrediction(c)
    <2>1. Early(c) /\ OthersTyped /\ UNCHANGED stored
        BY <1>5 DEF UsePrediction, Early, OthersTyped, ApiInv, ApiTypeOK
    <2>2. CASE Respond(c, 200)
        BY <2>1, <2>2, Answers
    <2>3. CASE Goto(c, "insert")
        BY <1>0, <2>1, <2>3, Moves
    <2> QED BY <1>5, <2>2, <2>3 DEF UsePrediction
<1>6. CASE Insert(c)
    BY <1>6, InsertKeeps
<1>7. CASE Cache(c)
    BY <1>7, CacheKeeps
<1> QED BY <1>1, <1>2, <1>3, <1>4, <1>5, <1>6, <1>7 DEF Handler

(* The middlewares before the use case. *)
LEMMA MiddlewareKeeps ==
    ASSUME ApiInv, NEW c \in Call, Arrive(c) \/ Middleware(c)
    PROVE  ApiInv'
<1>1. {"middleware", "status"} \subseteq Stage \ {"cache", "answered"}
    BY DEF Stage
<1>2. CASE Arrive(c)
    <2>1. Early(c) /\ OthersTyped /\ UNCHANGED stored /\ Goto(c, "middleware")
        BY <1>2 DEF Arrive, Early, OthersTyped, ApiInv, ApiTypeOK
    <2> QED BY <1>1, <2>1, Moves
<1>3. CASE Middleware(c)
    <2>1. Early(c) /\ OthersTyped /\ UNCHANGED stored
        BY <1>3 DEF Middleware, Early, OthersTyped, ApiInv, ApiTypeOK
    <2>2. ASSUME NEW answer \in ParserAnswers \union AuthAnswers(route[c])
                                    \union ValidationAnswers(route[c]),
                 Respond(c, answer)
          PROVE  ApiInv'
        <3>1. answer \in 200..599 /\ answer # 201
            BY HandlerErrors DEF ParserAnswers, AuthAnswers, ValidationAnswers
        <3> QED BY <2>1, <2>2, <3>1, Answers
    <2>3. CASE Goto(c, "status")
        BY <1>1, <2>1, <2>3, Moves
    <2> QED BY <1>3, <2>2, <2>3 DEF Middleware
<1> QED BY <1>2, <1>3

(* What a client is told of its ticket is true, however the requests, the   *)
(* failures of the restaurant service, the database and the ML service and  *)
(* the breaker interleave.                                                  *)
THEOREM StatusTellsTheTruthHolds == ApiSpec => []StatusTellsTheTruth
<1>1. ApiInit => ApiInv
    BY DEF ApiInit, ApiInv, ApiTypeOK, StoredIsLate, StatusTellsTheTruth, Stage, NoCode,
           IsClientError
<1>2. ApiInv /\ [ApiNext]_apiAll => ApiInv'
    <2> SUFFICES ASSUME ApiInv, [ApiNext]_apiAll PROVE ApiInv'
        OBVIOUS
    <2>1. CASE \E c \in Call : Arrive(c) \/ Middleware(c) \/ Handler(c)
        BY <2>1, MiddlewareKeeps, HandlerKeeps
    <2>2. CASE UNCHANGED apiVars
        BY <2>2 DEF apiVars, ApiInv, ApiTypeOK, StoredIsLate, StatusTellsTheTruth
    <2>3. CASE Client
        BY <2>2, <2>3 DEF Client
    <2>4. CASE UNCHANGED apiAll
        BY <2>2, <2>4 DEF apiAll
    <2> QED BY <2>1, <2>3, <2>4 DEF ApiNext
<1>3. ApiInv => StatusTellsTheTruth
    BY DEF ApiInv
<1> QED BY <1>1, <1>2, <1>3, PTL DEF ApiSpec, apiAll
-----------------------------------------------------------------------------
(* The client of the ML service, whatever the requests do with it. *)
EtaStep ==
    \/ \E c \in Call :
        \/ \E people \in 0..MaxAhead : Predict(c, people)
        \/ Receive(c) \/ TimeOut(c)
    \/ Reset

Trouble == {"5xx", "network", "timeout"}

(* A call of the ML service met trouble. *)
Met == \E c \in Call : response[c].kind \in Trouble

(* A breaker that counts a failure, or has tripped, has met trouble; and a  *)
(* call that waits has had no response yet, so that none is overwritten.    *)
FailuresAreTrouble == breaker.failed > 0 \/ breaker.circuit # "CLOSED" => Met

PendingIsOpen == \A c \in Call : status[c] # "answered" => response[c] = NoResponse

EtaInv == TypeOK /\ FailuresAreTrouble /\ PendingIsOpen /\ FastFailForAReason

(* The minutes that are shown are a number whatever the ETA service says. *)
LEMMA WaitsAreNatural ==
    ASSUME NEW seen \in Response \union {NoResponse}, NEW people \in Nat
    PROVE  Minutes(seen, people) \in Nat
<1>1. seen.kind = "number" => seen.halves \in Int
  <2>1. CASE seen \in [kind : {"number"}, halves : Predictions]
    <3>1. seen.halves \in Predictions
      BY <2>1
    <3> QED
      BY <3>1, EtaAssumption
  <2>2. CASE seen \in [kind : {"4xx", "5xx", "network", "timeout", "malformed"}, halves : {0}]
    BY <2>2
  <2>3. CASE seen = NoResponse
    BY <2>3 DEF NoResponse
  <2> QED
    BY <2>1, <2>2, <2>3 DEF Response
<1>2. ASSUME NEW halves \in Int PROVE AtLeast(0, Rounded(halves)) \in Nat
  <2>1. Rounded(halves) \in Int
    BY DEF Rounded
  <2> QED
    BY <2>1 DEF AtLeast
<1>3. FallbackMinutes(people) \in Nat
  <2>1. 5 * people \in Int
    OBVIOUS
  <2>2. Rounded(5 * people) \in Int
    BY <2>1 DEF Rounded
  <2> QED
    BY <2>2 DEF FallbackMinutes, AtLeast
<1> QED
  BY <1>1, <1>2, <1>3 DEF Minutes

(* What a step does to the breaker and to one call. *)
LEMMA EtaMoves ==
    ASSUME EtaInv, EtaStep
    PROVE  /\ breaker' \in BreakerState
           /\ \/ breaker' = breaker /\ response' = response
              \/ breaker' = HalfOpened(breaker) /\ response' = response
                 /\ breaker.circuit = "OPEN"
              \/ \E c \in Call, seen \in Response :
                   /\ status[c] = "pending"
                   /\ response' = [response EXCEPT ![c] = seen]
                   /\ seen.kind \in Trouble \/ breaker' \in AfterExempt(breaker)
           /\ \/ status' = status
              \/ \E c \in Call :
                   \/ status' = [status EXCEPT ![c] = "pending"] /\ status[c] = "none"
                   \/ /\ status' = [status EXCEPT ![c] = "answered"]
                      /\ \/ status[c] = "none" /\ MayReject(breaker)
                         \/ /\ status[c] = "pending"
                            /\ \E seen \in Response :
                                 response' = [response EXCEPT ![c] = seen]
<1>0. breaker \in BreakerState
  BY DEF EtaInv, TypeOK
<1>1. ASSUME NEW c \in Call, NEW people \in 0..MaxAhead, Predict(c, people)
      PROVE  /\ breaker' = breaker /\ response' = response /\ status[c] = "none"
             /\ \/ status' = [status EXCEPT ![c] = "pending"]
                \/ status' = [status EXCEPT ![c] = "answered"] /\ MayReject(breaker)
  BY <1>1 DEF Predict, Answer
<1>2. ASSUME NEW c \in Call, Receive(c)
      PROVE  /\ breaker' \in BreakerState
             /\ status[c] = "pending" /\ status' = [status EXCEPT ![c] = "answered"]
             /\ \E seen \in Response :
                  /\ response' = [response EXCEPT ![c] = seen]
                  /\ seen.kind \in Trouble \/ breaker' \in AfterExempt(breaker)
  <2>1. PICK seen \in Response \ {TimedOut} :
          /\ response' = [response EXCEPT ![c] = seen]
          /\ Answer(c, seen, ahead[c])
          /\ breaker' \in IF CheckIsFailure(seen) THEN AfterFailure(breaker)
                          ELSE IF seen.kind = "4xx" THEN AfterExempt(breaker)
                          ELSE AfterSuccess(breaker)
    BY <1>2 DEF Receive
  <2>2. seen.kind \in Trouble \/ breaker' \in AfterExempt(breaker)
    BY <1>0, <2>1, BreakerMoves DEF CheckIsFailure, Trouble
  <2>3. breaker' \in BreakerState
    BY <1>0, <2>1, BreakerMoves
  <2> QED
    BY <1>2, <2>1, <2>2, <2>3 DEF Receive, Answer
<1>3. ASSUME NEW c \in Call, TimeOut(c)
      PROVE  /\ breaker' \in BreakerState
             /\ status[c] = "pending" /\ status' = [status EXCEPT ![c] = "answered"]
             /\ TimedOut \in Response /\ TimedOut.kind \in Trouble
             /\ response' = [response EXCEPT ![c] = TimedOut]
  <2>1. TimedOut \in Response /\ TimedOut.kind \in Trouble
    BY DEF TimedOut, Response, Trouble
  <2>2. breaker' \in BreakerState
    BY <1>0, <1>3, BreakerMoves DEF TimeOut
  <2> QED
    BY <1>3, <2>1, <2>2 DEF TimeOut, Answer
<1>4. ASSUME Reset
      PROVE  /\ breaker' = HalfOpened(breaker) /\ breaker' \in BreakerState
             /\ breaker.circuit = "OPEN" /\ response' = response /\ status' = status
  BY <1>0, <1>4, BreakerMoves DEF Reset
<1> QED
  <2>1. CASE \E c \in Call : \E people \in 0..MaxAhead : Predict(c, people)
    BY <1>0, <1>1, <2>1
  <2>2. CASE \E c \in Call : Receive(c)
    BY <1>2, <2>2
  <2>3. CASE \E c \in Call : TimeOut(c)
    BY <1>3, <2>3
  <2>4. CASE Reset
    BY <1>4, <2>4
  <2> QED
    BY <2>1, <2>2, <2>3, <2>4 DEF EtaStep

(* The ETA calls and their breaker keep their types. *)
LEMMA EtaTypeStep == EtaInv /\ EtaStep => TypeOK'
<1> SUFFICES ASSUME EtaInv, EtaStep PROVE TypeOK'
  OBVIOUS
<1>0. TypeOK /\ MaxAhead \in Nat /\ breaker' \in BreakerState
  BY EtaAssumption, EtaMoves DEF EtaInv
<1>1. ASSUME NEW c \in Call, NEW people \in 0..MaxAhead, Predict(c, people) PROVE TypeOK'
  <2>1. NoResponse \in Response \union {NoResponse} /\ people \in Nat
    BY <1>0
  <2>2. Minutes(NoResponse, people) \in Nat
    BY <2>1, WaitsAreNatural
  <2> QED
    BY <1>0, <1>1, <2>2 DEF Predict, Answer, TypeOK
<1>2. ASSUME NEW c \in Call, NEW seen \in Response, Answer(c, seen, ahead[c]),
             response' = [response EXCEPT ![c] = seen], ahead' = ahead
      PROVE  TypeOK'
  <2>1. ahead[c] \in Nat
    BY <1>0 DEF TypeOK
  <2>2. Minutes(seen, ahead[c]) \in Nat
    BY <2>1, WaitsAreNatural
  <2> QED
    BY <1>0, <1>2, <2>2 DEF Answer, TypeOK
<1>3. ASSUME NEW c \in Call, Receive(c) \/ TimeOut(c) PROVE TypeOK'
  <2>1. TimedOut \in Response
    BY DEF TimedOut, Response
  <2> QED
    BY <1>2, <1>3, <2>1 DEF Receive, TimeOut
<1>4. ASSUME Reset PROVE TypeOK'
  BY <1>0, <1>4 DEF Reset, TypeOK
<1> QED
  BY <1>1, <1>3, <1>4 DEF EtaStep

(* A failure that counts is trouble of the service, and a breaker that is *)
(* open, or half open, has seen one.                                      *)
LEMMA EtaInvStep == EtaInv /\ EtaStep => EtaInv'
<1> SUFFICES ASSUME EtaInv, EtaStep PROVE EtaInv'
  OBVIOUS
<1>0. /\ breaker \in BreakerState /\ response \in [Call -> Response \union {NoResponse}]
      /\ status \in [Call -> {"none", "pending", "answered"}] /\ TypeOK'
  BY EtaTypeStep DEF EtaInv, TypeOK
<1>1. Met => Met'
  <2>1. ASSUME NEW c \in Call, response[c].kind \in Trouble PROVE response'[c] = response[c]
    <3>1. status[c] = "answered"
      BY <2>1 DEF EtaInv, PendingIsOpen, NoResponse, Trouble
    <3> QED
      BY <1>0, <3>1, EtaMoves
  <2> QED
    BY <2>1 DEF Met
<1>2. FailuresAreTrouble'
  <2> SUFFICES ASSUME ~Met' PROVE breaker'.failed = 0 /\ breaker'.circuit = "CLOSED"
    BY <1>0 DEF FailuresAreTrouble
  <2>1. breaker.failed = 0 /\ breaker.circuit = "CLOSED"
    <3>1. ~Met /\ breaker.failed \in Nat
      BY <1>0, <1>1 DEF BreakerState
    <3> QED
      BY <3>1 DEF EtaInv, FailuresAreTrouble
  <2>2. breaker' = breaker \/ breaker' \in AfterExempt(breaker)
    <3>1. ASSUME NEW c \in Call, NEW seen \in Response,
                 response' = [response EXCEPT ![c] = seen], seen.kind \in Trouble
          PROVE  FALSE
      BY <1>0, <3>1 DEF Met
    <3> QED
      BY <2>1, <3>1, EtaMoves
  <2> QED
    BY <1>0, <2>1, <2>2, BreakerMoves
<1>3. PendingIsOpen'
  <2> SUFFICES ASSUME NEW c \in Call, status'[c] # "answered" PROVE response'[c] = NoResponse
    BY DEF PendingIsOpen
  <2>1. status[c] # "answered"
    BY <1>0, EtaMoves
  <2>2. response[c] = NoResponse
    BY <2>1 DEF EtaInv, PendingIsOpen
  <2>3. response'[c] = response[c]
    <3>1. CASE response' = response
      BY <3>1
    <3>2. ASSUME NEW d \in Call, Receive(d) \/ TimeOut(d) PROVE response'[c] = response[c]
      <4>1. d # c
        BY <1>0, <3>2 DEF Receive, TimeOut, Answer
      <4> QED
        BY <3>2, <4>1, <1>0 DEF Receive, TimeOut
    <3>3. CASE Reset \/ \E d \in Call : \E people \in 0..MaxAhead : Predict(d, people)
      BY <3>1, <3>3 DEF Reset, Predict
    <3> QED
      BY <3>2, <3>3 DEF EtaStep
  <2> QED
    BY <2>2, <2>3
<1>4. FastFailForAReason'
  <2> SUFFICES ASSUME NEW c \in Call, status'[c] = "answered", response'[c] = NoResponse
               PROVE  Met'
    BY DEF FastFailForAReason, Met, Trouble
  <2>1. CASE status[c] = "answered" /\ response[c] = NoResponse
    BY <1>1, <2>1 DEF EtaInv, FastFailForAReason, Met, Trouble
  <2>2. CASE status[c] = "none" /\ MayReject(breaker)
    BY <1>1, <2>2 DEF EtaInv, FailuresAreTrouble, MayReject
  <2>3. NoResponse \notin Response
    BY DEF NoResponse, Response
  <2>4. CASE status[c] = "answered" /\ response[c] # NoResponse
    BY <1>0, <2>3, <2>4, EtaMoves
  <2>5. CASE status[c] # "answered" /\ ~(status[c] = "none" /\ MayReject(breaker))
    BY <1>0, <2>3, <2>5, EtaMoves
  <2> QED
    BY <2>1, <2>2, <2>4, <2>5
<1> QED
  BY <1>0, <1>2, <1>3, <1>4 DEF EtaInv

(* A party is put off with the formula although the ML service was not asked *)
(* only after real trouble with it: 4xx answers, malformed ones and          *)
(* successes never trip the breaker, however the requests overlap.           *)
THEOREM FastFailForAReasonHolds == ApiSpec => []FastFailForAReason
<1>1. ApiInit => EtaInv
  <2> SUFFICES ASSUME Init PROVE EtaInv
    BY DEF ApiInit
  <2>1. ClosedBreaker \in BreakerState /\ ClosedBreaker.failed = 0
        /\ ClosedBreaker.circuit = "CLOSED"
    BY DEF ClosedBreaker, BreakerState
  <2> QED
    BY <2>1, EtaAssumption DEF Init, EtaInv, TypeOK, FailuresAreTrouble, PendingIsOpen,
       FastFailForAReason
<1>2. EtaInv /\ [ApiNext]_apiAll => EtaInv'
  <2> SUFFICES ASSUME EtaInv, [ApiNext]_apiAll PROVE EtaInv'
    OBVIOUS
  <2>1. ASSUME UNCHANGED vars PROVE EtaInv'
    BY <2>1 DEF vars, EtaInv, TypeOK, FailuresAreTrouble, PendingIsOpen, FastFailForAReason, Met
  <2>2. ASSUME NEW c \in Call, Arrive(c) \/ Middleware(c) PROVE UNCHANGED vars
    BY <2>2 DEF Arrive, Middleware
  <2>3. ASSUME NEW c \in Call, Handler(c), ~QueryMetrics(c) PROVE UNCHANGED vars
    BY <2>3 DEF Handler, GetRestaurantStatus, CheckAvailability, FindDuplicates, UsePrediction,
       Insert, Cache
  <2>4. ASSUME NEW c \in Call, QueryMetrics(c) PROVE UNCHANGED vars \/ EtaStep
    BY <2>4 DEF QueryMetrics, EtaStep
  <2>5. CASE Client
    BY <2>5, EtaInvStep DEF Client, EtaStep
  <2> QED
    BY <2>1, <2>2, <2>3, <2>4, <2>5, EtaInvStep DEF ApiNext, apiAll
<1>3. EtaInv => FastFailForAReason
  BY DEF EtaInv
<1> QED
  BY <1>1, <1>2, <1>3, PTL DEF ApiSpec, apiAll
=============================================================================
