--------------------------- MODULE RestaurantClient ---------------------------
(***************************************************************************)
(* RestaurantServiceClient: four operations over HTTP behind one circuit   *)
(* breaker.  Calls run concurrently.  The restaurant service is external:  *)
(* it may do what it was asked and fail to say so, it may be slow, and it  *)
(* may act on a request after the client gave up on it.                    *)
(*                                                                         *)
(* A response stands for its class; which of the classes an operation gets *)
(* is the restaurant service's business.                                   *)
(***************************************************************************)
EXTENDS CircuitBreaker

CONSTANTS
    Call,       \* calls of the use cases
    UseMock     \* MOCK_TABLE_CHECK

ASSUME ClientAssumption == UseMock \in BOOLEAN

VARIABLES
    breaker,    \* the breaker all four operations share
    request,    \* Call -> the HTTP request: none, sent, served
    response,   \* Call -> what the client has seen of it
    answer,     \* Call -> what the use case has seen
    effect      \* Call -> has the restaurant service done it?

vars == <<breaker, request, response, answer, effect>>

Operation == {"getRestaurantStatus", "checkAvailability", "assignTables", "releaseTables"}

(* success: 2xx with success = true and the data asked for; refused: any    *)
(* other 2xx; network: no response; unexpected: anything but an axios error *)
Response == {"success", "refused", "404", "4xx", "5xx", "network", "unexpected"}

Answers == {"ok", "notFound", "rejected", "unavailable"}

TypeOK ==
    /\ breaker \in BreakerState
    /\ request \in [Call -> {"none", "sent", "served"}]
    /\ response \in [Call -> Response \union {"none", "timeout"}]
    /\ answer \in [Call -> Answers \union {"none", "pending"}]
    /\ effect \in [Call -> BOOLEAN]

Init ==
    /\ breaker = ClosedBreaker
    /\ request = [c \in Call |-> "none"]
    /\ response = [c \in Call |-> "none"]
    /\ answer = [c \in Call |-> "none"]
    /\ effect = [c \in Call |-> FALSE]

-----------------------------------------------------------------------------
(* What an operation makes of a response: the error it throws, and the      *)
(* upstreamStatusCode in its details.  The four operations differ in their  *)
(* route and their messages only.                                           *)

(* Mutant: an axios error without a response is taken for the caller's. *)
OutcomeWithoutResponse(seen) ==
    CASE seen = "success"                     -> "ok"
      [] seen = "404"                         -> "notFound"
      [] seen \in {"4xx", "network", "timeout"} -> "rejected"
      [] OTHER                                -> "unavailable"

Outcome(seen) ==
    CASE seen = "success" -> "ok"
      [] seen = "404"     -> "notFound"
      [] seen = "4xx"     -> "rejected"
      [] OTHER            -> "unavailable"

(* Mutant: a 4xx is not told from a failure of the service. *)
UpstreamStatusOfAxios(seen) == IF seen \in {"4xx", "5xx", "network"} THEN 503 ELSE 0

UpstreamStatus(seen) ==
    CASE seen = "4xx"                         -> 400
      [] seen \in {"5xx", "network", "timeout"} -> 503
      [] OTHER                                -> 0      \* not set

(* Which errors count against the service. *)
CheckIsFailure(seen) ==
    /\ seen \notin {"success", "404"}
    /\ UpstreamStatus(seen) \notin 400..499

-----------------------------------------------------------------------------
(* A use case calls the client.  In a mock set-up checkAvailability answers *)
(* by itself.                                                               *)
Begin(c, op) ==
    /\ answer[c] = "none"
    /\ \/ /\ op = "checkAvailability" /\ UseMock
          /\ answer' = [answer EXCEPT ![c] = "ok"]
          /\ effect' = [effect EXCEPT ![c] = TRUE]
          /\ UNCHANGED request
       \/ /\ op = "checkAvailability" => ~UseMock
          /\ MayAdmit(breaker)
          /\ answer' = [answer EXCEPT ![c] = "pending"]
          /\ request' = [request EXCEPT ![c] = "sent"]
          /\ UNCHANGED effect
       \/ /\ op = "checkAvailability" => ~UseMock
          /\ MayReject(breaker)
          /\ answer' = [answer EXCEPT ![c] = "unavailable"]
          /\ UNCHANGED <<request, effect>>
    /\ UNCHANGED <<breaker, response>>

(* The response arrives while somebody waits for it. *)
Receive(c) ==
    /\ answer[c] = "pending"
    /\ response[c] # "none"
    /\ answer' = [answer EXCEPT ![c] = Outcome(response[c])]
    /\ breaker' \in IF response[c] = "success" THEN AfterSuccess(breaker)
                    ELSE IF CheckIsFailure(response[c]) THEN AfterFailure(breaker)
                    ELSE AfterExempt(breaker)
    /\ UNCHANGED <<request, response, effect>>

(* Mutant: the fallback of a call that timed out reports success. *)
TimeOutAsSuccess(c) ==
    /\ answer[c] = "pending"
    /\ answer' = [answer EXCEPT ![c] = "ok"]
    /\ response' = [response EXCEPT ![c] = "timeout"]
    /\ breaker' \in AfterFailure(breaker)
    /\ UNCHANGED <<request, effect>>

(* Axios or the breaker gives up first; the breaker's timeout aborts the    *)
(* request, which may have arrived already.                                 *)
TimeOut(c) ==
    /\ answer[c] = "pending"
    /\ answer' = [answer EXCEPT ![c] = Outcome("timeout")]
    /\ response' = [response EXCEPT ![c] = "timeout"]
    /\ breaker' \in AfterFailure(breaker)
    /\ UNCHANGED <<request, effect>>

-----------------------------------------------------------------------------
(* The restaurant service and the reset timer of the breaker. *)

Serve(c) ==
    /\ request[c] = "sent"
    /\ request' = [request EXCEPT ![c] = "served"]
    /\ \E seen \in Response, done \in BOOLEAN :
        /\ seen = "success" => done
        /\ seen \in {"refused", "404", "4xx", "unexpected"} => ~done
        /\ effect' = [effect EXCEPT ![c] = done]
        /\ response' = [response EXCEPT ![c] = IF @ = "timeout" THEN @ ELSE seen]
    /\ UNCHANGED <<breaker, answer>>

Reset ==
    /\ breaker.circuit = "OPEN"
    /\ breaker' = HalfOpened(breaker)
    /\ UNCHANGED <<request, response, answer, effect>>

Next ==
    \/ \E c \in Call :
        \/ \E op \in Operation : Begin(c, op)
        \/ Receive(c) \/ TimeOut(c) \/ Serve(c)
    \/ Reset

Spec == Init /\ [][Next]_vars

-----------------------------------------------------------------------------
(* Properties. *)

(* The client is a remote call to its users: nothing takes effect twice,    *)
(* "ok" is never said of something that was not done, an answer is final    *)
(* even if the response comes in later.                                     *)
Remote == INSTANCE RemoteCall

ImplementsRemoteCall == Remote!Spec

(* Responses that blame the service. *)
Trouble == {"refused", "5xx", "network", "unexpected", "timeout"}

(* The service is reported unavailable, to the call that met the trouble or *)
(* to another one through the shared breaker, only after real trouble: no   *)
(* number of 404s and 4xx of one endpoint locks the others out.             *)
UnavailableForAReason ==
    (\E c \in Call : answer[c] = "unavailable")
    => \E c \in Call : response[c] \in Trouble

(* A call that is answered with a 404 or 4xx, after which the staff correct *)
(* their request and repeat it, has changed no table, nor will it: what may *)
(* still take effect is reported as unavailable.                            *)
RejectedHasNoEffect ==
    \A c \in Call : answer[c] \in {"notFound", "rejected"} => ~effect[c]
=============================================================================
