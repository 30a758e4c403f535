------------------------------ MODULE HttpStatus ------------------------------
(***************************************************************************)
(* What a client of the HTTP interface is told: the status of an error,    *)
(* as errorMiddleware and mapDomainErrorToHttpStatus derive it.  An error  *)
(* is a record: its code, and the upstreamStatusCode in its details, 0     *)
(* where there is none.  Handlers are async and errors they throw reach    *)
(* errorMiddleware through Express.                                        *)
(***************************************************************************)
EXTENDS Naturals

ErrorCode ==
    {"TABLES_AVAILABLE", "RESTAURANT_NOT_ACCEPTING_QUEUE", "ACTIVE_QUEUE_ENTRY_EXISTS",
     "QUEUE_ENTRY_NOT_WAITING", "QUEUE_ENTRY_NOT_FOUND", "RESTAURANT_NOT_FOUND",
     "UNAUTHORIZED", "FORBIDDEN", "RESTAURANT_BLOCKED", "SUBSCRIPTION_REQUIRED",
     "INSUFFICIENT_TABLE_CAPACITY", "CANNOT_RING_WALK_IN_CUSTOMER",
     "UPSTREAM_SERVICE_UNAVAILABLE",
     "PERSISTENCE",     \* PersistenceError
     "UNEXPECTED"}      \* anything else: a bug, or the body is not JSON

Error(code)     == [code |-> code, upstream |-> 0]
Upstream(status) == [code |-> "UPSTREAM_SERVICE_UNAVAILABLE", upstream |-> status]

MapDomainErrorToHttpStatus(error) ==
    CASE error.code \in {"TABLES_AVAILABLE", "RESTAURANT_NOT_ACCEPTING_QUEUE",
                         "ACTIVE_QUEUE_ENTRY_EXISTS", "QUEUE_ENTRY_NOT_WAITING"} -> 409
      [] error.code \in {"QUEUE_ENTRY_NOT_FOUND", "RESTAURANT_NOT_FOUND"}        -> 404
      [] error.code = "UNAUTHORIZED"                                             -> 401
      [] error.code \in {"FORBIDDEN", "RESTAURANT_BLOCKED",
                         "SUBSCRIPTION_REQUIRED"}                                -> 403
      [] error.code = "UPSTREAM_SERVICE_UNAVAILABLE" ->
             IF error.upstream # 0 THEN error.upstream ELSE 503
      [] OTHER                                                                   -> 400

(* No handler sets a status before it throws, so that an error which is     *)
(* neither a domain nor a persistence error is a 500, a body that does not  *)
(* parse included.                                                          *)
StatusOfError(error) ==
    IF error.code \in {"PERSISTENCE", "UNEXPECTED"} THEN 500
    ELSE MapDomainErrorToHttpStatus(error)

IsClientError(status) == status \in 400..499
IsServerError(status) == status \in 500..599
=============================================================================
