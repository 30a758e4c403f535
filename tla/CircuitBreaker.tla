--------------------------- MODULE CircuitBreaker ---------------------------
(***************************************************************************)
(* The circuit breaker of @spotq-org/circuit-breaker, as its two clients   *)
(* configure and observe it.  The library is external: what the clients    *)
(* and their tests leave open, whether an exempt error counts as a success *)
(* or not at all, and whether a half-open breaker admits one probe or      *)
(* several, is left open here.                                             *)
(***************************************************************************)
EXTENDS Naturals

CONSTANTS
    VolumeThreshold,    \* calls in the window before the breaker may trip
    ErrorThreshold      \* percentage of failures at which it trips

ASSUME BreakerAssumption ==
    /\ VolumeThreshold \in Nat \ {0}
    /\ ErrorThreshold \in 1..100

BreakerState == [circuit : {"CLOSED", "OPEN", "HALF_OPEN"},
                 total   : Nat,     \* calls in the window
                 failed  : Nat]     \* those that failed

ClosedBreaker == [circuit |-> "CLOSED", total |-> 0, failed |-> 0]
OpenBreaker   == [ClosedBreaker EXCEPT !.circuit = "OPEN"]

(* The states an admitted call may leave behind when it ends.  The window   *)
(* forgets old calls: at the cap it starts again.                           *)
Recorded(b, failures) ==
    LET total  == b.total + 1
        failed == b.failed + failures
    IN IF total >= VolumeThreshold /\ failed * 100 >= ErrorThreshold * total
       THEN OpenBreaker
       ELSE IF total >= VolumeThreshold THEN ClosedBreaker
       ELSE [b EXCEPT !.total = total, !.failed = failed]

AfterFailure(b) ==
    CASE b.circuit = "CLOSED"    -> {Recorded(b, 1)}
      [] b.circuit = "HALF_OPEN" -> {OpenBreaker}
      [] b.circuit = "OPEN"      -> {b}     \* a call admitted before it opened

AfterSuccess(b) ==
    CASE b.circuit = "CLOSED"    -> {Recorded(b, 0)}
      [] b.circuit = "HALF_OPEN" -> {ClosedBreaker}
      [] b.circuit = "OPEN"      -> {b}

AfterExempt(b) == {b} \union AfterSuccess(b)

MayAdmit(b)  == b.circuit # "OPEN"
MayReject(b) == b.circuit # "CLOSED"

HalfOpened(b) == [b EXCEPT !.circuit = "HALF_OPEN"]
=============================================================================
