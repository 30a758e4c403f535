------------------------------ MODULE EtaClient ------------------------------
(***************************************************************************)
(* MlEtaServiceClient: an estimated wait for every caller, from the ML     *)
(* service when it answers in time and from a formula otherwise.  The ML   *)
(* service and its breaker are external; the breaker is another instance   *)
(* of the one the restaurant client uses, with the formula as a fallback.  *)
(***************************************************************************)
EXTENDS CircuitBreaker, Integers

CONSTANTS
    Call,
    MaxAhead,       \* bound on the people ahead of a party
    Predictions     \* what the ML service may predict, in half minutes

ASSUME EtaAssumption == MaxAhead \in Nat /\ Predictions \subseteq Int

VARIABLES
    breaker,
    ahead,      \* Call -> totalPeopleAhead
    response,   \* Call -> what came back, NoResponse before
    status,     \* Call -> none, pending, answered
    minutes     \* Call -> the answer

vars == <<breaker, ahead, response, status, minutes>>

Response ==
    [kind : {"4xx", "5xx", "network", "timeout", "malformed"}, halves : {0}]
        \union [kind : {"number"}, halves : Predictions]

NoResponse == [kind |-> "none", halves |-> 0]
TimedOut   == [kind |-> "timeout", halves |-> 0]

TypeOK ==
    /\ breaker \in BreakerState
    /\ ahead \in [Call -> 0..MaxAhead]
    /\ response \in [Call -> Response \union {NoResponse}]
    /\ status \in [Call -> {"none", "pending", "answered"}]
    /\ minutes \in [Call -> Nat]

Init ==
    /\ breaker = ClosedBreaker
    /\ ahead = [c \in Call |-> 0]
    /\ response = [c \in Call |-> NoResponse]
    /\ status = [c \in Call |-> "none"]
    /\ minutes = [c \in Call |-> 0]

-----------------------------------------------------------------------------
AtLeast(floor, n) == IF n < floor THEN floor ELSE n

(* Math.round of half minutes: halves go up, also below zero. *)
Rounded(halves) == (halves + 1) \div 2

(* At least five minutes, two and a half for each person ahead. *)
FallbackMinutes(n) == AtLeast(5, Rounded(5 * n))

(* A finite number is clamped and rounded, anything else is replaced. *)
Minutes(seen, n) ==
    IF seen.kind = "number" THEN AtLeast(0, Rounded(seen.halves)) ELSE FallbackMinutes(n)

(* Mutant: every error counts. *)
CheckAnyError(seen) == seen.kind \notin {"number", "malformed"}

(* An HTTP error below 500 is the caller's. *)
CheckIsFailure(seen) == seen.kind \in {"5xx", "network", "timeout"}

Answer(c, seen, n) ==
    /\ status' = [status EXCEPT ![c] = "answered"]
    /\ minutes' = [minutes EXCEPT ![c] = Minutes(seen, n)]

(* predictEta: an open breaker goes straight to the formula. *)
Predict(c, n) ==
    /\ status[c] = "none"
    /\ ahead' = [ahead EXCEPT ![c] = n]
    /\ \/ /\ MayAdmit(breaker)
          /\ status' = [status EXCEPT ![c] = "pending"]
          /\ UNCHANGED minutes
       \/ /\ MayReject(breaker)
          /\ Answer(c, NoResponse, n)
    /\ UNCHANGED <<breaker, response>>

(* callPredictionApi settles while predictEta waits. *)
Receive(c) ==
    /\ status[c] = "pending"
    /\ \E seen \in Response \ {TimedOut} :
        /\ response' = [response EXCEPT ![c] = seen]
        /\ Answer(c, seen, ahead[c])
        /\ breaker' \in IF CheckIsFailure(seen) THEN AfterFailure(breaker)
                        ELSE IF seen.kind = "4xx" THEN AfterExempt(breaker)
                        ELSE AfterSuccess(breaker)
    /\ UNCHANGED ahead

(* Mutant: the request is only aborted. *)
TimeOutAborts(c) ==
    /\ status[c] = "pending"
    /\ response' = [response EXCEPT ![c] = TimedOut]
    /\ UNCHANGED <<breaker, ahead, status, minutes>>

(* Axios or the breaker gives up; the fallback aborts the request. *)
TimeOut(c) ==
    /\ status[c] = "pending"
    /\ response' = [response EXCEPT ![c] = TimedOut]
    /\ Answer(c, TimedOut, ahead[c])
    /\ breaker' \in AfterFailure(breaker)
    /\ UNCHANGED ahead

Reset ==
    /\ breaker.circuit = "OPEN"
    /\ breaker' = HalfOpened(breaker)
    /\ UNCHANGED <<ahead, response, status, minutes>>

-----------------------------------------------------------------------------
(* Properties. *)

(* A caller is put off with the formula although the ML service was not     *)
(* asked only after real trouble with it, its own or another caller's.      *)
FastFailForAReason ==
    (\E c \in Call : status[c] = "answered" /\ response[c] = NoResponse)
    => \E c \in Call : response[c].kind \in {"5xx", "network", "timeout"}
=============================================================================
