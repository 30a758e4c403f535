------------------------ MODULE CircuitBreakerProofs ------------------------
(***************************************************************************)
(* What the proofs about the two clients need of their breakers, for every *)
(* setting of the thresholds.                                              *)
(***************************************************************************)
EXTENDS CircuitBreaker, TLAPS

(* The breaker stays a breaker, and only a failure makes it count one. *)
LEMMA RecordedBreaker ==
    ASSUME NEW b \in BreakerState, NEW n \in {0, 1}
    PROVE  /\ Recorded(b, n) \in BreakerState
           /\ n = 0 /\ b.failed = 0 =>
                \/ Recorded(b, n).failed = 0 /\ Recorded(b, n).circuit = b.circuit
                \/ Recorded(b, n) = ClosedBreaker
<1> DEFINE total == b.total + 1
           failed == b.failed + n
<1>1. total \in Nat \ {0} /\ failed \in Nat
    BY DEF BreakerState
<1>2. OpenBreaker \in BreakerState /\ ClosedBreaker \in BreakerState
    BY DEF OpenBreaker, ClosedBreaker, BreakerState
<1>3. [b EXCEPT !.total = total, !.failed = failed] \in BreakerState
    BY <1>1 DEF BreakerState
<1>4. failed = 0 => ~(failed * 100 >= ErrorThreshold * total)
  <2>1. ErrorThreshold \in Nat \ {0}
      BY BreakerAssumption
  <2>2. ErrorThreshold * total > 0
      BY <1>1, <2>1
  <2> QED BY <2>2, <1>1, <2>1
<1> HIDE DEF total, failed
<1>5. Recorded(b, n) = IF total >= VolumeThreshold /\ failed * 100 >= ErrorThreshold * total
                       THEN OpenBreaker
                       ELSE IF total >= VolumeThreshold THEN ClosedBreaker
                       ELSE [b EXCEPT !.total = total, !.failed = failed]
    BY DEF Recorded, total, failed
<1>6. n = 0 /\ b.failed = 0 => failed = 0
    BY DEF failed
<1>7. failed = 0 => [b EXCEPT !.total = total, !.failed = failed].failed = 0
                 /\ [b EXCEPT !.total = total, !.failed = failed].circuit = b.circuit
    BY DEF BreakerState
<1> QED BY <1>2, <1>3, <1>4, <1>5, <1>6, <1>7

(* How a breaker in one of its states moves on. *)
LEMMA BreakerMoves ==
    ASSUME NEW b \in BreakerState
    PROVE  /\ AfterFailure(b) \subseteq BreakerState
           /\ AfterExempt(b) \subseteq BreakerState
           /\ AfterSuccess(b) \subseteq AfterExempt(b)
           /\ HalfOpened(b) \in BreakerState
           /\ b.failed = 0 /\ b.circuit = "CLOSED" =>
                \A d \in AfterExempt(b) : d.failed = 0 /\ d.circuit = "CLOSED"
<1>1. b.circuit \in {"CLOSED", "OPEN", "HALF_OPEN"}
    BY DEF BreakerState
<1>2. OpenBreaker \in BreakerState /\ ClosedBreaker \in BreakerState
      /\ ClosedBreaker.failed = 0 /\ ClosedBreaker.circuit = "CLOSED"
    BY DEF OpenBreaker, ClosedBreaker, BreakerState
<1>3. HalfOpened(b) \in BreakerState
    BY DEF HalfOpened, BreakerState
<1>4. AfterFailure(b) \subseteq BreakerState
    BY <1>1, <1>2, RecordedBreaker DEF AfterFailure
<1>5. AfterSuccess(b) \subseteq BreakerState
    BY <1>1, <1>2, RecordedBreaker DEF AfterSuccess
<1>6. ASSUME b.failed = 0, b.circuit = "CLOSED", NEW d \in AfterSuccess(b)
      PROVE  d.failed = 0 /\ d.circuit = "CLOSED"
    BY <1>2, <1>6, RecordedBreaker DEF AfterSuccess
<1> QED BY <1>3, <1>4, <1>5, <1>6 DEF AfterExempt
=============================================================================
