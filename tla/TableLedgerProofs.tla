--------------------------- MODULE TableLedgerProofs ---------------------------
(***************************************************************************)
(* Proofs about RestaurantClient and TableLedger, for every number of      *)
(* calls, handlers, tables and people, and every setting of the breaker.   *)
(*                                                                         *)
(* The client is a remote call to its users, and it reports the service    *)
(* unavailable only after trouble with it.  On that the handlers build:    *)
(* the restaurant service counts everybody of a party that is seated, and  *)
(* a cancellation gives back no more than was taken.  In between is what   *)
(* this takes of sums, and of the division of a party over its tables.     *)
(***************************************************************************)
EXTENDS TableLedger, CircuitBreakerProofs, FiniteSetTheorems, WellFoundedInduction, TLAPS

(* What has not been asked has not been done, what has not been served      *)
(* neither, and a response that reports success reports the truth.          *)
EffectsAreAsked ==
    \A c \in Call :
        /\ answer[c] = "none" =>
               request[c] = "none" /\ response[c] = "none" /\ ~effect[c]
        /\ request[c] = "sent" =>
               ~effect[c] /\ answer[c] # "none" /\ response[c] \in {"none", "timeout"}
        /\ response[c] = "success" => effect[c]

(* A breaker that counts a failure, or has tripped, has met trouble. *)
Met == \E c \in Call : response[c] \in Trouble

FailuresAreTrouble ==
    breaker.failed > 0 \/ breaker.circuit # "CLOSED" => Met

Inv == TypeOK /\ EffectsAreAsked /\ FailuresAreTrouble /\ UnavailableForAReason

-----------------------------------------------------------------------------
(* No call has been made in the beginning. *)
LEMMA InitInv == Init => Inv
<1> SUFFICES ASSUME Init PROVE Inv
    OBVIOUS
<1>1. ClosedBreaker \in BreakerState /\ ClosedBreaker.failed = 0
      /\ ClosedBreaker.circuit = "CLOSED"
    BY DEF ClosedBreaker, BreakerState
<1> QED BY <1>1 DEF Init, Inv, TypeOK, EffectsAreAsked, FailuresAreTrouble, UnavailableForAReason

(* What a response is made of. *)
LEMMA Blame ==
    ASSUME NEW seen \in Response \union {"timeout"}
    PROVE  /\ CheckIsFailure(seen) => seen \in Trouble
           /\ Outcome(seen) \in Answers
           /\ Outcome(seen) = "unavailable" => seen \in Trouble
           /\ Outcome(seen) = "ok" => seen = "success"
<1>1. UpstreamStatus("4xx") \in 400..499
    BY DEF UpstreamStatus
<1> QED BY <1>1 DEF CheckIsFailure, Outcome, Answers, Response, Trouble

(* Calls and breakers keep their types. *)
LEMMA TypeStep == TypeOK /\ [Next]_vars => TypeOK'
<1> SUFFICES ASSUME TypeOK, [Next]_vars PROVE TypeOK'
    OBVIOUS
<1>1. ASSUME NEW c \in Call, NEW op \in Operation, Begin(c, op) PROVE TypeOK'
    BY <1>1 DEF Begin, TypeOK, Answers
<1>2. ASSUME NEW c \in Call, Receive(c) PROVE TypeOK'
  <2>1. response[c] \in Response \union {"timeout"}
      BY <1>2 DEF Receive, TypeOK
  <2>2. Outcome(response[c]) \in Answers
      BY <2>1, Blame
  <2>3. breaker' \in BreakerState
      BY <1>2, BreakerMoves DEF Receive, TypeOK
  <2> QED BY <1>2, <2>2, <2>3 DEF Receive, TypeOK
<1>3. ASSUME NEW c \in Call, TimeOut(c) PROVE TypeOK'
  <2>1. Outcome("timeout") \in Answers
      BY Blame
  <2>2. breaker' \in BreakerState
      BY <1>3, BreakerMoves DEF TimeOut, TypeOK
  <2> QED BY <1>3, <2>1, <2>2 DEF TimeOut, TypeOK
<1>4. ASSUME NEW c \in Call, Serve(c) PROVE TypeOK'
    BY <1>4 DEF Serve, TypeOK
<1>5. ASSUME Reset PROVE TypeOK'
    BY <1>5, BreakerMoves DEF Reset, TypeOK
<1>6. ASSUME UNCHANGED vars PROVE TypeOK'
    BY <1>6 DEF vars, TypeOK
<1> QED BY <1>1, <1>2, <1>3, <1>4, <1>5, <1>6 DEF Next

(* The restaurant service does only what it was asked. *)
LEMMA EffectsAreAskedStep == TypeOK /\ EffectsAreAsked /\ [Next]_vars => EffectsAreAsked'
<1> SUFFICES ASSUME TypeOK, EffectsAreAsked, [Next]_vars PROVE EffectsAreAsked'
    OBVIOUS
<1>1. ASSUME NEW c \in Call, NEW op \in Operation, Begin(c, op) PROVE EffectsAreAsked'
    BY <1>1 DEF Begin, TypeOK, EffectsAreAsked
<1>2. ASSUME NEW c \in Call, Receive(c) PROVE EffectsAreAsked'
  <2>1. Outcome(response[c]) \in Answers
      BY <1>2, Blame DEF Receive, TypeOK
  <2> QED BY <1>2, <2>1 DEF Receive, TypeOK, EffectsAreAsked, Answers
<1>3. ASSUME NEW c \in Call, TimeOut(c) PROVE EffectsAreAsked'
  <2>1. Outcome("timeout") \in Answers
      BY Blame
  <2> QED BY <1>3, <2>1 DEF TimeOut, TypeOK, EffectsAreAsked, Answers
<1>4. ASSUME NEW c \in Call, Serve(c) PROVE EffectsAreAsked'
    BY <1>4 DEF Serve, TypeOK, EffectsAreAsked
<1>5. ASSUME Reset \/ UNCHANGED vars PROVE EffectsAreAsked'
    BY <1>5 DEF Reset, vars, EffectsAreAsked
<1> QED BY <1>1, <1>2, <1>3, <1>4, <1>5 DEF Next

(* Trouble once met is not forgotten. *)
LEMMA MetStays == TypeOK /\ EffectsAreAsked /\ [Next]_vars /\ Met => Met'
<1> SUFFICES ASSUME TypeOK, EffectsAreAsked, [Next]_vars, Met PROVE Met'
    OBVIOUS
<1> PICK c \in Call : response[c] \in Trouble
    BY DEF Met
<1>1. ASSUME NEW d \in Call, TimeOut(d) PROVE response'[c] \in Trouble
    BY <1>1 DEF TimeOut, TypeOK, Trouble
<1>2. ASSUME NEW d \in Call, Serve(d) PROVE response'[c] \in Trouble
    BY <1>2 DEF Serve, TypeOK, EffectsAreAsked, Trouble
<1>3. ASSUME \A d \in Call : ~TimeOut(d) /\ ~Serve(d) PROVE response' = response
    BY <1>3 DEF Next, Begin, Receive, Reset, vars
<1> QED BY <1>1, <1>2, <1>3 DEF Met

(* A breaker counts only failures that are trouble of the service. *)
LEMMA FailuresAreTroubleStep == Inv /\ [Next]_vars => FailuresAreTrouble'
<1> SUFFICES ASSUME Inv, [Next]_vars PROVE FailuresAreTrouble'
    OBVIOUS
<1>0. breaker'.failed \in Nat
    BY TypeStep DEF Inv, TypeOK, BreakerState
<1> SUFFICES ASSUME ~Met' PROVE breaker'.failed = 0 /\ breaker'.circuit = "CLOSED"
    BY <1>0 DEF FailuresAreTrouble
<1>1. breaker \in BreakerState /\ breaker.failed = 0 /\ breaker.circuit = "CLOSED"
    BY MetStays DEF Inv, FailuresAreTrouble, TypeOK, BreakerState
<1>2. ASSUME NEW c \in Call, Receive(c) PROVE breaker' \in AfterExempt(breaker)
  <2>1. response' = response /\ response[c] \in Response \union {"timeout"}
      BY <1>2 DEF Receive, Inv, TypeOK
  <2>2. ~CheckIsFailure(response[c])
      BY <2>1, Blame DEF Met
  <2> QED BY <1>1, <1>2, <2>2, BreakerMoves DEF Receive
<1>3. ASSUME NEW c \in Call, TimeOut(c) PROVE FALSE
    BY <1>3 DEF TimeOut, Inv, TypeOK, Met, Trouble
<1>4. ASSUME Reset PROVE FALSE
    BY <1>1, <1>4 DEF Reset
<1>5. ASSUME \A c \in Call : ~Receive(c) /\ ~TimeOut(c), ~Reset PROVE breaker' = breaker
    BY <1>5 DEF Next, Begin, Serve, vars
<1> QED BY <1>1, <1>2, <1>3, <1>4, <1>5, BreakerMoves

(* A call that is turned away had trouble, its own or of calls before it. *)
LEMMA UnavailableStep == Inv /\ [Next]_vars => UnavailableForAReason'
<1> SUFFICES ASSUME Inv, [Next]_vars, ~Met', NEW c \in Call PROVE answer'[c] # "unavailable"
    BY DEF UnavailableForAReason, Met
<1>1. breaker.circuit = "CLOSED" /\ answer[c] # "unavailable"
    BY MetStays DEF Inv, FailuresAreTrouble, UnavailableForAReason, Met
<1>2. ASSUME NEW d \in Call, NEW op \in Operation, Begin(d, op) PROVE answer'[c] # "unavailable"
    BY <1>1, <1>2 DEF Begin, MayReject, Inv, TypeOK
<1>3. ASSUME NEW d \in Call, Receive(d) PROVE answer'[c] # "unavailable"
  <2>1. response' = response /\ response[d] \in Response \union {"timeout"}
      BY <1>3 DEF Receive, Inv, TypeOK
  <2>2. Outcome(response[d]) # "unavailable"
      BY <2>1, Blame DEF Met
  <2> QED BY <1>1, <1>3, <2>2 DEF Receive, Inv, TypeOK
<1>4. ASSUME NEW d \in Call, TimeOut(d) PROVE FALSE
    BY <1>4 DEF TimeOut, Inv, TypeOK, Met, Trouble
<1>5. ASSUME NEW d \in Call, Serve(d) PROVE answer'[c] # "unavailable"
    BY <1>1, <1>5 DEF Serve
<1>6. ASSUME Reset \/ UNCHANGED vars PROVE answer'[c] # "unavailable"
    BY <1>1, <1>6 DEF Reset, vars
<1> QED BY <1>2, <1>3, <1>4, <1>5, <1>6 DEF Next

(* The parts of the invariant hold together. *)
LEMMA Invariant == Spec => []Inv
<1>1. Inv /\ [Next]_vars => Inv'
    BY TypeStep, EffectsAreAskedStep, FailuresAreTroubleStep, UnavailableStep DEF Inv
<1> QED BY InitInv, <1>1, PTL DEF Spec

-----------------------------------------------------------------------------
(* The client never reports the service unavailable, nor fast-fails one     *)
(* operation because of another, unless a call met trouble with it.         *)
THEOREM UnavailableForAReasonHolds == Spec => []UnavailableForAReason
<1>1. Inv => UnavailableForAReason
    BY DEF Inv
<1> QED BY <1>1, Invariant, PTL

(* The client implements a remote call that takes effect at most once.      *)
THEOREM ImplementsRemoteCallHolds == Spec => ImplementsRemoteCall
<1>1. Init => Remote!Init
    BY DEF Init, Remote!Init
<1>2. Inv /\ [Next]_vars => [Remote!Next]_<<answer, effect>>
  <2> SUFFICES ASSUME Inv, [Next]_vars PROVE Remote!Next \/ UNCHANGED <<answer, effect>>
      OBVIOUS
  <2> USE DEF Remote!Next
  <2>1. ASSUME NEW c \in Call, NEW op \in Operation, Begin(c, op)
        PROVE  Remote!Next
    <3>1. CASE answer' = [answer EXCEPT ![c] = "pending"] /\ UNCHANGED effect
      <4>1. Remote!Begin(c)
          BY <2>1, <3>1 DEF Begin, Remote!Begin
      <4> QED BY <4>1
    <3>2. CASE answer' = [answer EXCEPT ![c] = "unavailable"] /\ UNCHANGED effect
      <4>1. Remote!Answer(c, "unavailable")
          BY <2>1, <3>2 DEF Begin, Remote!Answer, Inv, TypeOK
      <4> QED BY <4>1 DEF Remote!Answers
    <3>3. CASE answer' = [answer EXCEPT ![c] = "ok"] /\ effect' = [effect EXCEPT ![c] = TRUE]
      <4>1. Remote!Answer(c, "ok")
          BY <2>1, <3>3 DEF Begin, Remote!Answer
      <4> QED BY <4>1 DEF Remote!Answers
    <3> QED BY <2>1, <3>1, <3>2, <3>3 DEF Begin
  <2>2. ASSUME NEW c \in Call, Receive(c) \/ TimeOut(c) PROVE Remote!Next
    <3> DEFINE seen == IF Receive(c) THEN response[c] ELSE "timeout"
    <3>1. seen \in Response \union {"timeout"}
        BY <2>2 DEF Receive, Inv, TypeOK
    <3>2. /\ answer[c] = "pending"
          /\ answer' = [answer EXCEPT ![c] = Outcome(seen)]
          /\ effect' = effect
        BY <2>2 DEF Receive, TimeOut
    <3>3. Outcome(seen) = "ok" => effect[c]
        BY <3>1, Blame DEF Inv, EffectsAreAsked
    <3>4. effect[c] \in BOOLEAN /\ effect' = [effect EXCEPT ![c] = effect[c]]
        BY <3>2 DEF Inv, TypeOK
    <3>5. Remote!Answer(c, Outcome(seen))
        BY <3>2, <3>3, <3>4 DEF Remote!Answer
    <3>6. Outcome(seen) \in Remote!Answers
        BY <3>1, Blame DEF Answers, Remote!Answers
    <3> QED BY <3>5, <3>6
  <2>3. ASSUME NEW c \in Call, Serve(c) PROVE Remote!Next \/ UNCHANGED <<answer, effect>>
    <3>1. ~effect[c] /\ answer[c] # "none" /\ answer' = answer
        BY <2>3 DEF Serve, Inv, EffectsAreAsked
    <3>2. PICK done \in BOOLEAN : effect' = [effect EXCEPT ![c] = done]
        BY <2>3 DEF Serve
    <3>3. CASE done = TRUE
      <4>1. Remote!TakeEffect(c)
          BY <3>1, <3>2, <3>3 DEF Remote!TakeEffect
      <4> QED BY <4>1
    <3>4. CASE done = FALSE
        BY <3>1, <3>2, <3>4 DEF Inv, TypeOK
    <3> QED BY <3>3, <3>4
  <2>4. ASSUME Reset \/ UNCHANGED vars PROVE UNCHANGED <<answer, effect>>
      BY <2>4 DEF Reset, vars
  <2> QED BY <2>1, <2>2, <2>3, <2>4 DEF Next
<1> QED BY <1>1, <1>2, Invariant, PTL DEF Spec, ImplementsRemoteCall, Remote!Spec

(* A 404 or 4xx comes from a call that did nothing, and nothing else is     *)
(* reported as one.                                                         *)
RefusalsAreServed ==
    \A c \in Call :
        /\ response[c] \in {"404", "4xx"} => ~effect[c]
        /\ answer[c] \in {"notFound", "rejected"} => response[c] \in {"404", "4xx"}

(* A refusal is the answer of the service, which then did nothing. *)
LEMMA RefusalsAreServedStep ==
    TypeOK /\ EffectsAreAsked /\ RefusalsAreServed /\ [Next]_vars => RefusalsAreServed'
<1> SUFFICES ASSUME TypeOK, EffectsAreAsked, RefusalsAreServed, [Next]_vars
             PROVE  RefusalsAreServed'
    OBVIOUS
<1>1. ASSUME NEW c \in Call, NEW op \in Operation, Begin(c, op) PROVE RefusalsAreServed'
    BY <1>1 DEF Begin, TypeOK, EffectsAreAsked, RefusalsAreServed
<1>2. ASSUME NEW c \in Call, Receive(c) PROVE RefusalsAreServed'
    BY <1>2 DEF Receive, Outcome, TypeOK, Response, RefusalsAreServed
<1>3. ASSUME NEW c \in Call, TimeOut(c) PROVE RefusalsAreServed'
    BY <1>3 DEF TimeOut, Outcome, TypeOK, RefusalsAreServed
<1>4. ASSUME NEW c \in Call, Serve(c) PROVE RefusalsAreServed'
    BY <1>4 DEF Serve, TypeOK, EffectsAreAsked, RefusalsAreServed
<1>5. ASSUME Reset \/ UNCHANGED vars PROVE RefusalsAreServed'
    BY <1>5 DEF Reset, vars, RefusalsAreServed
<1> QED BY <1>1, <1>2, <1>3, <1>4, <1>5 DEF Next

(* A call that is answered with a 404 or 4xx changes nothing, not even      *)
(* later.                                                                   *)
THEOREM RejectedHasNoEffectHolds == Spec => []RejectedHasNoEffect
<1>1. Init => RefusalsAreServed
    BY DEF Init, RefusalsAreServed
<1>2. Inv => TypeOK /\ EffectsAreAsked
    BY DEF Inv
<1>3. RefusalsAreServed => RejectedHasNoEffect
    BY DEF RefusalsAreServed, RejectedHasNoEffect
<1> QED BY <1>1, <1>2, <1>3, Invariant, RefusalsAreServedStep, PTL DEF Spec

-----------------------------------------------------------------------------
(* The handlers of TableLedger use the client as its own specification      *)
(* allows, so that what is proved of the client holds of them; and how      *)
(* unevenly a party may be divided over tables.                             *)

(* A handler makes one call of the client at a time, or none. *)
LEMMA LedgerStep == [LedgerNext]_<<vars, ledgerVars>> => [Next]_vars
<1> SUFFICES ASSUME [LedgerNext]_<<vars, ledgerVars>> PROVE Next \/ UNCHANGED vars
    OBVIOUS
<1>1. ASSUME NEW c \in Call, NEW op \in Operation, Begin(c, op) PROVE Next
    BY <1>1 DEF Next
<1>2. {"getRestaurantStatus", "checkAvailability", "assignTables", "releaseTables"}
          \subseteq Operation
    BY DEF Operation
<1>3. CASE \E c \in Call : Inquire(c)
    BY <1>1, <1>2, <1>3 DEF Inquire
<1>4. CASE \E c \in Call : Seat(c) \/ Assign(c)
    BY <1>1, <1>2, <1>4 DEF Seat, Assign
<1>5. CASE \E c \in Call : AssignLoad(c) \/ SeatCommit(c) \/ CancelLoad(c)
                              \/ CancelUnlink(c) \/ CancelCommit(c)
    BY <1>5 DEF AssignLoad, SeatCommit, CancelLoad, CancelUnlink, CancelCommit
<1>6. CASE \E c \in Call : CancelRead(c)
    BY <1>1, <1>2, <1>6 DEF CancelRead
<1>7. CASE Client
    BY <1>7 DEF Client, Next
<1> QED BY <1>3, <1>4, <1>5, <1>6, <1>7 DEF LedgerNext, vars

(* What the handlers rely on: the client takes effect at most once, says    *)
(* "unavailable" for a reason, and a 4xx of it changed nothing.             *)
THEOREM LedgerReliesOnClient ==
    LedgerSpec => /\ []UnavailableForAReason
                  /\ []RejectedHasNoEffect
                  /\ ImplementsRemoteCall
<1>1. LedgerInit => Init
    BY DEF LedgerInit
<1>2. LedgerSpec => Spec
    BY <1>1, LedgerStep, PTL DEF LedgerSpec, Spec
<1> QED BY <1>2, UnavailableForAReasonHolds, RejectedHasNoEffectHolds,
           ImplementsRemoteCallHolds, PTL

-----------------------------------------------------------------------------
(* Every table that is named gets somebody, and no table gets more than one *)
(* person more than another, for any party and any number of tables.        *)
THEOREM ShareIsEven ==
    ASSUME NEW people \in Nat, NEW tables \in Nat \ {0},
           NEW i \in 1..tables, NEW j \in 1..tables
    PROVE  /\ Share(people, tables, i) \in Nat \ {0}
           /\ Share(people, tables, i) - Share(people, tables, j) \in {-1, 0, 1}
           /\ i <= j => Share(people, tables, i) >= Share(people, tables, j)
<1> DEFINE each == people \div tables
           over == people % tables
<1>1. each \in Int /\ over \in Int
    OBVIOUS
<1> HIDE DEF each, over
<1>2. /\ Share(people, tables, i) = AtLeastOne(each + (IF i <= over THEN 1 ELSE 0))
      /\ Share(people, tables, j) = AtLeastOne(each + (IF j <= over THEN 1 ELSE 0))
    BY DEF Share, each, over
<1> QED BY <1>1, <1>2 DEF AtLeastOne

-----------------------------------------------------------------------------
(* Sums over finite sets.                                                   *)

(* The total weight of a finite set, as MapThenSumSet counts it: g is a      *)
(* function on the subsets of S that takes away one chosen element after     *)
(* the other.  It is shown to exist, and not to depend on what is chosen.    *)
Weighs(g, f, S) ==
    g = [s \in SUBSET S |->
            IF s = {} THEN 0
            ELSE f[CHOOSE x \in s : TRUE] + g[s \ {CHOOSE x \in s : TRUE}]]

SumOf(f, S) == (CHOOSE g : Weighs(g, f, S))[S]

(* Proofs by induction over the subsets of a finite set take a least one     *)
(* for which the claim fails.                                               *)
LEMMA LeastSubset ==
    ASSUME NEW F, IsFiniteSet(F), NEW U \in SUBSET SUBSET F, U # {}
    PROVE  \E s \in U : \A t \in U : t \subseteq s => t = s
<1>1. IsWellFoundedOn(StrictSubsetOrdering(F), FiniteSubsetsOf(F))
  BY FS_StrictSubsetOrderingWellFounded
<1>2. U \subseteq FiniteSubsetsOf(F)
  BY FS_Subset DEF FiniteSubsetsOf
<1>3. \E s \in U : \A t \in U : <<t, s>> \notin StrictSubsetOrdering(F)
  BY <1>1, <1>2, WFMin
<1> QED
  BY <1>3 DEF StrictSubsetOrdering

(* Two such functions agree where both are defined. *)
LEMMA WeighsAgree ==
    ASSUME NEW f, NEW S, NEW T, IsFiniteSet(S), NEW g, NEW h,
           Weighs(g, f, S), Weighs(h, f, T), NEW r \in SUBSET (S \intersect T)
    PROVE  g[r] = h[r]
<1> DEFINE bad == {s \in SUBSET (S \intersect T) : g[s] # h[s]}
<1> SUFFICES bad = {}
  OBVIOUS
<1>1. bad \in SUBSET SUBSET S
  OBVIOUS
<1> HIDE DEF bad
<1>2. SUFFICES ASSUME bad # {} PROVE FALSE
  OBVIOUS
<1>3. PICK s \in bad : \A t \in bad : t \subseteq s => t = s
  BY <1>1, <1>2, LeastSubset
<1>4. s \in SUBSET S /\ s \in SUBSET T /\ g[s] # h[s]
  BY <1>3 DEF bad
<1>5. s # {}
  BY <1>4 DEF Weighs
<1> DEFINE x == CHOOSE x \in s : TRUE
<1>6. x \in s
  BY <1>5
<1>7. g[s \ {x}] = h[s \ {x}]
  BY <1>3, <1>4, <1>6 DEF bad
<1>8. g[s] = f[x] + g[s \ {x}] /\ h[s] = f[x] + h[s \ {x}]
  BY <1>4, <1>5 DEF Weighs
<1> QED
  BY <1>4, <1>7, <1>8

(* There is one for every finite set, put together from those for its        *)
(* proper subsets.                                                          *)
LEMMA WeighsExists ==
    ASSUME NEW f, NEW F, IsFiniteSet(F) PROVE \E g : Weighs(g, f, F)
<1> DEFINE bad == {s \in SUBSET F : ~ \E g : Weighs(g, f, s)}
<1> SUFFICES bad = {}
  OBVIOUS
<1>1. bad \in SUBSET SUBSET F
  OBVIOUS
<1> HIDE DEF bad
<1>2. SUFFICES ASSUME bad # {} PROVE FALSE
  OBVIOUS
<1>3. PICK s \in bad : \A t \in bad : t \subseteq s => t = s
  BY <1>1, <1>2, LeastSubset
<1>4. s \in SUBSET F /\ ~ \E g : Weighs(g, f, s)
  BY <1>3 DEF bad
<1>5. IsFiniteSet(s)
  BY <1>4, FS_Subset
<1> DEFINE part(t) == CHOOSE g : Weighs(g, f, t)
           x(t) == CHOOSE x \in t : TRUE
           g == [t \in SUBSET s |-> IF t = {} THEN 0 ELSE f[x(t)] + part(t \ {x(t)})[t \ {x(t)}]]
<1>6. ASSUME NEW t \in SUBSET s, t # s PROVE Weighs(part(t), f, t)
  <2>1. \E h : Weighs(h, f, t)
    BY <1>3, <1>4, <1>6 DEF bad
  <2> HIDE DEF Weighs
  <2> QED
    BY <2>1
<1>7. ASSUME NEW t \in SUBSET s, t # s PROVE g[t] = part(t)[t]
  <2>1. CASE t = {}
    <3>1. Weighs(part(t), f, t)
      BY <1>6, <1>7
    <3> HIDE DEF part
    <3> QED
      BY <2>1, <3>1 DEF Weighs
  <2>2. CASE t # {}
    <3>1. x(t) \in t
      BY <2>2
    <3>2. Weighs(part(t), f, t) /\ Weighs(part(t \ {x(t)}), f, t \ {x(t)})
      BY <1>6, <1>7, <3>1
    <3>3. part(t)[t] = f[x(t)] + part(t)[t \ {x(t)}]
      BY <3>2, <2>2 DEF Weighs
    <3>4. IsFiniteSet(t)
      BY <1>5, FS_Subset
    <3>5. t \ {x(t)} \in SUBSET (t \intersect (t \ {x(t)}))
      OBVIOUS
    <3> HIDE DEF part, x
    <3>6. part(t)[t \ {x(t)}] = part(t \ {x(t)})[t \ {x(t)}]
      BY <3>2, <3>4, <3>5, WeighsAgree
    <3> QED
      BY <3>3, <3>6, <2>2
  <2> QED
    BY <2>1, <2>2
<1>8. ASSUME NEW t \in SUBSET s
      PROVE  g[t] = IF t = {} THEN 0 ELSE f[x(t)] + g[t \ {x(t)}]
  <2>1. CASE t # {}
    <3>1. x(t) \in t
      BY <2>1
    <3> HIDE DEF part, x
    <3>2. t \ {x(t)} \in SUBSET s /\ t \ {x(t)} # s
      BY <3>1
    <3>3. g[t \ {x(t)}] = part(t \ {x(t)})[t \ {x(t)}]
      BY <3>2, <1>7
    <3>4. g[t] = f[x(t)] + part(t \ {x(t)})[t \ {x(t)}]
      BY <2>1
    <3> QED
      BY <2>1, <3>3, <3>4
  <2>2. CASE t = {}
    <3> HIDE DEF part, x
    <3> QED
      BY <2>2
  <2> HIDE DEF g, part, x
  <2> QED
    BY <2>1, <2>2
<1>9. Weighs(g, f, s)
  <2>1. g = [t \in SUBSET s |-> g[t]]
    OBVIOUS
  <2> HIDE DEF g, part
  <2>2. g = [t \in SUBSET s |-> IF t = {} THEN 0 ELSE f[x(t)] + g[t \ {x(t)}]]
    <3> HIDE DEF x
    <3> QED
      BY <2>1, <1>8
  <2> QED
    BY <2>2 DEF Weighs
<1> QED
  BY <1>4, <1>9

(* What holds of nothing, and of a set if it holds with any element taken    *)
(* away, holds of a finite set.                                             *)
LEMMA SubsetInduction ==
    ASSUME NEW F, IsFiniteSet(F), NEW P, {} \in P,
           \A s \in SUBSET F : \A x \in s : s \ {x} \in P => s \in P
    PROVE  F \in P
<1> SUFFICES ASSUME F \notin P PROVE FALSE
  OBVIOUS
<1> DEFINE U == (SUBSET F) \ P
<1>1. PICK s \in U : \A t \in U : t \subseteq s => t = s
  <2>1. U \in SUBSET SUBSET F /\ U # {}
    OBVIOUS
  <2> HIDE DEF U
  <2> QED
    BY <2>1, LeastSubset
<1>2. PICK x \in s : TRUE
  OBVIOUS
<1>3. s \ {x} \in P
  BY <1>1
<1> QED
  BY <1>1, <1>3

(* A sum is zero, or what was chosen and the sum of the others. *)
LEMMA SumUnfolds ==
    ASSUME NEW f, NEW S, IsFiniteSet(S)
    PROVE  /\ SumOf(f, {}) = 0
           /\ S # {} => SumOf(f, S) = f[CHOOSE x \in S : TRUE]
                                      + SumOf(f, S \ {CHOOSE x \in S : TRUE})
<1> DEFINE G(T) == CHOOSE g : Weighs(g, f, T)
           x == CHOOSE x \in S : TRUE
<1>1. ASSUME NEW T, IsFiniteSet(T) PROVE Weighs(G(T), f, T)
  <2>1. \E g : Weighs(g, f, T)
    BY <1>1, WeighsExists
  <2> HIDE DEF Weighs
  <2> QED
    BY <2>1
<1>2. Weighs(G({}), f, {})
  BY <1>1, FS_EmptySet
<1>3. Weighs(G(S), f, S) /\ Weighs(G(S \ {x}), f, S \ {x})
  BY <1>1, FS_RemoveElement
<1>4. /\ SumOf(f, {}) = G({})[{}]
      /\ SumOf(f, S) = G(S)[S]
      /\ SumOf(f, S \ {x}) = G(S \ {x})[S \ {x}]
  BY DEF SumOf
<1> HIDE DEF G
<1>5. G({})[{}] = 0
  BY <1>2 DEF Weighs
<1>6. S # {} => G(S)[S] = f[x] + G(S)[S \ {x}]
  BY <1>3 DEF Weighs
<1>7. G(S)[S \ {x}] = G(S \ {x})[S \ {x}]
  <2> DEFINE T == S \ {x}
  <2>1. T \in SUBSET (S \intersect T)
    OBVIOUS
  <2>2. Weighs(G(S), f, S) /\ Weighs(G(T), f, T)
    BY <1>3
  <2> HIDE DEF x, T, Weighs
  <2>3. G(S)[T] = G(T)[T]
    BY <2>1, <2>2, WeighsAgree
  <2> QED
    BY <2>3 DEF T
<1> QED
  BY <1>4, <1>5, <1>6, <1>7

(* Natural numbers add up to a natural number. *)
LEMMA SumType ==
    ASSUME NEW f, NEW S, IsFiniteSet(S), \A x \in S : f[x] \in Nat
    PROVE  SumOf(f, S) \in Nat
<1> DEFINE bad == {s \in SUBSET S : SumOf(f, s) \notin Nat}
<1>1. SUFFICES ASSUME bad # {} PROVE FALSE
  OBVIOUS
<1>2. PICK s \in bad : \A t \in bad : t \subseteq s => t = s
  <2>1. bad \in SUBSET SUBSET S
    OBVIOUS
  <2> HIDE DEF bad
  <2> QED
    BY <1>1, <2>1, LeastSubset
<1> DEFINE x == CHOOSE x \in s : TRUE
<1>3. IsFiniteSet(s) /\ s # {}
  <2>1. IsFiniteSet(s) /\ SumOf(f, s) \notin Nat
    BY FS_Subset
  <2>2. SumOf(f, {}) = 0
    BY SumUnfolds
  <2> QED
    BY <2>1, <2>2
<1>4. x \in s
  BY <1>3
<1>5. SumOf(f, s \ {x}) \in Nat
  BY <1>2, <1>4
<1>6. SumOf(f, s) = f[x] + SumOf(f, s \ {x})
  BY <1>3, SumUnfolds
<1> QED
  BY <1>4, <1>5, <1>6

(* The element that is taken away first may be any. *)
LEMMA SumRemoves ==
    ASSUME NEW f, NEW S, IsFiniteSet(S), \A y \in S : f[y] \in Nat, NEW x \in S
    PROVE  SumOf(f, S) = f[x] + SumOf(f, S \ {x})
<1> DEFINE bad == {s \in SUBSET S : \E y \in s : SumOf(f, s) # f[y] + SumOf(f, s \ {y})}
<1>1. SUFFICES ASSUME bad # {} PROVE FALSE
  OBVIOUS
<1>2. PICK s \in bad : \A t \in bad : t \subseteq s => t = s
  <2>1. bad \in SUBSET SUBSET S
    OBVIOUS
  <2> HIDE DEF bad
  <2> QED
    BY <1>1, <2>1, LeastSubset
<1>3. PICK y \in s : SumOf(f, s) # f[y] + SumOf(f, s \ {y})
  OBVIOUS
<1> DEFINE c == CHOOSE z \in s : TRUE
<1>4. IsFiniteSet(s) /\ c \in s /\ s \in SUBSET S
  BY FS_Subset
<1>5. SumOf(f, s) = f[c] + SumOf(f, s \ {c})
  BY <1>4, SumUnfolds
<1>6. c # y
  BY <1>3, <1>5
<1> HIDE DEF c
<1>7. ASSUME NEW z \in s, NEW w \in s, w # z
      PROVE  SumOf(f, s \ {z}) = f[w] + SumOf(f, (s \ {z}) \ {w})
  <2>1. s \ {z} \in SUBSET S /\ s \ {z} \subseteq s /\ s \ {z} # s /\ w \in s \ {z}
    BY <1>4, <1>7
  <2>2. s \ {z} \notin bad
    BY <1>2, <2>1
  <2> QED
    BY <2>1, <2>2
<1>8. /\ SumOf(f, s \ {c}) = f[y] + SumOf(f, (s \ {c}) \ {y})
      /\ SumOf(f, s \ {y}) = f[c] + SumOf(f, (s \ {c}) \ {y})
  <2>1. (s \ {c}) \ {y} = (s \ {y}) \ {c}
    OBVIOUS
  <2> QED
    BY <1>3, <1>4, <1>6, <1>7, <2>1
<1>9. SumOf(f, (s \ {c}) \ {y}) \in Nat
  <2>1. IsFiniteSet((s \ {c}) \ {y}) /\ (s \ {c}) \ {y} \subseteq S
    BY <1>4, FS_Subset
  <2> QED
    BY <2>1, SumType
<1>10. f[c] \in Nat /\ f[y] \in Nat
  BY <1>3, <1>4
<1> HIDE DEF bad
<1> QED
  BY <1>3, <1>5, <1>8, <1>9, <1>10

(* More and larger numbers have a larger sum. *)
LEMMA SumGrows ==
    ASSUME NEW S, IsFiniteSet(S), NEW T \in SUBSET S, NEW f, NEW g,
           \A x \in S : g[x] \in Nat, \A x \in T : f[x] \in Nat /\ f[x] <= g[x]
    PROVE  SumOf(f, T) <= SumOf(g, S)
<1> DEFINE P == {s \in SUBSET S : SumOf(f, s \intersect T) <= SumOf(g, s)}
<1>1. {} \in P
  <2>1. {} \intersect T = {} /\ SumOf(f, {}) = 0 /\ SumOf(g, {}) = 0
    BY SumUnfolds
  <2> QED
    BY <2>1
<1>2. ASSUME NEW s \in SUBSET S, NEW x \in s, s \ {x} \in P PROVE s \in P
  <2>1. IsFiniteSet(s) /\ IsFiniteSet(s \intersect T) /\ IsFiniteSet(s \ {x})
        /\ IsFiniteSet((s \ {x}) \intersect T)
    BY FS_Subset
  <2>2. SumOf(g, s) = g[x] + SumOf(g, s \ {x}) /\ SumOf(g, s \ {x}) \in Nat /\ g[x] \in Nat
    BY <2>1, SumRemoves, SumType
  <2>3. SumOf(f, (s \ {x}) \intersect T) <= SumOf(g, s \ {x})
    BY <1>2
  <2>4. SumOf(f, (s \ {x}) \intersect T) \in Nat
    BY <2>1, SumType
  <2>5. CASE x \in T
    <3>1. x \in s \intersect T /\ (s \intersect T) \ {x} = (s \ {x}) \intersect T
      BY <2>5
    <3>2. SumOf(f, s \intersect T) = f[x] + SumOf(f, (s \intersect T) \ {x})
      BY <2>1, <3>1, SumRemoves
    <3>3. f[x] \in Nat /\ f[x] <= g[x]
      BY <2>5
    <3>4. SumOf(f, s \intersect T) <= SumOf(g, s)
      BY <2>2, <2>3, <2>4, <3>1, <3>2, <3>3
    <3> QED
      BY <3>4
  <2>6. CASE x \notin T
    <3>1. s \intersect T = (s \ {x}) \intersect T
      BY <2>6
    <3>2. SumOf(f, s \intersect T) = SumOf(f, (s \ {x}) \intersect T)
      BY <3>1
    <3> HIDE DEF P
    <3>3. SumOf(f, s \intersect T) <= SumOf(g, s)
      BY <2>2, <2>3, <2>4, <3>2
    <3> QED
      BY <3>3 DEF P
  <2> QED
    BY <2>5, <2>6
<1> HIDE DEF P
<1>3. S \in P
  BY <1>1, <1>2, SubsetInduction
<1> QED
  <2>1. S \intersect T = T
    OBVIOUS
  <2> QED
    BY <1>3, <2>1 DEF P

(* A sum depends on the numbers that are added only. *)
LEMMA SumSame ==
    ASSUME NEW S, IsFiniteSet(S), NEW f, NEW g, \A x \in S : f[x] \in Nat /\ f[x] = g[x]
    PROVE  SumOf(f, S) = SumOf(g, S)
<1>1. /\ \A x \in S : f[x] \in Nat /\ f[x] <= g[x]
      /\ \A x \in S : g[x] \in Nat /\ g[x] <= f[x]
  OBVIOUS
<1>2. SumOf(f, S) <= SumOf(g, S) /\ SumOf(g, S) <= SumOf(f, S)
  <2>1. S \in SUBSET S
    OBVIOUS
  <2> QED
    BY <1>1, <2>1, SumGrows
<1>3. SumOf(f, S) \in Nat /\ SumOf(g, S) \in Nat
  BY <1>1, SumType
<1> QED
  BY <1>2, <1>3

(* A sum is not less than any number in it. *)
LEMMA SumBounds ==
    ASSUME NEW f, NEW S, IsFiniteSet(S), \A y \in S : f[y] \in Nat, NEW x \in S
    PROVE  f[x] <= SumOf(f, S)
<1>1. SumOf(f, S) = f[x] + SumOf(f, S \ {x})
  BY SumRemoves
<1>2. SumOf(f, S \ {x}) \in Nat
  BY FS_Subset, SumType
<1> QED
  BY <1>1, <1>2

(* Sums are added number by number. *)
LEMMA SumAdds ==
    ASSUME NEW S, IsFiniteSet(S), NEW f, NEW g, NEW h,
           \A x \in S : f[x] \in Nat /\ g[x] \in Nat /\ h[x] = f[x] + g[x]
    PROVE  SumOf(h, S) = SumOf(f, S) + SumOf(g, S)
<1> DEFINE P == {s \in SUBSET S : SumOf(h, s) = SumOf(f, s) + SumOf(g, s)}
<1>1. {} \in P
  <2>1. SumOf(f, {}) = 0 /\ SumOf(g, {}) = 0 /\ SumOf(h, {}) = 0
    BY SumUnfolds
  <2> QED
    BY <2>1
<1>2. ASSUME NEW s \in SUBSET S, NEW x \in s, s \ {x} \in P PROVE s \in P
  <2>1. IsFiniteSet(s) /\ IsFiniteSet(s \ {x}) /\ s \ {x} \subseteq S
    BY FS_Subset
  <2>2. \A y \in s : f[y] \in Nat /\ g[y] \in Nat /\ h[y] \in Nat
    OBVIOUS
  <2>3. /\ SumOf(f, s) = f[x] + SumOf(f, s \ {x})
        /\ SumOf(g, s) = g[x] + SumOf(g, s \ {x})
        /\ SumOf(h, s) = h[x] + SumOf(h, s \ {x})
    BY <2>1, <2>2, SumRemoves
  <2>4. SumOf(f, s \ {x}) \in Nat /\ SumOf(g, s \ {x}) \in Nat
    BY <2>1, <2>2, SumType
  <2>5. SumOf(h, s \ {x}) = SumOf(f, s \ {x}) + SumOf(g, s \ {x})
    BY <1>2
  <2>6. f[x] \in Nat /\ g[x] \in Nat /\ h[x] = f[x] + g[x]
    OBVIOUS
  <2>7. SumOf(h, s) = SumOf(f, s) + SumOf(g, s)
    BY <2>3, <2>4, <2>5, <2>6
  <2> QED
    BY <2>7
<1> HIDE DEF P
<1>3. S \in P
  BY <1>1, <1>2, SubsetInduction
<1> QED
  BY <1>3 DEF P

(* The same number from everybody, and one more from some. *)
LEMMA SumWithExtra ==
    ASSUME NEW S, IsFiniteSet(S), NEW R \in SUBSET S, NEW q \in Nat, NEW f,
           \A x \in S : f[x] = q + (IF x \in R THEN 1 ELSE 0)
    PROVE  SumOf(f, S) = q * Cardinality(S) + Cardinality(R)
<1> DEFINE P == {s \in SUBSET S :
                   SumOf(f, s) = q * Cardinality(s) + Cardinality(s \intersect R)}
<1>1. {} \in P
  <2>1. SumOf(f, {}) = 0 /\ {} \intersect R = {} /\ Cardinality({}) = 0
    BY SumUnfolds, FS_EmptySet
  <2>2. SumOf(f, {}) = q * Cardinality({}) + Cardinality({} \intersect R)
    BY <2>1
  <2> QED
    BY <2>2
<1>2. ASSUME NEW s \in SUBSET S, NEW x \in s, s \ {x} \in P PROVE s \in P
  <2>1. IsFiniteSet(s) /\ IsFiniteSet(s \ {x}) /\ IsFiniteSet(s \intersect R)
    BY FS_Subset
  <2>2. \A y \in s : f[y] \in Nat
    OBVIOUS
  <2>3. SumOf(f, s) = f[x] + SumOf(f, s \ {x})
    BY <2>1, <2>2, SumRemoves
  <2>4. SumOf(f, s \ {x}) = q * Cardinality(s \ {x}) + Cardinality((s \ {x}) \intersect R)
    BY <1>2
  <2>5. /\ Cardinality(s \ {x}) \in Nat /\ Cardinality(s) \in Nat
        /\ Cardinality(s) = Cardinality(s \ {x}) + 1
    BY <2>1, FS_RemoveElement, FS_CardinalityType
  <2>6. /\ Cardinality(s \intersect R) = Cardinality((s \ {x}) \intersect R)
                                         + (IF x \in R THEN 1 ELSE 0)
        /\ Cardinality((s \ {x}) \intersect R) \in Nat
    <3>1. (s \ {x}) \intersect R = (s \intersect R) \ {x}
      OBVIOUS
    <3>2. /\ Cardinality((s \intersect R) \ {x}) = IF x \in s \intersect R
                                                   THEN Cardinality(s \intersect R) - 1
                                                   ELSE Cardinality(s \intersect R)
          /\ IsFiniteSet((s \intersect R) \ {x})
      BY <2>1, FS_RemoveElement
    <3>3. Cardinality(s \intersect R) \in Nat /\ Cardinality((s \intersect R) \ {x}) \in Nat
      BY <2>1, <3>2, FS_CardinalityType
    <3> QED
      BY <3>1, <3>2, <3>3
  <2>7. q * Cardinality(s) = q * Cardinality(s \ {x}) + q
    BY <2>5
  <2>8. SumOf(f, s) = q * Cardinality(s) + Cardinality(s \intersect R)
    <3>1. q * Cardinality(s \ {x}) \in Nat /\ f[x] = q + (IF x \in R THEN 1 ELSE 0)
      BY <2>5
    <3> QED
      BY <2>3, <2>4, <2>6, <2>7, <3>1
  <2> QED
    BY <2>8
<1> HIDE DEF P
<1>3. S \in P
  BY <1>1, <1>2, SubsetInduction
<1> QED
  <2>1. S \intersect R = R
    OBVIOUS
  <2> QED
    BY <1>3, <2>1 DEF P

-----------------------------------------------------------------------------
(* The division of a party. *)

(* The people at all tables are a sum. *)
LEMMA TotalSums == ASSUME NEW seats PROVE Total(seats) = SumOf(seats, DOMAIN seats)
  BY DEF Total, MapThenSumSet, MapThenFoldSet, SumOf, Weighs

(* What each place in a list of n tables gets. *)
Shares(people, n) == [i \in 1..n |-> Share(people, n, i)]

(* What the table t gets is the sum of the shares that name it. *)
LEMMA SplitSums ==
    ASSUME NEW people, NEW list, NEW tables, NEW n \in Nat, DOMAIN list = 1..n, Len(list) = n,
           NEW t \in tables
    PROVE  Split(people, list, tables)[t] = SumOf(Shares(people, n), {i \in 1..n : list[i] = t})
<1>1. Split(people, list, tables)[t] =
        MapThenSumSet(LAMBDA i : Share(people, n, i), {i \in 1..n : list[i] = t})
  BY DEF Split
<1> DEFINE S == {i \in 1..n : list[i] = t}
<1>2. S \subseteq 1..n
  OBVIOUS
<1> HIDE DEF S
<1>3. MapThenSumSet(LAMBDA i : Share(people, n, i), S) = SumOf(Shares(people, n), S)
  BY <1>2 DEF MapThenSumSet, MapThenFoldSet, SumOf, Weighs, Shares
<1> QED
  BY <1>1, <1>3 DEF S

(* What each call asks for, or gives back, in people. *)
People == [c \in Call |-> Total(asked[c])]

(* What the restaurant service counts is a sum over the calls it has done. *)
LEMMA CountedSums ==
    ASSUME NEW calls \in SUBSET Call PROVE Counted(calls) = SumOf(People, Done(calls))
<1> DEFINE S == Done(calls)
<1>1. S \subseteq Call
  BY DEF Done
<1> HIDE DEF S
<1>2. MapThenSumSet(LAMBDA c : Total(asked[c]), S) = SumOf(People, S)
  BY <1>1 DEF MapThenSumSet, MapThenFoldSet, SumOf, Weighs, People
<1> QED
  BY <1>2 DEF S, Counted

(* Division with a remainder. *)
LEMMA Division ==
    ASSUME NEW people \in Nat, NEW n \in Nat \ {0}
    PROVE  /\ people \div n \in Nat /\ people % n \in 0..n - 1
           /\ people = n * (people \div n) + (people % n)
           /\ people < n => people \div n = 0
           /\ people >= n => people \div n >= 1
<1>1. people \div n \in Nat /\ people % n \in 0..n - 1
  OBVIOUS
<1>2. PICK q \in Nat : q = people \div n
  BY <1>1
<1>3. PICK r \in 0..n - 1 : r = people % n
  BY <1>1
<1>4. people = n * q + r
  BY <1>2, <1>3
<1>5. people < n => q = 0
  <2> SUFFICES ASSUME people < n, q >= 1 PROVE FALSE
    OBVIOUS
  <2>1. n * q >= n
    OBVIOUS
  <2> QED
    BY <1>4, <2>1
<1>6. people >= n => q >= 1
  BY <1>4
<1> QED
  BY <1>1, <1>2, <1>3, <1>4, <1>5, <1>6

(* What the i-th of n tables gets. *)
LEMMA ShareType ==
    ASSUME NEW people \in Nat, NEW n \in Nat \ {0}, NEW i \in 1..n
    PROVE  /\ Share(people, n, i) \in Nat \ {0}
           /\ people < n => Share(people, n, i) = 1
           /\ people >= n => Share(people, n, i) =
                  (people \div n) + (IF i \in 1..(people % n) THEN 1 ELSE 0)
<1>1. /\ people \div n \in Nat /\ people % n \in 0..n - 1
      /\ people < n => people \div n = 0
      /\ people >= n => people \div n >= 1
  BY Division
<1> DEFINE q == people \div n
           r == people % n
<1> HIDE DEF q, r
<1>4. Share(people, n, i) = AtLeastOne(q + (IF i <= r THEN 1 ELSE 0))
  BY DEF Share, q, r
<1>5. q \in Nat /\ r \in 0..n - 1 /\ (people < n => q = 0) /\ (people >= n => q >= 1)
  BY <1>1 DEF q, r
<1>6. i <= r <=> i \in 1..r
  BY <1>5
<1> QED
  BY <1>4, <1>5, <1>6 DEF AtLeastOne, q, r

(* The division loses nobody: n tables get the whole party, or one person    *)
(* each if the party is smaller than that.                                  *)
LEMMA SharesSum ==
    ASSUME NEW people \in Nat, NEW n \in Nat \ {0}
    PROVE  SumOf(Shares(people, n), 1..n) = IF people < n THEN n ELSE people
<1>1. IsFiniteSet(1..n) /\ Cardinality(1..n) = n
  BY FS_Interval
<1>2. CASE people < n
  <2>1. \A i \in 1..n : Shares(people, n)[i] = 1 + (IF i \in {} THEN 1 ELSE 0)
    BY <1>2, ShareType DEF Shares
  <2>2. SumOf(Shares(people, n), 1..n) = 1 * Cardinality(1..n) + Cardinality({})
    BY <1>1, <2>1, SumWithExtra
  <2> QED
    BY <1>1, <1>2, <2>2, FS_EmptySet
<1>3. CASE people >= n
  <2> DEFINE q == people \div n
             r == people % n
  <2>1. q \in Nat /\ r \in 0..n - 1 /\ people = n * q + r
    BY Division
  <2>2. \A i \in 1..n : Shares(people, n)[i] = q + (IF i \in 1..r THEN 1 ELSE 0)
    BY <1>3, ShareType DEF Shares
  <2> HIDE DEF q, r
  <2>3. 1..r \in SUBSET (1..n) /\ Cardinality(1..r) = r
    BY <2>1, FS_Interval
  <2>4. SumOf(Shares(people, n), 1..n) = q * Cardinality(1..n) + Cardinality(1..r)
    BY <1>1, <2>1, <2>2, <2>3, SumWithExtra
  <2>5. q * n = n * q
    BY <2>1
  <2> QED
    BY <1>1, <1>3, <2>1, <2>3, <2>4, <2>5
<1> QED
  BY <1>2, <1>3

(* Adding up what every table gets counts every place in the list once. *)
LEMMA SumOfSums ==
    ASSUME NEW I, IsFiniteSet(I), NEW T, IsFiniteSet(T), NEW list \in [I -> T],
           NEW h, \A i \in I : h[i] \in Nat
    PROVE  SumOf([t \in T |-> SumOf(h, {i \in I : list[i] = t})], T) = SumOf(h, I)
<1> DEFINE at(s) == [t \in T |-> SumOf(h, {i \in s : list[i] = t})]
           P == {s \in SUBSET I : SumOf(at(s), T) = SumOf(h, s)}
<1>0. ASSUME NEW s \in SUBSET I, NEW t \in T
      PROVE  /\ IsFiniteSet({i \in s : list[i] = t})
             /\ at(s)[t] = SumOf(h, {i \in s : list[i] = t})
             /\ at(s)[t] \in Nat
  <2>1. {i \in s : list[i] = t} \in SUBSET I
    OBVIOUS
  <2>2. IsFiniteSet({i \in s : list[i] = t})
    BY <2>1, FS_Subset
  <2>3. SumOf(h, {i \in s : list[i] = t}) \in Nat
    BY <2>1, <2>2, SumType
  <2> QED
    BY <2>2, <2>3
<1>1. {} \in P
  <2>1. SumOf(h, {}) = 0
    BY SumUnfolds
  <2>2. \A t \in T : at({})[t] = 0
    <3> SUFFICES ASSUME NEW t \in T PROVE at({})[t] = 0
      OBVIOUS
    <3>1. {i \in {} : list[i] = t} = {}
      OBVIOUS
    <3> QED
      BY <2>1, <3>1
  <2> HIDE DEF at
  <2>3. SumOf(at({}), T) = 0 * Cardinality(T) + Cardinality({})
    <3>1. \A t \in T : at({})[t] = 0 + (IF t \in {} THEN 1 ELSE 0)
      BY <2>2
    <3> QED
      BY <3>1, SumWithExtra
  <2>4. SumOf(at({}), T) = 0
    BY <2>3, FS_EmptySet, FS_CardinalityType
  <2> QED
    BY <2>1, <2>4
<1>2. ASSUME NEW s \in SUBSET I, NEW x \in s, s \ {x} \in P PROVE s \in P
  <2> DEFINE rest == s \ {x}
             y == list[x]
             one == [t \in T |-> IF t = y THEN h[x] ELSE 0]
  <2>1. IsFiniteSet(s) /\ rest \in SUBSET I /\ y \in T /\ h[x] \in Nat
    BY FS_Subset
  <2>2. SumOf(h, s) = h[x] + SumOf(h, rest)
    BY <2>1, SumRemoves
  <2>3. ASSUME NEW t \in T PROVE at(s)[t] = at(rest)[t] + one[t]
    <3> DEFINE here == {i \in s : list[i] = t}
               left == {i \in rest : list[i] = t}
    <3>1. IsFiniteSet(here) /\ here \subseteq I
      BY <1>0
    <3>2. at(s)[t] = SumOf(h, here) /\ at(rest)[t] = SumOf(h, left) /\ at(rest)[t] \in Nat
      BY <1>0, <2>1
    <3>3. CASE t = y
      <4>1. x \in here /\ left = here \ {x}
        BY <3>3
      <4> HIDE DEF here, left
      <4>2. SumOf(h, here) = h[x] + SumOf(h, left)
        BY <3>1, <4>1, SumRemoves
      <4> HIDE DEF at
      <4> QED
        BY <3>2, <3>3, <4>2, <2>1
    <3>4. CASE t # y
      <4>1. left = here
        BY <3>4
      <4> HIDE DEF here, left, at
      <4> QED
        BY <3>2, <3>4, <4>1
    <3> QED
      BY <3>3, <3>4
  <2>4. SumOf(one, T) = h[x]
    <3>1. /\ SumOf(one, T) = one[y] + SumOf(one, T \ {y})
          /\ IsFiniteSet(T \ {y})
      <4>1. \A t \in T : one[t] \in Nat
        BY <2>1
      <4>2. IsFiniteSet(T \ {y})
        BY FS_RemoveElement
      <4> HIDE DEF one
      <4>3. SumOf(one, T) = one[y] + SumOf(one, T \ {y})
        BY <2>1, <4>1, SumRemoves
      <4> QED
        BY <4>2, <4>3
    <3>2. \A t \in T \ {y} : one[t] = 0 + (IF t \in {} THEN 1 ELSE 0)
      OBVIOUS
    <3>3. one[y] = h[x]
      BY <2>1
    <3> HIDE DEF one
    <3>4. SumOf(one, T \ {y}) = 0 * Cardinality(T \ {y}) + Cardinality({})
      BY <3>1, <3>2, SumWithExtra
    <3>5. Cardinality(T \ {y}) \in Nat /\ Cardinality({}) = 0
      BY <3>1, FS_CardinalityType, FS_EmptySet
    <3> QED
      BY <3>1, <3>3, <3>4, <3>5, <2>1
  <2>5. \A t \in T : /\ at(rest)[t] \in Nat /\ one[t] \in Nat
                     /\ at(s)[t] = at(rest)[t] + one[t]
    <3> SUFFICES ASSUME NEW t \in T
                 PROVE  /\ at(rest)[t] \in Nat /\ one[t] \in Nat
                        /\ at(s)[t] = at(rest)[t] + one[t]
      OBVIOUS
    <3>1. at(rest)[t] \in Nat
      BY <1>0, <2>1
    <3>2. one[t] \in Nat
      BY <2>1
    <3> QED
      BY <2>3, <3>1, <3>2
  <2> HIDE DEF at, one
  <2>6. SumOf(at(s), T) = SumOf(at(rest), T) + SumOf(one, T)
    BY <2>5, SumAdds
  <2>7. SumOf(at(rest), T) = SumOf(h, rest)
    BY <1>2
  <2>8. SumOf(h, rest) \in Nat
    <3>1. IsFiniteSet(rest)
      BY <2>1, FS_Subset
    <3> QED
      BY <2>1, <3>1, SumType
  <2>9. SumOf(at(s), T) = SumOf(h, s)
    BY <2>1, <2>2, <2>4, <2>6, <2>7, <2>8
  <2> QED
    BY <2>9
<1> HIDE DEF P
<1>3. I \in P
  BY <1>1, <1>2, SubsetInduction
<1> QED
  BY <1>3 DEF P, at

(* The same for a function that is known by its values. *)
LEMMA SumSplits ==
    ASSUME NEW I, IsFiniteSet(I), NEW T, IsFiniteSet(T), NEW list \in [I -> T],
           NEW h, \A i \in I : h[i] \in Nat,
           NEW places, \A t \in T : places[t] = {i \in I : list[i] = t},
           NEW seats, \A t \in T : seats[t] = SumOf(h, places[t])
    PROVE  SumOf(seats, T) = SumOf(h, I)
<1> DEFINE at == [t \in T |-> SumOf(h, {i \in I : list[i] = t})]
<1>1. ASSUME NEW t \in T PROVE at[t] \in Nat /\ seats[t] = at[t]
  <2>1. places[t] \in SUBSET I
    OBVIOUS
  <2>2. IsFiniteSet(places[t])
    BY <2>1, FS_Subset
  <2>3. SumOf(h, places[t]) \in Nat
    BY <2>1, <2>2, SumType
  <2>4. at[t] = SumOf(h, places[t])
    OBVIOUS
  <2> HIDE DEF at
  <2> QED
    BY <2>3, <2>4
<1>2. SumOf(at, T) = SumOf(h, I)
  BY SumOfSums
<1> HIDE DEF at
<1>3. SumOf(seats, T) = SumOf(at, T)
  BY <1>1, SumSame
<1> QED
  BY <1>2, <1>3

(* The people at all tables are at least those at one, and none if nobody    *)
(* is anywhere.                                                             *)
LEMMA TotalType ==
    ASSUME NEW seats \in [Table -> Nat]
    PROVE  /\ Total(seats) \in Nat
           /\ \A t \in Table : seats[t] <= Total(seats)
           /\ Total(seats) = 0 <=> seats = Nobody
<1>1. IsFiniteSet(Table) /\ DOMAIN seats = Table
  BY LedgerAssumption
<1>2. Total(seats) = SumOf(seats, Table)
  BY <1>1, TotalSums
<1>3. Total(seats) \in Nat
  BY <1>1, <1>2, SumType
<1>4. ASSUME NEW t \in Table PROVE seats[t] <= Total(seats)
  BY <1>1, <1>2, SumBounds
<1>5. ASSUME seats = Nobody PROVE Total(seats) = 0
  <2>1. \A t \in Table : seats[t] = 0 + (IF t \in {} THEN 1 ELSE 0)
    BY <1>5 DEF Nobody
  <2>2. SumOf(seats, Table) = 0 * Cardinality(Table) + Cardinality({})
    BY <1>1, <2>1, SumWithExtra
  <2>3. Cardinality(Table) \in Nat /\ Cardinality({}) = 0
    BY <1>1, FS_CardinalityType, FS_EmptySet
  <2> QED
    BY <1>2, <2>2, <2>3
<1>6. ASSUME Total(seats) = 0 PROVE seats = Nobody
  <2>1. \A t \in Table : seats[t] = 0
    BY <1>4, <1>6
  <2> QED
    BY <2>1 DEF Nobody
<1> QED
  BY <1>3, <1>4, <1>5, <1>6

(* A listing is a sequence with as many places as it names tables. *)
LEMMA ListingIsList ==
    ASSUME NEW times \in [Table -> Nat], NEW list \in Listings(times)
    PROVE  /\ Total(times) \in Nat
           /\ list \in [1..Total(times) -> Table]
           /\ Len(list) = Total(times)
           /\ \A t \in Table :
                  Cardinality({i \in 1..Total(times) : list[i] = t}) = times[t]
<1>1. Total(times) \in Nat
  BY TotalType
<1>2. DOMAIN times = Table
  OBVIOUS
<1>3. list \in [1..Total(times) -> Table] /\ DOMAIN list = 1..Total(times)
  BY <1>2 DEF Listings
<1>4. \A t \in Table : Cardinality({i \in DOMAIN list : list[i] = t}) = times[t]
  BY <1>2 DEF Listings
<1>5. Len(list) = Total(times)
  BY <1>1, <1>3
<1> QED
  BY <1>1, <1>3, <1>4, <1>5

(* However often a table is named, and in whatever order, the party is       *)
(* divided without losing anybody.                                          *)
LEMMA SplitIsTotal ==
    ASSUME NEW people \in Nat, NEW times \in [Table -> Nat], times # Nobody,
           NEW list \in Listings(times)
    PROVE  /\ Split(people, list, Table) \in [Table -> Nat]
           /\ Total(times) \in Nat \ {0}
           /\ Total(Split(people, list, Table)) =
                  IF people < Total(times) THEN Total(times) ELSE people
<1> DEFINE n == Total(times)
           split == Split(people, list, Table)
           h == Shares(people, n)
<1>1. n \in Nat \ {0}
  BY TotalType
<1>2. list \in [1..n -> Table] /\ DOMAIN list = 1..n /\ Len(list) = n
  BY ListingIsList
<1>3. IsFiniteSet(1..n) /\ IsFiniteSet(Table)
  BY <1>1, FS_Interval, LedgerAssumption
<1> HIDE DEF n
<1>4. \A i \in 1..n : h[i] \in Nat
  BY <1>1, ShareType DEF Shares
<1>5. \A t \in Table : split[t] = SumOf(h, {i \in 1..n : list[i] = t})
  BY <1>1, <1>2, SplitSums
<1>6. split \in [Table -> Nat]
  <2> SUFFICES ASSUME NEW t \in Table PROVE SumOf(h, {i \in 1..n : list[i] = t}) \in Nat
    BY <1>5 DEF Split
  <2>1. {i \in 1..n : list[i] = t} \in SUBSET (1..n)
    OBVIOUS
  <2>2. IsFiniteSet({i \in 1..n : list[i] = t})
    BY <1>3, <2>1, FS_Subset
  <2> HIDE DEF h
  <2> QED
    BY <1>4, <2>1, <2>2, SumType
<1>7. SumOf(split, Table) = SumOf(h, 1..n)
  <2> DEFINE I == 1..n
             places == [t \in Table |-> {i \in I : list[i] = t}]
  <2>1. \A t \in Table : places[t] = {i \in I : list[i] = t}
    OBVIOUS
  <2>2. \A t \in Table : split[t] = SumOf(h, places[t])
    BY <1>5, <2>1
  <2>3. IsFiniteSet(I) /\ list \in [I -> Table] /\ \A i \in I : h[i] \in Nat
    BY <1>2, <1>3, <1>4
  <2> HIDE DEF h, I, split, places
  <2>4. SumOf(split, Table) = SumOf(h, I)
    BY <1>3, <2>1, <2>2, <2>3, SumSplits
  <2> QED
    BY <2>4 DEF I
<1>8. SumOf(h, 1..n) = IF people < n THEN n ELSE people
  BY <1>1, SharesSum
<1>9. Total(split) = SumOf(split, Table)
  <2>1. DOMAIN split = Table
    BY DEF Split
  <2> HIDE DEF split
  <2> QED
    BY <2>1, TotalSums
<1> HIDE DEF split, h
<1>10. Total(split) = IF people < n THEN n ELSE people
  BY <1>7, <1>8, <1>9
<1> QED
  BY <1>1, <1>6, <1>10 DEF split, n

(* Each of the chosen tables is named once. *)
Once(chosen) == [t \in Table |-> IF t \in chosen THEN 1 ELSE 0]

(* A table that is named once gets one share, a table that is not, nobody. *)
LEMMA SplitOnce ==
    ASSUME NEW people \in Nat, NEW chosen \in SUBSET Table, chosen # {},
           NEW list \in Listings(Once(chosen)), NEW t \in Table
    PROVE  IF t \in chosen
           THEN \E i \in 1..Total(Once(chosen)) :
                    Split(people, list, Table)[t] = Share(people, Total(Once(chosen)), i)
           ELSE Split(people, list, Table)[t] = 0
<1> DEFINE n == Total(Once(chosen))
           h == Shares(people, n)
           S == {i \in 1..n : list[i] = t}
<1>1. Once(chosen) \in [Table -> Nat] /\ Once(chosen) # Nobody
  BY DEF Once, Nobody
<1>2. n \in Nat \ {0}
  BY <1>1, TotalType
<1>3. list \in [1..n -> Table] /\ Len(list) = n /\ DOMAIN list = 1..n
      /\ Cardinality(S) = Once(chosen)[t]
  BY <1>1, ListingIsList
<1> HIDE DEF n
<1>4. Split(people, list, Table)[t] = SumOf(h, S)
  BY <1>2, <1>3, SplitSums
<1>5. IsFiniteSet(S)
  <2>1. S \in SUBSET (1..n) /\ IsFiniteSet(1..n)
    BY <1>2, FS_Interval
  <2> HIDE DEF S
  <2> QED
    BY <2>1, FS_Subset
<1>6. CASE t \notin chosen
  <2>1. S = {}
    BY <1>3, <1>5, <1>6, FS_EmptySet DEF Once
  <2>2. SumOf(h, S) = 0
    <3> HIDE DEF S, h
    <3> QED
      BY <1>5, <2>1, SumUnfolds
  <2> QED
    BY <1>4, <1>6, <2>2
<1>7. CASE t \in chosen
  <2>1. Cardinality(S) = 1
    BY <1>3, <1>7 DEF Once
  <2> HIDE DEF S
  <2>2. PICK i : S = {i}
    BY <1>5, <2>1, FS_Singleton
  <2>3. i \in 1..n
    BY <2>2 DEF S
  <2>4. h[i] = Share(people, n, i) /\ h[i] \in Nat
    BY <1>2, <2>3, ShareType DEF Shares
  <2> HIDE DEF h
  <2>5. SumOf(h, S) = h[i] + SumOf(h, S \ {i})
    BY <1>5, <2>2, <2>4, SumRemoves
  <2>6. SumOf(h, S \ {i}) = 0
    <3>1. S \ {i} = {}
      BY <2>2
    <3> QED
      BY <1>5, <3>1, SumUnfolds
  <2> QED
    BY <1>4, <1>7, <2>3, <2>4, <2>5, <2>6 DEF n
<1> QED
  BY <1>6, <1>7 DEF n

-----------------------------------------------------------------------------
(* The handlers: the invariant and what moves it. *)

(* What the handlers go by: an ok means that it was done. *)
OkIsDone == \A c \in Call : answer[c] = "ok" => effect[c]

(* What took effect is not undone by the client, and an ok is true. *)
LEMMA EffectsStay ==
    ASSUME TypeOK, EffectsAreAsked, OkIsDone, [Next]_vars
    PROVE  OkIsDone' /\ \A c \in Call : effect[c] => effect'[c]
<1>1. ASSUME NEW c \in Call, NEW op \in Operation, Begin(c, op)
      PROVE  OkIsDone' /\ \A d \in Call : effect[d] => effect'[d]
  BY <1>1 DEF Begin, TypeOK, OkIsDone
<1>2. ASSUME NEW c \in Call, Receive(c)
      PROVE  OkIsDone' /\ \A d \in Call : effect[d] => effect'[d]
  BY <1>2 DEF Receive, Outcome, TypeOK, OkIsDone, EffectsAreAsked
<1>3. ASSUME NEW c \in Call, TimeOut(c)
      PROVE  OkIsDone' /\ \A d \in Call : effect[d] => effect'[d]
  BY <1>3 DEF TimeOut, Outcome, TypeOK, OkIsDone
<1>4. ASSUME NEW c \in Call, Serve(c)
      PROVE  OkIsDone' /\ \A d \in Call : effect[d] => effect'[d]
  BY <1>4 DEF Serve, TypeOK, OkIsDone, EffectsAreAsked
<1>5. ASSUME Reset \/ UNCHANGED vars
      PROVE  OkIsDone' /\ \A d \in Call : effect[d] => effect'[d]
  BY <1>5 DEF Reset, vars, OkIsDone
<1> QED
  BY <1>1, <1>2, <1>3, <1>4, <1>5 DEF Next

(* The handlers that have committed a seating, and the people they asked     *)
(* for: the tables that are linked, and whatever a cancellation gives back,  *)
(* is measured against these.                                               *)
Committed == {c \in Call : handler[c] \in {"seated", "assigned"}}

Pledged == SumOf(People, Committed)

(* The tables somebody sits at, and the party divided over such tables. *)
Support(seats) == {t \in Table : seats[t] > 0}

DividedOver(seats, chosen) ==
    /\ chosen # {}
    /\ \E list \in Listings(Once(chosen)) : seats = Split(size, list, Table)

(* Only finitely many handlers have started, so that their sums exist. *)
BusyIsFinite == IsFiniteSet({c \in Call : handler[c] # "idle"})

(* What is asked for, from when on, and that it is enough for the party. *)
AskedInTime ==
    \A c \in Call :
        /\ handler[c] \in {"idle", "inquiring", "cancel loaded"} => asked[c] = Nobody
        /\ handler[c] \in Granting \union {"assign loaded"} => Total(asked[c]) >= size
        /\ handler[c] \in {"seating", "seated"} => DividedOver(asked[c], Support(asked[c]))

(* Whoever has committed was answered with an ok. *)
CommittedIsDone == \A c \in Committed : effect[c]

(* There are no more assignments than people pledged, and if /seat alone     *)
(* has committed they name its tables, once each, or have been released.     *)
LinkedIsPledged ==
    /\ Total(linked) <= Pledged
    /\ linked # Nobody => Committed # {}
    /\ \A c \in Committed : Committed = {c} /\ handler[c] = "seated" =>
           linked \in {Nobody, Once(Support(asked[c]))}

(* A cancellation asks to give back what was pledged at most; if /seat alone *)
(* has committed, the same party over the same tables.                       *)
ReleasedIsPledged ==
    \A d \in Releases :
        /\ Committed # {}
        /\ Total(asked[d]) <= Pledged
        /\ \A c \in Committed : Committed = {c} /\ handler[c] = "seated" =>
               DividedOver(asked[d], Support(asked[c]))

(* All of it is kept by every step. *)
LedgerInv ==
    /\ Inv /\ OkIsDone /\ LedgerTypeOK
    /\ BusyIsFinite /\ AskedInTime /\ CommittedIsDone
    /\ LinkedIsPledged /\ ReleasedIsPledged

(* What a handler does to the row and to what it asks for. *)
Moves(c, from, to) ==
    /\ handler[c] \in from /\ handler' = [handler EXCEPT ![c] = handler'[c]]
    /\ handler'[c] \in to
    /\ UNCHANGED size
    /\ asked' = [asked EXCEPT ![c] = asked'[c]]

(* What each handler does to the row and to what is asked for, without the    *)
(* state of the client.                                                     *)
Proceeds(c) ==
    /\ \/ Moves(c, {"idle"}, {"inquiring", "cancel loaded"})
       \/ Moves(c, {"assign loaded"}, {"assigning"})
       \/ Moves(c, {"cancel loaded"}, {"cancelling"}) /\ linked = Nobody
       \/ Moves(c, {"cancelling"}, {"cancelled"})
    /\ UNCHANGED <<asked, linked>>

Seats(c) ==
    /\ Moves(c, {"idle"}, {"seating"})
    /\ \E chosen \in SUBSET Table : DividedOver(asked'[c], chosen)
    /\ UNCHANGED linked

Staffs(c) ==
    /\ Moves(c, {"idle"}, {"assign loaded"})
    /\ asked'[c] \in [Table -> Nat] /\ HasCapacity(size, asked'[c])
    /\ UNCHANGED linked

Commits(c) ==
    /\ \/ Moves(c, {"seating"}, {"seated"})
       \/ Moves(c, {"assigning"}, {"assigned"})
    /\ answer[c] = "ok"
    /\ linked' = [t \in Table |-> linked[t] + (IF asked[c][t] > 0 THEN 1 ELSE 0)]
    /\ UNCHANGED asked

Reads(c) ==
    /\ Moves(c, {"cancel loaded"}, {"releasing"})
    /\ linked # Nobody
    /\ \E list \in Listings(linked) : asked'[c] = Split(size, list, Table)
    /\ UNCHANGED linked

Unlinks(c) ==
    /\ Moves(c, {"releasing"}, {"cancelling"})
    /\ linked' = Nobody
    /\ UNCHANGED asked

(* Every step is one of these, or leaves the handlers alone. *)
LEMMA HandlersMove ==
    ASSUME LedgerTypeOK, [LedgerNext]_<<vars, ledgerVars>>
    PROVE  \/ UNCHANGED ledgerVars
           \/ \E c \in Call :
                 \/ Proceeds(c) \/ Seats(c) \/ Staffs(c)
                 \/ Commits(c) \/ Reads(c) \/ Unlinks(c)
<1>a. /\ handler \in [Call -> Handler] /\ asked \in [Call -> [Table -> Nat]]
      /\ \A c \in Call : asked = [asked EXCEPT ![c] = asked[c]]
  BY DEF LedgerTypeOK
<1>b. ASSUME NEW c \in Call, NEW to, Goto(c, to)
      PROVE  handler' = [handler EXCEPT ![c] = handler'[c]] /\ handler'[c] = to
  BY <1>a, <1>b DEF Goto
<1>1. ASSUME NEW c \in Call, Inquire(c) \/ CancelLoad(c) PROVE Proceeds(c)
  BY <1>1, <1>a, <1>b DEF Inquire, CancelLoad, Proceeds, Moves
<1>2. ASSUME NEW c \in Call, Seat(c) PROVE Seats(c)
  <2>1. /\ handler[c] = "idle" /\ Goto(c, "seating") /\ UNCHANGED <<size, linked>>
        /\ \E chosen \in (SUBSET Table) \ {{}} :
           \E list \in Listings(Once(chosen)) :
               asked' = [asked EXCEPT ![c] = Split(size, list, Table)]
    BY <1>2 DEF Seat, Once
  <2>a. PICK chosen \in (SUBSET Table) \ {{}} :
           \E list \in Listings(Once(chosen)) :
               asked' = [asked EXCEPT ![c] = Split(size, list, Table)]
    BY <2>1
  <2>2. PICK list \in Listings(Once(chosen)) :
               asked' = [asked EXCEPT ![c] = Split(size, list, Table)]
    BY <2>a
  <2>3. /\ asked'[c] = Split(size, list, Table)
        /\ asked' = [asked EXCEPT ![c] = asked'[c]]
    BY <1>a, <2>2
  <2> QED
    BY <1>b, <2>1, <2>2, <2>3 DEF Seats, Moves, DividedOver
<1>3. ASSUME NEW c \in Call, AssignLoad(c) PROVE Staffs(c)
  <2>1. /\ handler[c] = "idle" /\ Goto(c, "assign loaded") /\ UNCHANGED <<size, linked>>
    BY <1>3 DEF AssignLoad
  <2>2. PICK seats \in [Table -> 0..MaxCount] :
            HasCapacity(size, seats) /\ asked' = [asked EXCEPT ![c] = seats]
    BY <1>3 DEF AssignLoad
  <2>3. /\ asked'[c] = seats /\ seats \in [Table -> Nat]
        /\ asked' = [asked EXCEPT ![c] = asked'[c]]
    BY <1>a, <2>2, LedgerAssumption
  <2> QED
    BY <1>b, <2>1, <2>2, <2>3 DEF Staffs, Moves
<1>4. ASSUME NEW c \in Call, Assign(c) \/ CancelCommit(c) PROVE Proceeds(c)
  BY <1>4, <1>a, <1>b DEF Assign, CancelCommit, Proceeds, Moves
<1>5. ASSUME NEW c \in Call, SeatCommit(c) PROVE Commits(c)
  BY <1>5, <1>a, <1>b DEF SeatCommit, Commits, Moves
<1>6. ASSUME NEW c \in Call, CancelRead(c) PROVE Proceeds(c) \/ Reads(c)
  <2>1. CASE linked = Nobody
    BY <1>6, <1>a, <1>b, <2>1 DEF CancelRead, Proceeds, Moves
  <2>2. CASE linked # Nobody
    <3>1. /\ handler[c] = "cancel loaded" /\ Goto(c, "releasing") /\ UNCHANGED <<size, linked>>
          /\ \E list \in Listings(linked) :
                 asked' = [asked EXCEPT ![c] = Split(size, list, Table)]
      BY <1>6, <2>2 DEF CancelRead
    <3>2. PICK list \in Listings(linked) :
                 asked' = [asked EXCEPT ![c] = Split(size, list, Table)]
      BY <3>1
    <3>3. /\ asked'[c] = Split(size, list, Table)
          /\ asked' = [asked EXCEPT ![c] = asked'[c]]
      BY <1>a, <3>2
    <3> QED
      BY <1>b, <2>2, <3>1, <3>2, <3>3 DEF Reads, Moves
  <2> QED
    BY <2>1, <2>2
<1>7. ASSUME NEW c \in Call, CancelUnlink(c) PROVE Unlinks(c)
  BY <1>7, <1>a, <1>b DEF CancelUnlink, Unlinks, Moves
<1> QED
  BY <1>1, <1>2, <1>3, <1>4, <1>5, <1>6, <1>7 DEF LedgerNext, Client

(* A divided party is at the tables it is divided over, whole, with a share   *)
(* at each.                                                                 *)
LEMMA DividedIsTotal ==
    ASSUME size \in Nat \ {0}, NEW chosen \in SUBSET Table, NEW seats, DividedOver(seats, chosen)
    PROVE  /\ seats \in [Table -> Nat]
           /\ Support(seats) = chosen
           /\ Total(Once(chosen)) \in Nat \ {0}
           /\ Total(seats) = IF size < Total(Once(chosen)) THEN Total(Once(chosen)) ELSE size
           /\ \A t \in chosen : \E i \in 1..Total(Once(chosen)) :
                  seats[t] = Share(size, Total(Once(chosen)), i)
<1>1. PICK list \in Listings(Once(chosen)) : seats = Split(size, list, Table)
  BY DEF DividedOver
<1>2. Once(chosen) \in [Table -> Nat] /\ Once(chosen) # Nobody
  BY DEF Once, Nobody, DividedOver
<1>3. /\ seats \in [Table -> Nat]
      /\ Total(Once(chosen)) \in Nat \ {0}
      /\ Total(seats) = IF size < Total(Once(chosen)) THEN Total(Once(chosen)) ELSE size
  BY <1>1, <1>2, SplitIsTotal
<1>4. ASSUME NEW t \in Table
      PROVE  IF t \in chosen
             THEN \E i \in 1..Total(Once(chosen)) :
                      seats[t] = Share(size, Total(Once(chosen)), i)
             ELSE seats[t] = 0
  BY <1>1, SplitOnce DEF DividedOver
<1>5. ASSUME NEW t \in Table PROVE t \in chosen <=> seats[t] > 0
  <2>1. ASSUME NEW i \in 1..Total(Once(chosen)) PROVE Share(size, Total(Once(chosen)), i) > 0
    BY <1>3, ShareType
  <2> QED
    BY <1>4, <2>1
<1>6. Support(seats) = chosen
  BY <1>5 DEF Support
<1> QED
  BY <1>3, <1>4, <1>6

(* The ledger keeps its types. *)
LEMMA LedgerTypeStep ==
    ASSUME LedgerTypeOK, [LedgerNext]_<<vars, ledgerVars>>
    PROVE  LedgerTypeOK'
<1>a. /\ size \in PartySizes /\ size \in Nat \ {0} /\ linked \in [Table -> Nat]
      /\ handler \in [Call -> Handler] /\ asked \in [Call -> [Table -> Nat]]
  BY LedgerAssumption DEF LedgerTypeOK
<1>1. waiting' \in BOOLEAN
  BY DEF LedgerTypeOK, LedgerNext, Inquire, Seat, AssignLoad, Assign, SeatCommit, CancelLoad,
         CancelRead, CancelUnlink, CancelCommit, Client, ledgerVars
<1>2. ASSUME NEW c \in Call, NEW from, NEW to \in SUBSET Handler, Moves(c, from, to),
             asked'[c] \in [Table -> Nat], linked' \in [Table -> Nat]
      PROVE  LedgerTypeOK'
  BY <1>a, <1>1, <1>2 DEF Moves, LedgerTypeOK
<1>3. \A c \in Call : asked[c] \in [Table -> Nat]
  BY <1>a
<1>4. ASSUME NEW c \in Call, Proceeds(c) PROVE LedgerTypeOK'
  <2>1. asked'[c] \in [Table -> Nat] /\ linked' \in [Table -> Nat]
    BY <1>a, <1>3, <1>4 DEF Proceeds
  <2> QED
    BY <1>2, <1>4, <2>1 DEF Proceeds, Handler
<1>5. ASSUME NEW c \in Call, Seats(c) PROVE LedgerTypeOK'
  <2>1. PICK chosen \in SUBSET Table : DividedOver(asked'[c], chosen)
    BY <1>5 DEF Seats
  <2>2. asked'[c] \in [Table -> Nat]
    BY <1>a, <2>1, DividedIsTotal
  <2> QED
    BY <1>a, <1>2, <1>5, <2>2 DEF Seats, Handler
<1>6. ASSUME NEW c \in Call, Staffs(c) PROVE LedgerTypeOK'
  BY <1>a, <1>2, <1>6 DEF Staffs, Handler
<1>7. ASSUME NEW c \in Call, Commits(c) PROVE LedgerTypeOK'
  <2>1. linked' \in [Table -> Nat]
    BY <1>a, <1>3, <1>7 DEF Commits
  <2> QED
    BY <1>2, <1>3, <1>7, <2>1 DEF Commits, Handler
<1>8. ASSUME NEW c \in Call, Reads(c) PROVE LedgerTypeOK'
  <2>1. linked # Nobody
    BY <1>8 DEF Reads
  <2>2. PICK list \in Listings(linked) : asked'[c] = Split(size, list, Table)
    BY <1>8 DEF Reads
  <2>3. Split(size, list, Table) \in [Table -> Nat]
    BY <1>a, <2>1, SplitIsTotal
  <2>4. asked'[c] \in [Table -> Nat]
    BY <2>2, <2>3
  <2> QED
    BY <1>a, <1>2, <1>8, <2>4 DEF Reads, Handler
<1>9. ASSUME NEW c \in Call, Unlinks(c) PROVE LedgerTypeOK'
  <2>1. linked' \in [Table -> Nat]
    BY <1>9 DEF Unlinks, Nobody
  <2> QED
    BY <1>2, <1>3, <1>9, <2>1 DEF Unlinks, Handler
<1>10. ASSUME UNCHANGED ledgerVars PROVE LedgerTypeOK'
  BY <1>a, <1>10 DEF ledgerVars, LedgerTypeOK
<1> QED
  BY <1>4, <1>5, <1>6, <1>7, <1>8, <1>9, <1>10, HandlersMove

(* A step starts one handler at most. *)
LEMMA BusyStep ==
    ASSUME LedgerTypeOK, BusyIsFinite, [LedgerNext]_<<vars, ledgerVars>>
    PROVE  BusyIsFinite'
<1> DEFINE busy == {c \in Call : handler[c] # "idle"}
<1>a. handler \in [Call -> Handler]
  BY DEF LedgerTypeOK
<1>1. ASSUME NEW c \in Call, NEW from, NEW to, Moves(c, from, to) PROVE IsFiniteSet(busy')
  <2>1. busy' \in SUBSET (busy \cup {c})
    BY <1>a, <1>1 DEF Moves
  <2>2. IsFiniteSet(busy)
    BY DEF BusyIsFinite
  <2>3. IsFiniteSet(busy \cup {c})
    <3> HIDE DEF busy
    <3> QED
      BY <2>2, FS_AddElement
  <2> HIDE DEF busy
  <2> QED
    BY <2>1, <2>3, FS_Subset
<1>2. CASE UNCHANGED ledgerVars
  BY <1>2 DEF ledgerVars, BusyIsFinite
<1> QED
  BY <1>1, <1>2, HandlersMove DEF BusyIsFinite, Proceeds, Seats, Staffs, Commits, Reads, Unlinks

(* Only the tables of a handler's own request, or the assignments it reads,   *)
(* go into what it asks for.                                                *)
LEMMA AskedInTimeStep ==
    ASSUME LedgerTypeOK, AskedInTime, [LedgerNext]_<<vars, ledgerVars>>
    PROVE  AskedInTime'
<1> DEFINE inTime(d) ==
        /\ handler[d] \in {"idle", "inquiring", "cancel loaded"} => asked[d] = Nobody
        /\ handler[d] \in Granting \union {"assign loaded"} => Total(asked[d]) >= size
        /\ handler[d] \in {"seating", "seated"} => DividedOver(asked[d], Support(asked[d]))
<1>a. /\ handler \in [Call -> Handler] /\ asked \in [Call -> [Table -> Nat]]
      /\ size \in Nat \ {0}
  BY LedgerAssumption DEF LedgerTypeOK
<1>b. \A d \in Call : inTime(d)
  BY DEF AskedInTime
<1>1. ASSUME NEW c \in Call, NEW from, NEW to, Moves(c, from, to), inTime(c)'
      PROVE  AskedInTime'
  <2>1. ASSUME NEW d \in Call, d # c PROVE inTime(d)'
    <3>1. handler'[d] = handler[d] /\ asked'[d] = asked[d] /\ size' = size
      BY <1>a, <1>1, <2>1 DEF Moves
    <3> QED
      BY <1>b, <3>1 DEF DividedOver
  <2> QED
    BY <1>1, <2>1 DEF AskedInTime
<1>2. ASSUME NEW c \in Call, Proceeds(c) \/ Commits(c) \/ Unlinks(c) PROVE AskedInTime'
  <2>1. /\ asked'[c] = asked[c] /\ size' = size
        /\ handler'[c] \in {"idle", "inquiring", "cancel loaded"} =>
               handler[c] \in {"idle", "inquiring", "cancel loaded"}
        /\ handler'[c] \in Granting \union {"assign loaded"} =>
               handler[c] \in Granting \union {"assign loaded"}
        /\ handler'[c] \in {"seating", "seated"} => handler[c] \in {"seating", "seated"}
    BY <1>2 DEF Proceeds, Commits, Unlinks, Moves, Granting
  <2>2. inTime(c)'
    BY <1>b, <2>1 DEF DividedOver
  <2> QED
    BY <1>1, <1>2, <2>2 DEF Proceeds, Commits, Unlinks
<1>3. ASSUME NEW c \in Call, Seats(c) PROVE AskedInTime'
  <2>1. PICK chosen \in SUBSET Table : DividedOver(asked'[c], chosen)
    BY <1>3 DEF Seats
  <2>2. /\ Support(asked'[c]) = chosen
        /\ Total(asked'[c]) >= size
    <3>1. /\ Support(asked'[c]) = chosen
          /\ Total(Once(chosen)) \in Nat
          /\ Total(asked'[c]) = IF size < Total(Once(chosen)) THEN Total(Once(chosen)) ELSE size
      BY <1>a, <2>1, DividedIsTotal
    <3> QED
      BY <1>a, <3>1
  <2>3. handler'[c] = "seating" /\ size' = size
    BY <1>3 DEF Seats, Moves
  <2>4. DividedOver(asked[c], Support(asked[c]))'
    BY <2>1, <2>2, <2>3 DEF DividedOver, Support
  <2>5. inTime(c)'
    BY <2>2, <2>3, <2>4
  <2> QED
    BY <1>1, <1>3, <2>5 DEF Seats
<1>4. ASSUME NEW c \in Call, Staffs(c) PROVE AskedInTime'
  <2>1. handler'[c] = "assign loaded" /\ size' = size /\ Total(asked'[c]) >= size
    BY <1>4 DEF Staffs, Moves, HasCapacity
  <2>2. inTime(c)'
    BY <2>1
  <2> QED
    BY <1>1, <1>4, <2>2 DEF Staffs
<1>5. ASSUME NEW c \in Call, Reads(c) PROVE AskedInTime'
  <2>1. handler'[c] = "releasing"
    BY <1>5 DEF Reads, Moves
  <2>2. inTime(c)'
    BY <2>1 DEF Granting
  <2> QED
    BY <1>1, <1>5, <2>2 DEF Reads
<1>6. CASE UNCHANGED ledgerVars
  BY <1>6 DEF ledgerVars, AskedInTime, DividedOver
<1> QED
  BY <1>2, <1>3, <1>4, <1>5, <1>6, HandlersMove

(* What a call asks for is a number of people. *)
LEMMA PeopleAreNatural ==
    ASSUME LedgerTypeOK PROVE \A c \in Call : People[c] \in Nat /\ People[c] = Total(asked[c])
<1>1. \A c \in Call : asked[c] \in [Table -> Nat]
  BY DEF LedgerTypeOK
<1>2. \A c \in Call : Total(asked[c]) \in Nat
  BY <1>1, TotalType
<1> QED
  BY <1>2 DEF People

(* What is pledged is a number not less than what each commit asked for. *)
LEMMA CommittedIsFinite ==
    ASSUME LedgerTypeOK, BusyIsFinite
    PROVE  /\ IsFiniteSet(Committed) /\ Committed \subseteq Call
           /\ Pledged \in Nat
           /\ \A c \in Committed : Total(asked[c]) <= Pledged
<1>1. Committed \subseteq {c \in Call : handler[c] # "idle"} /\ Committed \subseteq Call
  BY DEF Committed
<1>2. IsFiniteSet(Committed)
  BY <1>1, FS_Subset DEF BusyIsFinite
<1>3. \A c \in Committed : People[c] \in Nat /\ People[c] = Total(asked[c])
  BY <1>1, PeopleAreNatural
<1>4. Pledged \in Nat
  BY <1>2, <1>3, SumType DEF Pledged
<1>5. \A c \in Committed : People[c] <= Pledged
  BY <1>2, <1>3, SumBounds DEF Pledged
<1> QED
  BY <1>1, <1>2, <1>3, <1>4, <1>5

(* Nothing that is committed is taken back, and a commit adds what it asked. *)
LEMMA PledgesMove ==
    ASSUME LedgerTypeOK, BusyIsFinite, LedgerTypeOK', BusyIsFinite',
           [LedgerNext]_<<vars, ledgerVars>>
    PROVE  /\ Committed \subseteq Committed' /\ Pledged <= Pledged' /\ Pledged' \in Nat
           /\ \A c \in Committed : asked'[c] = asked[c] /\ handler'[c] = handler[c]
           /\ \/ Committed' = Committed
              \/ \E c \in Call : /\ Commits(c) /\ c \notin Committed
                                 /\ Committed' = Committed \union {c}
                                 /\ Pledged' = Pledged + Total(asked[c])
<1>a. /\ handler \in [Call -> Handler] /\ asked \in [Call -> [Table -> Nat]]
  BY DEF LedgerTypeOK
<1>b. /\ IsFiniteSet(Committed) /\ Committed \subseteq Call
      /\ IsFiniteSet(Committed') /\ Committed' \subseteq Call
  <2>1. IsFiniteSet(Committed) /\ Committed \subseteq Call
    BY CommittedIsFinite
  <2>3. Committed' \subseteq {c \in Call : handler[c] # "idle"}' /\ Committed' \subseteq Call
    BY DEF Committed
  <2>4. IsFiniteSet(Committed')
    BY <2>3, FS_Subset DEF BusyIsFinite
  <2> QED
    BY <2>1, <2>3, <2>4
<1>c. /\ \A c \in Call : People[c] \in Nat /\ People[c] = Total(asked[c])
      /\ \A c \in Call : People'[c] \in Nat /\ People'[c] = Total(asked'[c])
  <2>1. \A c \in Call : asked'[c] \in [Table -> Nat]
    BY DEF LedgerTypeOK
  <2>2. \A c \in Call : Total(asked'[c]) \in Nat
    BY <2>1, TotalType
  <2>3. \A c \in Call : People'[c] = Total(asked'[c])
    BY DEF People
  <2> QED
    BY <2>2, <2>3, PeopleAreNatural
<1>1. /\ \A c \in Committed : asked'[c] = asked[c] /\ handler'[c] = handler[c]
      /\ \/ Committed' = Committed
         \/ \E c \in Call : Commits(c) /\ c \notin Committed /\ Committed' = Committed \union {c}
  <2>1. ASSUME NEW c \in Call,
               Proceeds(c) \/ Seats(c) \/ Staffs(c) \/ Reads(c) \/ Unlinks(c)
        PROVE  /\ \A d \in Committed : asked'[d] = asked[d] /\ handler'[d] = handler[d]
               /\ Committed' = Committed
    <3>1. /\ c \notin Committed /\ handler' = [handler EXCEPT ![c] = handler'[c]]
          /\ asked' = [asked EXCEPT ![c] = asked'[c]]
          /\ handler'[c] \notin {"seated", "assigned"}
      BY <2>1 DEF Proceeds, Seats, Staffs, Reads, Unlinks, Moves, Committed
    <3>2. \A d \in Call : d # c => handler'[d] = handler[d] /\ asked'[d] = asked[d]
      BY <1>a, <3>1
    <3>3. \A d \in Call : d \in Committed' <=> d \in Committed
      BY <3>1, <3>2 DEF Committed
    <3> QED
      BY <1>b, <3>1, <3>2, <3>3
  <2>2. ASSUME NEW c \in Call, Commits(c)
        PROVE  /\ \A d \in Committed : asked'[d] = asked[d] /\ handler'[d] = handler[d]
               /\ c \notin Committed /\ Committed' = Committed \union {c}
    <3>1. /\ c \notin Committed /\ handler' = [handler EXCEPT ![c] = handler'[c]]
          /\ asked' = asked
          /\ handler'[c] \in {"seated", "assigned"}
      BY <2>2 DEF Commits, Moves, Committed
    <3>2. \A d \in Call : d # c => handler'[d] = handler[d]
      BY <1>a, <3>1
    <3>3. \A d \in Call : d \in Committed' <=> d \in Committed \/ d = c
      BY <3>1, <3>2 DEF Committed
    <3> QED
      BY <1>b, <3>1, <3>2, <3>3
  <2>3. CASE UNCHANGED ledgerVars
    BY <2>3 DEF ledgerVars, Committed
  <2> QED
    BY <2>1, <2>2, <2>3, HandlersMove
<1>2. SumOf(People, Committed) = SumOf(People', Committed)
  <2>1. \A c \in Committed : People[c] \in Nat /\ People[c] = People'[c]
    BY <1>b, <1>c, <1>1
  <2> QED
    BY <1>b, <2>1, SumSame
<1>3. CASE Committed' = Committed
  <2>1. Pledged' = Pledged /\ Pledged \in Nat
    BY <1>2, <1>3, CommittedIsFinite DEF Pledged
  <2> QED
    BY <1>1, <1>3, <2>1
<1>4. ASSUME NEW c \in Call, Commits(c), c \notin Committed, Committed' = Committed \union {c}
      PROVE  Pledged' = Pledged + Total(asked[c]) /\ Pledged <= Pledged' /\ Pledged' \in Nat
  <2>1. Committed' \ {c} = Committed /\ c \in Committed'
    BY <1>4
  <2>2. SumOf(People', Committed') = People'[c] + SumOf(People', Committed' \ {c})
    <3>1. \A d \in Committed' : People'[d] \in Nat
      BY <1>b, <1>c
    <3> QED
      BY <1>b, <2>1, <3>1, SumRemoves
  <2>3. People'[c] = Total(asked[c]) /\ People'[c] \in Nat
    BY <1>4, <1>c DEF Commits
  <2>4. Pledged' = SumOf(People', Committed')
    BY DEF Pledged
  <2>5. Pledged \in Nat /\ Pledged = SumOf(People', Committed)
    BY <1>2, CommittedIsFinite DEF Pledged
  <2>6. Pledged' = People'[c] + Pledged
    BY <2>1, <2>2, <2>4, <2>5
  <2> QED
    BY <2>3, <2>5, <2>6
<1> QED
  BY <1>1, <1>3, <1>4

(* A commit links no more tables than it has people for. *)
LEMMA LinkedIsPledgedStep ==
    ASSUME LedgerTypeOK, BusyIsFinite, LedgerTypeOK', BusyIsFinite', LinkedIsPledged,
           [LedgerNext]_<<vars, ledgerVars>>
    PROVE  LinkedIsPledged'
<1>a. /\ handler \in [Call -> Handler] /\ asked \in [Call -> [Table -> Nat]]
      /\ linked \in [Table -> Nat] /\ Nobody \in [Table -> Nat]
      /\ IsFiniteSet(Table) /\ Committed \subseteq Call
  BY LedgerAssumption DEF LedgerTypeOK, Nobody, Committed
<1>b. Pledged \in Nat /\ Total(linked) \in Nat /\ Total(Nobody) = 0
  BY <1>a, CommittedIsFinite, TotalType
<1>c. ASSUME NEW c \in Call, Commits(c) PROVE c \in Committed' /\ c \notin Committed
  BY <1>a, <1>c DEF Commits, Moves, Committed
<1>1. CASE Committed' = Committed
  <2>1. linked' \in {linked, Nobody}
    BY <1>1, <1>c, HandlersMove DEF Proceeds, Seats, Staffs, Reads, Unlinks, ledgerVars
  <2>2. Pledged <= Pledged' /\ \A c \in Committed : asked'[c] = asked[c] /\ handler'[c] = handler[c]
    BY PledgesMove
  <2>3. Pledged' \in Nat
    BY PledgesMove
  <2>4. Total(linked') <= Pledged'
    BY <1>b, <2>1, <2>2, <2>3 DEF LinkedIsPledged
  <2>5. linked' # Nobody => Committed' # {}
    BY <1>1, <2>1 DEF LinkedIsPledged
  <2>6. \A c \in Committed' : Committed' = {c} /\ handler'[c] = "seated" =>
            linked' \in {Nobody, Once(Support(asked'[c]))}
    BY <1>1, <2>1, <2>2 DEF LinkedIsPledged
  <2> QED
    BY <2>4, <2>5, <2>6 DEF LinkedIsPledged, Nobody, Once, Support
<1>2. ASSUME NEW c \in Call, Commits(c), Committed' = Committed \union {c},
             Pledged' = Pledged + Total(asked[c])
      PROVE  LinkedIsPledged'
  <2> DEFINE rows == Once(Support(asked[c]))
  <2>1. /\ asked[c] \in [Table -> Nat] /\ rows \in [Table -> Nat]
        /\ \A t \in Table : rows[t] = IF asked[c][t] > 0 THEN 1 ELSE 0
    BY <1>a DEF Once, Support
  <2>2. linked' = [t \in Table |-> linked[t] + rows[t]] /\ asked' = asked
    BY <1>2, <2>1 DEF Commits
  <2> HIDE DEF rows
  <2>3. linked' \in [Table -> Nat]
    BY DEF LedgerTypeOK
  <2>4. /\ Total(linked') = SumOf(linked', Table) /\ Total(linked) = SumOf(linked, Table)
        /\ Total(rows) = SumOf(rows, Table) /\ Total(asked[c]) = SumOf(asked[c], Table)
    BY <1>a, <2>1, <2>3, TotalSums
  <2>5. SumOf(linked', Table) = SumOf(linked, Table) + SumOf(rows, Table)
    <3>1. \A t \in Table : linked[t] \in Nat /\ rows[t] \in Nat /\ linked'[t] = linked[t] + rows[t]
      BY <1>a, <2>1, <2>2
    <3> QED
      BY <1>a, <3>1, SumAdds
  <2>6. SumOf(rows, Table) <= SumOf(asked[c], Table)
    <3>1. \A t \in Table : asked[c][t] \in Nat /\ rows[t] \in Nat /\ rows[t] <= asked[c][t]
      BY <2>1
    <3>2. Table \in SUBSET Table
      OBVIOUS
    <3> QED
      BY <1>a, <3>1, <3>2, SumGrows
  <2>7. Total(rows) \in Nat /\ Total(asked[c]) \in Nat
    BY <2>1, TotalType
  <2>8. Total(linked') <= Pledged'
    BY <1>2, <1>b, <2>4, <2>5, <2>6, <2>7 DEF LinkedIsPledged
  <2>9. ASSUME NEW d \in Committed', Committed' = {d}
        PROVE  linked' = Once(Support(asked'[d]))
    <3>1. d = c /\ Committed = {}
      BY <1>2, <1>c, <2>9
    <3>2. linked = Nobody
      BY <3>1 DEF LinkedIsPledged
    <3>3. linked' = rows
      BY <2>1, <2>2, <3>2 DEF Nobody
    <3> QED
      BY <2>2, <3>1, <3>3 DEF rows
  <2>10. Committed' # {}
    BY <1>2
  <2> QED
    BY <2>8, <2>9, <2>10 DEF LinkedIsPledged, Nobody, Once, Support
<1> QED
  BY <1>1, <1>2, PledgesMove

(* A cancellation that finds assignments finds a commit before it. *)
LEMMA ReleasedIsPledgedStep ==
    ASSUME LedgerTypeOK, BusyIsFinite, LedgerTypeOK', BusyIsFinite',
           AskedInTime, LinkedIsPledged, ReleasedIsPledged,
           [LedgerNext]_<<vars, ledgerVars>>
    PROVE  ReleasedIsPledged'
<1>a. /\ handler \in [Call -> Handler] /\ asked \in [Call -> [Table -> Nat]]
      /\ size \in Nat \ {0} /\ size' = size
      /\ linked \in [Table -> Nat] /\ Committed \subseteq Call
  BY LedgerAssumption, HandlersMove
     DEF LedgerTypeOK, Committed, ledgerVars, Proceeds, Seats, Staffs, Reads, Unlinks, Commits, Moves
<1>b. /\ Committed \subseteq Committed' /\ Pledged <= Pledged'
      /\ \A c \in Committed : asked'[c] = asked[c] /\ handler'[c] = handler[c]
  BY PledgesMove
<1>c. Pledged \in Nat /\ \A c \in Committed : Total(asked[c]) <= Pledged
  BY CommittedIsFinite
<1>d. Pledged' \in Nat
  BY PledgesMove
<1>1. ASSUME NEW d \in Call, NEW c \in Committed', Committed' = {c}, handler'[c] = "seated",
             Committed # {}
      PROVE  c \in Committed /\ Committed = {c} /\ handler[c] = "seated" /\ asked'[c] = asked[c]
  BY <1>b, <1>1
<1>2. ASSUME NEW d \in Releases, asked'[d] = asked[d]
      PROVE  /\ Committed' # {}
             /\ Total(asked'[d]) <= Pledged'
             /\ \A c \in Committed' : Committed' = {c} /\ handler'[c] = "seated" =>
                    DividedOver(asked[d], Support(asked[c]))'
  <2>1. d \in Call /\ Committed # {} /\ Total(asked[d]) <= Pledged
    BY DEF Releases, ReleasedIsPledged
  <2>2. Total(asked[d]) \in Nat
    BY <1>a, <2>1, TotalType
  <2>3. Committed' # {} /\ Total(asked'[d]) <= Pledged'
    BY <1>2, <1>b, <1>c, <1>d, <2>1, <2>2
  <2>4. ASSUME NEW c \in Committed', Committed' = {c}, handler'[c] = "seated"
        PROVE  DividedOver(asked[d], Support(asked[c]))'
    <3>1. c \in Committed /\ Committed = {c} /\ handler[c] = "seated" /\ asked'[c] = asked[c]
      BY <1>1, <2>1, <2>4
    <3>2. DividedOver(asked[d], Support(asked[c]))
      BY <3>1 DEF ReleasedIsPledged
    <3> QED
      BY <1>2, <1>a, <3>1, <3>2 DEF DividedOver, Support
  <2> QED
    BY <2>3, <2>4
<1>3. ASSUME NEW d \in Call, Reads(d)
      PROVE  /\ Committed' # {}
             /\ Total(asked'[d]) <= Pledged'
             /\ \A c \in Committed' : Committed' = {c} /\ handler'[c] = "seated" =>
                    DividedOver(asked[d], Support(asked[c]))'
  <2>1. PICK list \in Listings(linked) : asked'[d] = Split(size, list, Table)
    BY <1>3 DEF Reads
  <2>2. linked # Nobody /\ Committed # {}
    BY <1>3 DEF Reads, LinkedIsPledged
  <2>3. Total(asked'[d]) = IF size < Total(linked) THEN Total(linked) ELSE size
    BY <1>a, <2>1, <2>2, SplitIsTotal
  <2>4. Total(linked) <= Pledged
    BY DEF LinkedIsPledged
  <2>5. size <= Pledged
    <3>1. PICK c \in Committed : TRUE
      BY <2>2
    <3>2. c \in Call /\ Total(asked[c]) >= size /\ Total(asked[c]) <= Pledged
      BY <1>a, <1>c, <3>1 DEF AskedInTime, Committed, Granting
    <3>3. Total(asked[c]) \in Nat
      BY <1>a, <3>2, TotalType
    <3> QED
      BY <1>a, <1>c, <3>2, <3>3
  <2>6. Committed' # {} /\ Total(asked'[d]) <= Pledged'
    <3>1. Total(linked) \in Nat
      BY <1>a, TotalType
    <3> QED
      BY <1>a, <1>b, <1>c, <1>d, <2>2, <2>3, <2>4, <2>5, <3>1
  <2>7. ASSUME NEW c \in Committed', Committed' = {c}, handler'[c] = "seated"
        PROVE  DividedOver(asked[d], Support(asked[c]))'
    <3>1. c \in Committed /\ Committed = {c} /\ handler[c] = "seated" /\ asked'[c] = asked[c]
      BY <1>1, <2>2, <2>7
    <3>2. linked = Once(Support(asked[c]))
      BY <2>2, <3>1 DEF LinkedIsPledged
    <3>3. Support(asked[c]) # {}
      BY <2>2, <3>2 DEF Once, Nobody
    <3>4. DividedOver(asked'[d], Support(asked[c]))
      BY <2>1, <3>2, <3>3 DEF DividedOver
    <3> QED
      BY <1>a, <3>1, <3>4 DEF DividedOver, Support
  <2> QED
    BY <2>6, <2>7
<1>4. ASSUME NEW d \in Releases' PROVE (d \in Releases /\ asked'[d] = asked[d]) \/ Reads(d)
  <2>1. d \in Call /\ handler'[d] \in Releasing /\ asked'[d] # Nobody
    BY DEF Releases, Releasing, Nobody
  <2>2. ASSUME NEW c \in Call, NEW from, NEW to, Moves(c, from, to), c # d
        PROVE  handler'[d] = handler[d] /\ asked'[d] = asked[d]
    BY <1>a, <2>1, <2>2 DEF Moves
  <2>3. CASE handler'[d] = handler[d] /\ asked'[d] = asked[d]
    BY <2>1, <2>3 DEF Releases
  <2>4. ASSUME NEW c \in Call,
               Proceeds(c) \/ Seats(c) \/ Staffs(c) \/ Commits(c) \/ Reads(c) \/ Unlinks(c),
               ~ (handler'[d] = handler[d] /\ asked'[d] = asked[d])
        PROVE  c = d
    BY <2>2, <2>4 DEF Proceeds, Seats, Staffs, Commits, Reads, Unlinks
  <2>5. CASE Proceeds(d)
    <3>1. asked'[d] = asked[d] /\ asked[d] # Nobody
      BY <2>1, <2>5 DEF Proceeds
    <3>2. handler[d] \notin {"idle", "inquiring", "cancel loaded"}
      BY <2>1, <3>1 DEF AskedInTime
    <3>3. handler[d] \in Releasing
      BY <2>1, <2>5, <3>2 DEF Proceeds, Moves, Releasing
    <3> QED
      BY <2>1, <3>1, <3>3 DEF Releases
  <2>6. CASE Seats(d) \/ Staffs(d) \/ Commits(d)
    BY <2>1, <2>6 DEF Seats, Staffs, Commits, Moves, Releasing
  <2>7. CASE Unlinks(d)
    BY <2>1, <2>7 DEF Unlinks, Moves, Releases, Releasing
  <2>8. CASE UNCHANGED ledgerVars
    BY <2>3, <2>8 DEF ledgerVars
  <2> QED
    BY <2>3, <2>4, <2>5, <2>6, <2>7, <2>8, HandlersMove
<1> QED
  BY <1>2, <1>3, <1>4 DEF ReleasedIsPledged, Releases

(* In the beginning no handler has started. *)
LEMMA LedgerInvInit == LedgerInit => LedgerInv
<1> SUFFICES ASSUME LedgerInit PROVE LedgerInv
  OBVIOUS
<1>1. /\ Init /\ size \in PartySizes /\ waiting = TRUE /\ linked = Nobody
      /\ handler = [c \in Call |-> "idle"] /\ asked = [c \in Call |-> Nobody]
  BY DEF LedgerInit
<1>2. Inv
  BY <1>1, InitInv
<1>3. Nobody \in [Table -> Nat]
  BY DEF Nobody
<1>4. LedgerTypeOK
  BY <1>1, <1>3 DEF LedgerTypeOK, Handler
<1>5. OkIsDone
  BY <1>1 DEF Init, OkIsDone
<1>6. BusyIsFinite
  <2>1. {c \in Call : handler[c] # "idle"} = {}
    BY <1>1
  <2> QED
    BY <2>1, FS_EmptySet DEF BusyIsFinite
<1>7. AskedInTime /\ CommittedIsDone /\ Committed = {} /\ Releases = {}
  BY <1>1 DEF AskedInTime, CommittedIsDone, Committed, Releases, Granting, Releasing
<1>8. Total(linked) = 0 /\ Pledged \in Nat
  BY <1>1, <1>3, <1>4, <1>6, TotalType, CommittedIsFinite
<1>9. LinkedIsPledged /\ ReleasedIsPledged
  BY <1>1, <1>7, <1>8 DEF LinkedIsPledged, ReleasedIsPledged
<1> QED
  BY <1>2, <1>4, <1>5, <1>6, <1>7, <1>9 DEF LedgerInv

(* A handler commits when the client has answered with an ok. *)
LEMMA CommittedIsDoneStep ==
    ASSUME LedgerTypeOK, BusyIsFinite, LedgerTypeOK', BusyIsFinite', OkIsDone, CommittedIsDone,
           \A c \in Call : effect[c] => effect'[c], [LedgerNext]_<<vars, ledgerVars>>
    PROVE  CommittedIsDone'
<1>1. ASSUME NEW c \in Call, Commits(c) PROVE effect[c]
  BY <1>1 DEF Commits, OkIsDone
<1>2. Committed \subseteq Call /\ \A c \in Committed : effect[c]
  BY DEF CommittedIsDone, Committed
<1> QED
  BY <1>1, <1>2, PledgesMove DEF CommittedIsDone

(* The parts of the invariant hold together. *)
LEMMA LedgerInvHolds == LedgerSpec => []LedgerInv
<1>1. LedgerInv /\ [LedgerNext]_<<vars, ledgerVars>> => LedgerInv'
  <2> SUFFICES ASSUME LedgerInv, [LedgerNext]_<<vars, ledgerVars>> PROVE LedgerInv'
    OBVIOUS
  <2>1. [Next]_vars
    BY LedgerStep
  <2>2. Inv'
    BY <2>1, TypeStep, EffectsAreAskedStep, FailuresAreTroubleStep, UnavailableStep DEF LedgerInv, Inv
  <2>3. OkIsDone' /\ \A c \in Call : effect[c] => effect'[c]
    BY <2>1, EffectsStay DEF LedgerInv, Inv
  <2>4. LedgerTypeOK' /\ BusyIsFinite' /\ AskedInTime'
    BY LedgerTypeStep, BusyStep, AskedInTimeStep DEF LedgerInv
  <2>5. CommittedIsDone'
    BY <2>3, <2>4, CommittedIsDoneStep DEF LedgerInv
  <2>6. LinkedIsPledged' /\ ReleasedIsPledged'
    BY <2>4, LinkedIsPledgedStep, ReleasedIsPledgedStep DEF LedgerInv
  <2> QED
    BY <2>2, <2>3, <2>4, <2>5, <2>6 DEF LedgerInv
<1> QED
  BY <1>1, LedgerInvInit, PTL DEF LedgerSpec

(* The restaurant service has counted everything that is pledged. *)
LEMMA GrantsAreCounted ==
    ASSUME LedgerInv
    PROVE  /\ Counted(Grants) \in Nat /\ Pledged <= Counted(Grants)
           /\ \A c \in Committed : Total(asked[c]) \in Nat /\ Total(asked[c]) <= Counted(Grants)
<1>a. LedgerTypeOK /\ BusyIsFinite /\ CommittedIsDone
  BY DEF LedgerInv
<1>1. Counted(Grants) = SumOf(People, Done(Grants))
  BY CountedSums DEF Grants
<1>2. Committed \in SUBSET Done(Grants) /\ Done(Grants) \subseteq Call
  BY <1>a DEF Done, Grants, Committed, CommittedIsDone, Granting
<1>3. IsFiniteSet(Done(Grants))
  <2>1. Done(Grants) \subseteq {c \in Call : handler[c] # "idle"}
    BY DEF Done, Grants, Granting
  <2> QED
    BY <1>a, <2>1, FS_Subset DEF BusyIsFinite
<1>4. \A c \in Done(Grants) : People[c] \in Nat
  BY <1>a, <1>2, PeopleAreNatural
<1>5. Counted(Grants) \in Nat
  BY <1>1, <1>3, <1>4, SumType
<1>6. SumOf(People, Committed) <= SumOf(People, Done(Grants))
  <2>1. /\ \A c \in Committed : People[c] \in Nat /\ People[c] <= People[c]
    BY <1>2, <1>4
  <2> QED
    BY <1>2, <1>3, <1>4, <2>1, SumGrows
<1>7. Pledged <= Counted(Grants)
  BY <1>1, <1>6 DEF Pledged
<1>8. Pledged \in Nat /\ \A c \in Committed : Total(asked[c]) <= Pledged
  BY <1>a, CommittedIsFinite
<1>9. \A c \in Committed : Total(asked[c]) \in Nat
  BY <1>a, <1>2, PeopleAreNatural
<1> QED
  BY <1>5, <1>7, <1>8, <1>9

(* However the handlers overlap, and however the calls time out or come late, *)
(* the restaurant service counts everybody of a party that was seated, for   *)
(* any party and any number of tables, handlers and calls.                   *)
THEOREM SeatedIsCoveredHolds == LedgerSpec => []SeatedIsCovered
<1>1. LedgerInv => SeatedIsCovered
  <2> SUFFICES ASSUME LedgerInv, NEW c \in Call, handler[c] \in {"seated", "assigned"}
               PROVE  Counted(Grants) >= size
    BY DEF SeatedIsCovered
  <2>1. c \in Committed /\ Total(asked[c]) >= size /\ size \in Nat
    BY LedgerAssumption DEF LedgerInv, LedgerTypeOK, AskedInTime, Granting, Committed
  <2> QED
    BY <2>1, GrantsAreCounted
<1> QED
  BY <1>1, LedgerInvHolds, PTL

(* If there is one cancellation, what is given back is what it asked. *)
LEMMA ReleasesAreCounted ==
    ASSUME LedgerInv, Cardinality(Releases) <= 1
    PROVE  Counted(Releases) = 0 \/ \E d \in Releases : Counted(Releases) = Total(asked[d])
<1>a. LedgerTypeOK /\ BusyIsFinite
  BY DEF LedgerInv
<1>1. Counted(Releases) = SumOf(People, Done(Releases))
  BY CountedSums DEF Releases
<1>2. IsFiniteSet(Releases) /\ Releases \subseteq Call
  <2>1. Releases \subseteq {c \in Call : handler[c] # "idle"} /\ Releases \subseteq Call
    BY DEF Releases, Releasing
  <2> QED
    BY <1>a, <2>1, FS_Subset DEF BusyIsFinite
<1>3. CASE Done(Releases) = {}
  BY <1>1, <1>2, <1>3, SumUnfolds
<1>4. ASSUME NEW d \in Done(Releases)
      PROVE  d \in Releases /\ Counted(Releases) = Total(asked[d])
  <2>1. d \in Releases
    BY <1>4 DEF Done
  <2>2. Cardinality(Releases) = 1
    BY <1>2, <2>1, FS_EmptySet, FS_CardinalityType
  <2>3. Releases = {d}
    BY <1>2, <2>1, <2>2, FS_Singleton
  <2>4. Done(Releases) = {d}
    BY <1>4, <2>3 DEF Done
  <2>5. IsFiniteSet({d}) /\ \A c \in {d} : People[c] \in Nat /\ People[c] = Total(asked[c])
    BY <1>a, <1>2, <2>1, FS_Singleton, PeopleAreNatural
  <2>6. SumOf(People, {d}) = People[d] + SumOf(People, {d} \ {d})
    BY <2>5, SumRemoves
  <2>7. {d} \ {d} = {} /\ SumOf(People, {}) = 0
    BY <2>5, SumUnfolds
  <2>8. SumOf(People, {d} \ {d}) = 0
    BY <2>7
  <2> QED
    BY <1>1, <2>1, <2>4, <2>5, <2>6, <2>8
<1> QED
  BY <1>3, <1>4

(* One cancellation gives back no more people than were seated, whatever it  *)
(* overlaps with; and what /seat alone took is given back to the last person *)
(* and, up to one person, table by table.                                    *)
THEOREM GivesBackWhatItTookHolds == LedgerSpec => []GivesBackWhatItTook
<1>1. LedgerInv => ReleasedWithinGranted
  <2> SUFFICES ASSUME LedgerInv, Cardinality(Releases) <= 1
               PROVE  Counted(Releases) <= Counted(Grants)
    BY DEF ReleasedWithinGranted
  <2>1. Counted(Grants) \in Nat /\ Pledged <= Counted(Grants) /\ Pledged \in Nat
    BY GrantsAreCounted, CommittedIsFinite DEF LedgerInv
  <2>2. \A d \in Releases : Total(asked[d]) <= Pledged /\ Total(asked[d]) \in Nat
    BY PeopleAreNatural DEF LedgerInv, ReleasedIsPledged, Releases
  <2> QED
    BY <2>1, <2>2, ReleasesAreCounted
<1>2. LedgerInv => ReleasedAsSeated
  <2> SUFFICES ASSUME LedgerInv, NEW c \in Call, NEW d \in Call,
                      handler[c] = "seated", Grants = {c}, Releases = {d}
               PROVE  /\ Total(asked[c]) = Total(asked[d])
                      /\ \A t \in Table : Left(c, d, t) \in -1..1
    BY DEF ReleasedAsSeated
  <2>1. c \in Committed /\ Committed = {c}
    BY DEF Committed, Grants, Granting
  <2> DEFINE chosen == Support(asked[c])
             n == Total(Once(chosen))
  <2>2. DividedOver(asked[c], chosen) /\ DividedOver(asked[d], chosen)
    BY <2>1 DEF LedgerInv, AskedInTime, ReleasedIsPledged
  <2>3. size \in Nat \ {0} /\ chosen \in SUBSET Table
    BY LedgerAssumption DEF LedgerInv, LedgerTypeOK, Support
  <2> HIDE DEF chosen
  <2>4. /\ n \in Nat \ {0}
        /\ Total(asked[c]) = IF size < n THEN n ELSE size
        /\ Total(asked[d]) = IF size < n THEN n ELSE size
        /\ Support(asked[c]) = chosen /\ Support(asked[d]) = chosen
        /\ asked[c] \in [Table -> Nat] /\ asked[d] \in [Table -> Nat]
        /\ \A t \in chosen : /\ \E i \in 1..n : asked[c][t] = Share(size, n, i)
                             /\ \E i \in 1..n : asked[d][t] = Share(size, n, i)
    BY <2>2, <2>3, DividedIsTotal
  <2> HIDE DEF n
  <2>5. ASSUME NEW t \in Table PROVE Left(c, d, t) \in -1..1
    <3>1. CASE t \in chosen
      <4>1. PICK i \in 1..n, j \in 1..n :
               asked[c][t] = Share(size, n, i) /\ asked[d][t] = Share(size, n, j)
        BY <2>4, <3>1
      <4>2. Share(size, n, i) - Share(size, n, j) \in {-1, 0, 1}
        BY <2>3, <2>4, ShareIsEven
      <4> QED
        BY <4>1, <4>2 DEF Left
    <3>2. CASE t \notin chosen
      <4>1. asked[c][t] = 0 /\ asked[d][t] = 0
        BY <2>4, <3>2 DEF Support
      <4> QED
        BY <4>1 DEF Left
    <3> QED
      BY <3>1, <3>2
  <2> QED
    BY <2>4, <2>5
<1> QED
  BY <1>1, <1>2, LedgerInvHolds, PTL DEF GivesBackWhatItTook
=============================================================================
