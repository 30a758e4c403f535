--------------------------- MODULE TicketLifecycle ---------------------------
(***************************************************************************)
(* What the queue service promises about a ticket, without its requests,   *)
(* positions or caches: a ticket waits, then leaves the queue once and for *)
(* good, and holds tables exactly when it was seated.                      *)
(***************************************************************************)
CONSTANTS Entry, Table

VARIABLES
    ticket,     \* Entry -> status, "ABSENT" before it joins
    holds       \* Entry -> tables assigned to it

Init ==
    /\ ticket \in [Entry -> {"ABSENT", "WAITING"}]
    /\ holds = [e \in Entry |-> {}]

Join(e) ==
    /\ ticket[e] = "ABSENT"
    /\ ticket' = [ticket EXCEPT ![e] = "WAITING"]
    /\ UNCHANGED holds

Seat(e, tables) ==
    /\ ticket[e] = "WAITING"
    /\ ticket' = [ticket EXCEPT ![e] = "SEATED"]
    /\ holds' = [holds EXCEPT ![e] = tables]

Leave(e, status) ==
    /\ ticket[e] = "WAITING"
    /\ ticket' = [ticket EXCEPT ![e] = status]
    /\ UNCHANGED holds

Next ==
    \E e \in Entry :
        \/ Join(e)
        \/ \E tables \in (SUBSET Table) \ {{}} : Seat(e, tables)
        \/ \E status \in {"SKIPPED", "CANCELLED", "NO_SHOW"} : Leave(e, status)

Spec == Init /\ [][Next]_<<ticket, holds>>
=============================================================================
