------------------------------ MODULE TableLedger ------------------------------
(***************************************************************************)
(* One party and the tables the restaurant service believes it sits at:    *)
(* the handlers that seat it, assign tables to it and cancel it, calling   *)
(* the restaurant service through RestaurantClient.  Which numbers of      *)
(* people the two sides count for a table, and when, is what this adds to  *)
(* QueueService, where a table is held or not and a call takes one step.   *)
(*                                                                         *)
(* The handlers of different requests overlap.  A handler is named by the  *)
(* call it makes; the other calls of the service (registering, the ETA     *)
(* quote) only share the breaker.                                          *)
(***************************************************************************)
EXTENDS RestaurantClient, TableSplit

CONSTANTS
    Table,
    PartySizes,     \* what the party may be
    MaxCount        \* bound on the people the staff put at one table

ASSUME LedgerAssumption ==
    /\ IsFiniteSet(Table)
    /\ PartySizes \subseteq Nat \ {0}
    /\ MaxCount \in Nat

VARIABLES
    size,       \* partySize
    waiting,    \* is the row WAITING?
    linked,     \* Table -> unreleased table_assignments of the party
    handler,    \* Call -> where the handler that makes the call is
    asked       \* Call -> Table -> the people the call is about

ledgerVars == <<size, waiting, linked, handler, asked>>

Nobody == [t \in Table |-> 0]

Handler == {"idle", "inquiring",
            "seating", "seated", "assign loaded", "assigning", "assigned",
            "cancel loaded", "releasing", "cancelling", "cancelled"}

LedgerTypeOK ==
    /\ size \in PartySizes
    /\ waiting \in BOOLEAN
    /\ linked \in [Table -> Nat]
    /\ handler \in [Call -> Handler]
    /\ asked \in [Call -> [Table -> Nat]]

LedgerInit ==
    /\ Init
    /\ size \in PartySizes
    /\ waiting = TRUE
    /\ linked = Nobody
    /\ handler = [c \in Call |-> "idle"]
    /\ asked = [c \in Call |-> Nobody]

-----------------------------------------------------------------------------
(* The handlers. *)

Goto(c, place) == handler' = [handler EXCEPT ![c] = place]

(* A handler of another ticket, or of nobody's. *)
Inquire(c) ==
    /\ handler[c] = "idle"
    /\ \E op \in {"getRestaurantStatus", "checkAvailability"} : Begin(c, op)
    /\ Goto(c, "inquiring")
    /\ UNCHANGED <<size, waiting, linked, asked>>

(* seat() throws unless the ticket waits; nothing is awaited from there to  *)
(* the call.                                                                *)
Seat(c) ==
    /\ handler[c] = "idle"
    /\ waiting
    /\ \E chosen \in (SUBSET Table) \ {{}} :
       \E list \in Listings([t \in Table |-> IF t \in chosen THEN 1 ELSE 0]) :
           asked' = [asked EXCEPT ![c] = Split(size, list, Table)]
    /\ Begin(c, "assignTables")
    /\ Goto(c, "seating")
    /\ UNCHANGED <<size, waiting, linked>>

(* tables/assign checks the ticket and the seats, queries the people ahead  *)
(* for the training event, and calls.                                       *)
AssignLoad(c) ==
    /\ handler[c] = "idle"
    /\ waiting
    /\ \E seats \in [Table -> 0..MaxCount] :
        /\ HasCapacity(size, seats)
        /\ asked' = [asked EXCEPT ![c] = seats]
    /\ Goto(c, "assign loaded")
    /\ UNCHANGED <<vars, size, waiting, linked>>

Assign(c) ==
    /\ handler[c] = "assign loaded"
    /\ Begin(c, "assignTables")
    /\ Goto(c, "assigning")
    /\ UNCHANGED <<size, waiting, linked, asked>>

(* assignTablesWithHistory. *)
SeatCommit(c) ==
    /\ handler[c] \in {"seating", "assigning"}
    /\ answer[c] = "ok"
    /\ linked' = [t \in Table |-> linked[t] + (IF asked[c][t] > 0 THEN 1 ELSE 0)]
    /\ waiting' = FALSE
    /\ Goto(c, IF handler[c] = "seating" THEN "seated" ELSE "assigned")
    /\ UNCHANGED <<vars, size, asked>>

CancelLoad(c) ==
    /\ handler[c] = "idle"
    /\ waiting
    /\ Goto(c, "cancel loaded")
    /\ UNCHANGED <<vars, size, waiting, linked, asked>>

(* Mutant: every table is given back for the whole party. *)
CancelReadWhole(c) ==
    /\ handler[c] = "cancel loaded"
    /\ \/ /\ linked = Nobody
          /\ Goto(c, "cancelling")
          /\ UNCHANGED <<vars, asked>>
       \/ /\ linked # Nobody
          /\ asked' = [asked EXCEPT ![c] = [t \in Table |-> size * linked[t]]]
          /\ Begin(c, "releaseTables")
          /\ Goto(c, "releasing")
    /\ UNCHANGED <<size, waiting, linked>>

(* findActiveTableAssignments returns the rows in any order; the party is   *)
(* divided over them again, whatever it was divided into.                   *)
CancelRead(c) ==
    /\ handler[c] = "cancel loaded"
    /\ \/ /\ linked = Nobody
          /\ Goto(c, "cancelling")
          /\ UNCHANGED <<vars, asked>>
       \/ /\ linked # Nobody
          /\ \E list \in Listings(linked) :
                 asked' = [asked EXCEPT ![c] = Split(size, list, Table)]
          /\ Begin(c, "releaseTables")
          /\ Goto(c, "releasing")
    /\ UNCHANGED <<size, waiting, linked>>

CancelUnlink(c) ==
    /\ handler[c] = "releasing"
    /\ answer[c] = "ok"
    /\ linked' = Nobody
    /\ Goto(c, "cancelling")
    /\ UNCHANGED <<vars, size, waiting, asked>>

CancelCommit(c) ==
    /\ handler[c] = "cancelling"
    /\ waiting' = FALSE
    /\ Goto(c, "cancelled")
    /\ UNCHANGED <<vars, size, linked, asked>>

Client ==
    /\ \/ \E c \in Call : Receive(c) \/ TimeOut(c) \/ Serve(c)
       \/ Reset
    /\ UNCHANGED ledgerVars

LedgerNext ==
    \/ \E c \in Call :
        \/ Inquire(c) \/ Seat(c) \/ AssignLoad(c) \/ Assign(c) \/ SeatCommit(c)
        \/ CancelLoad(c) \/ CancelRead(c) \/ CancelUnlink(c) \/ CancelCommit(c)
    \/ Client

LedgerSpec == LedgerInit /\ [][LedgerNext]_<<vars, ledgerVars>>

-----------------------------------------------------------------------------
(* What the restaurant service counts for the party. *)

Granting  == {"seating", "seated", "assigning", "assigned"}
Releasing == {"releasing", "cancelling", "cancelled"}

Grants   == {c \in Call : handler[c] \in Granting}
Releases == {c \in Call : handler[c] \in Releasing /\ asked[c] # Nobody}

Done(calls) == {c \in calls : effect[c]}

Counted(calls) == MapThenSumSet(LAMBDA c : Total(asked[c]), Done(calls))

(* What is left at a table after one grant and one release. *)
Left(grant, release, t) == asked[grant][t] - asked[release][t]

-----------------------------------------------------------------------------
(* Properties. *)

(* A party that was seated, by either endpoint, has a seat for everybody at *)
(* the restaurant as long as nobody gives its tables back: neither the      *)
(* division over the tables nor a lost answer loses a guest.                *)
SeatedIsCovered ==
    (\E c \in Call : handler[c] \in {"seated", "assigned"}) /\ Releases = {}
    => Counted(Grants) >= size

(* Only what was taken is given back.  A cancellation that overtook the     *)
(* seating gives back no more people than were seated, however often and    *)
(* over whatever tables that was, unless two cancellations read the same    *)
(* assignments.                                                             *)
ReleasedWithinGranted ==
    Cardinality(Releases) <= 1 => Counted(Releases) <= Counted(Grants)

(* And what /seat alone took is given back to the last person; a table may  *)
(* be off by one, because the assignments come back in any order, and the   *)
(* next table by minus one.                                                 *)
ReleasedAsSeated ==
    \A c, d \in Call :
        /\ handler[c] = "seated" /\ Grants = {c}
        /\ handler[d] \in {"cancelling", "cancelled"} /\ Releases = {d}
        => /\ Total(asked[c]) = Total(asked[d])
           /\ \A t \in Table : Left(c, d, t) \in -1..1

GivesBackWhatItTook == ReleasedWithinGranted /\ ReleasedAsSeated
=============================================================================
