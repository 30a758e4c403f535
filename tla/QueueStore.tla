----------------------------- MODULE QueueStore -----------------------------
(***************************************************************************)
(* Everything a request of the queue service changes and that outlives it: *)
(* the three PostgreSQL tables (queue_entries, queue_status_history,       *)
(* table_assignments), the Redis live-entry cache, and the tables held in  *)
(* the restaurant service.  The operators are the repository and client    *)
(* methods; a method that is one transaction is one operator and becomes   *)
(* visible at its commit.  PostgreSQL runs at READ COMMITTED: an update by *)
(* primary key waits for the row lock and then overwrites, so the last     *)
(* commit wins and no method compares the row with what its caller read.   *)
(*                                                                         *)
(* One restaurant.  Requests of two restaurants share no row except in the *)
(* one-ticket-per-user check, which ignores the restaurant.                *)
(***************************************************************************)
EXTENDS QueueEntry, Integers, Sequences, FiniteSets

CONSTANTS
    Entry,      \* ticket ids
    Table       \* table ids

ASSUME EntryAssumption == IsFiniteSet(Entry)

VARIABLES
    rows,       \* queue_entries: Entry -> Ticket
    history,    \* queue_status_history: Entry -> sequence of transitions
    seatings,   \* unreleased table_assignments: Entry -> Table -> how many rows
    cache,      \* Redis queue:live:<id>: the cached position, NoPosition = no key
    upstream    \* restaurant service: Table -> parties granted minus released

storeVars == <<rows, history, seatings, cache, upstream>>

Transition == [previous : Status \union {"NONE"}, current : Status]

StoreTypeOK ==
    /\ rows \in [Entry -> Ticket]
    /\ history \in [Entry -> Seq(Transition)]
    /\ seatings \in [Entry -> [Table -> Nat]]
    /\ cache \in [Entry -> Nat]
    /\ upstream \in [Table -> Int]

-----------------------------------------------------------------------------
(* Queries.  Each reads one committed state. *)

Active == {e \in Entry : IsWaiting(rows[e])}

ActiveByPhone(phone) == {e \in Active : rows[e].guest.phone = phone}

ActiveByUser(user) ==
    IF user = NoUser THEN {} ELSE {e \in Active : rows[e].guest.user = user}

(* Mutant: numbers from the tickets still waiting. *)
CountWaiting == Cardinality(Active)

(* getRegistrationMetrics: the depth of the queue, and the tickets created  *)
(* today.  The model spans one day, so every row counts.                    *)
QueueDepth == Cardinality(Active)
CountToday == Cardinality({e \in Entry : rows[e].status # "ABSENT"})

(* findActiveEntries orders by position, then joinedAt. *)
Before(e, f) ==
    \/ rows[e].position < rows[f].position
    \/ /\ rows[e].position = rows[f].position
       /\ rows[e].joinedAt < rows[f].joinedAt

(* The 1-based place of an active ticket in findActiveEntries. *)
Rank(e) == 1 + Cardinality({f \in Active : Before(f, e)})

-----------------------------------------------------------------------------
(* Transactions on the three tables. *)

LogTransition(e, previous, current) ==
    history' = [history EXCEPT ![e] =
                    Append(@, [previous |-> previous, current |-> current])]

CreateWithHistory(e, ticket) ==
    /\ rows' = [rows EXCEPT ![e] = ticket]
    /\ LogTransition(e, "NONE", ticket.status)
    /\ UNCHANGED seatings

(* Mutants: seating without the assignment rows, and without the log. *)
AssignWithoutTables(e, ticket, tables, previous) ==
    /\ rows' = [rows EXCEPT ![e] = ticket]
    /\ LogTransition(e, previous, ticket.status)
    /\ UNCHANGED seatings

AssignWithoutHistory(e, ticket, tables, previous) ==
    /\ seatings' = [seatings EXCEPT ![e] =
                        [t \in Table |-> @[t] + (IF t \in tables THEN 1 ELSE 0)]]
    /\ rows' = [rows EXCEPT ![e] = ticket]
    /\ UNCHANGED history

AssignTablesWithHistory(e, ticket, tables, previous) ==
    /\ seatings' = [seatings EXCEPT ![e] =
                        [t \in Table |-> @[t] + (IF t \in tables THEN 1 ELSE 0)]]
    /\ rows' = [rows EXCEPT ![e] = ticket]
    /\ LogTransition(e, previous, ticket.status)

(* Mutants: a status update without the log, and without the status. *)
UpdateWithoutHistory(e, ticket, previous) ==
    /\ rows' = [rows EXCEPT ![e] = ticket]
    /\ UNCHANGED <<history, seatings>>

UpdateOnlyPosition(e, ticket, previous) ==
    /\ rows' = [rows EXCEPT ![e].position = ticket.position]
    /\ LogTransition(e, previous, ticket.status)
    /\ UNCHANGED seatings

UpdateStatusWithHistory(e, ticket, previous) ==
    /\ rows' = [rows EXCEPT ![e] = ticket]
    /\ LogTransition(e, previous, ticket.status)
    /\ UNCHANGED seatings

(* The inherited save() upserts every column and writes no history. *)
SaveEntry(e, ticket) ==
    /\ rows' = [rows EXCEPT ![e] = ticket]
    /\ UNCHANGED <<history, seatings>>

ReleaseTableAssignments(e) ==
    /\ seatings' = [seatings EXCEPT ![e] = [t \in Table |-> 0]]
    /\ UNCHANGED <<rows, history>>

(* Mutant: the batch writes whole tickets, which are waiting ones. *)
BatchUpdateTickets(updates) ==
    /\ rows' = [e \in Entry |->
                    IF updates[e] = NoPosition THEN rows[e]
                    ELSE [rows[e] EXCEPT !.position = updates[e], !.status = "WAITING"]]
    /\ UNCHANGED <<history, seatings>>

(* updates[e] is the new position of e, NoPosition when e is not updated.   *)
(* Rows are addressed by id alone, whatever their status is by now.         *)
BatchUpdatePositions(updates) ==
    /\ rows' = [e \in Entry |->
                    IF updates[e] = NoPosition THEN rows[e]
                    ELSE [rows[e] EXCEPT !.position = updates[e]]]
    /\ UNCHANGED <<history, seatings>>

dbVars == <<rows, history, seatings>>

-----------------------------------------------------------------------------
(* Redis and the restaurant service. *)

SaveLiveEntries(updates, lost) ==
    cache' = [e \in Entry |->
                  IF updates[e] = NoPosition \/ e \in lost THEN cache[e]
                  ELSE updates[e]]

(* Mutant: a ticket that leaves stays cached. *)
KeepLiveEntry(e) == UNCHANGED cache

RemoveLiveEntry(e) == cache' = [cache EXCEPT ![e] = NoPosition]

(* Mutant: a fallback that reports success and grants nothing. *)
AssignNothing(tables) == UNCHANGED upstream

AssignUpstream(tables) ==
    upstream' = [t \in Table |-> upstream[t] + (IF t \in tables THEN 1 ELSE 0)]

ReleaseUpstream(held) ==
    upstream' = [t \in Table |-> upstream[t] - held[t]]
=============================================================================
