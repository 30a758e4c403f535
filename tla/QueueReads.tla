------------------------------ MODULE QueueReads ------------------------------
(***************************************************************************)
(* The queries that show the waitlist to somebody: to the staff, to the    *)
(* customer, and to the model that learns how long a party waits.  They    *)
(* change nothing, but each one answers out of other columns of a ticket   *)
(* than the transitions maintain, so that the answers may contradict each  *)
(* other.                                                                  *)
(*                                                                         *)
(* Time is counted in joins.  A time stamp is the number of parties that   *)
(* had joined by then: it is later than the n-th join if it is at least n. *)
(***************************************************************************)
EXTENDS QueueStore

VARIABLES
    seatedAt,   \* Entry -> when the party was seated, Never before
    updatedAt   \* Entry -> the last write to the row of a party that left

columnVars == <<seatedAt, updatedAt>>

Never == 0

After(stamp, join) == stamp >= join

-----------------------------------------------------------------------------
(* The columns.  Prisma touches updatedAt with every update of the row that *)
(* does not set it, the batches of positions among them.  Nothing reads it  *)
(* while the party waits.                                                   *)

Ended(ticket) == ticket.status \in Terminal

ColumnsInit ==
    /\ seatedAt = [e \in Entry |-> Never]
    /\ updatedAt = [e \in Entry |-> Never]

StampRows(written, now) ==
    /\ seatedAt' = [e \in Entry |->
           IF rows'[e].status # "SEATED" THEN Never
           ELSE IF rows[e].status = "SEATED" THEN seatedAt[e] ELSE now]
    /\ updatedAt' = [e \in Entry |->
           IF ~Ended(rows'[e]) THEN Never
           ELSE IF e \in written THEN now ELSE updatedAt[e]]

-----------------------------------------------------------------------------
(* getStaffQueueSnapshot and mapToLiveQueueEntries: the tickets of one      *)
(* status and one range of party sizes, oldest first.  The positions are    *)
(* counted off while the list is mapped; those in the rows are not looked   *)
(* at.  A range of sizes may select any of the tickets.                     *)

(* Mutant: the newest ticket first. *)
StaffPlaceNewestFirst(e, selected) ==
    1 + Cardinality({f \in Active \intersect selected : rows[f].joinedAt > rows[e].joinedAt})

StaffPlace(e, selected) ==
    1 + Cardinality({f \in Active \intersect selected : rows[f].joinedAt < rows[e].joinedAt})

(* findActiveByUserId: of several active tickets the newest. *)
ActiveTicket(user) ==
    {e \in ActiveByUser(user) :
        \A f \in ActiveByUser(user) : rows[f].joinedAt <= rows[e].joinedAt}

-----------------------------------------------------------------------------
(* The parties totalPeopleAhead sums up: for a party about to join, and in  *)
(* retrospect, when tables are assigned to it, for the training event.      *)

PeopleAhead == Active

(* Mutants: every party that joined earlier; who left is not looked at. *)
PeopleAheadAtJoinUnseated(e) ==
    {f \in Entry : /\ rows[f].status # "ABSENT"
                   /\ rows[f].joinedAt < rows[e].joinedAt
                   /\ seatedAt[f] = Never \/ After(seatedAt[f], rows[e].joinedAt)}

PeopleAheadAtJoin(e) ==
    {f \in Entry : /\ rows[f].status # "ABSENT"
                   /\ rows[f].joinedAt < rows[e].joinedAt
                   /\ seatedAt[f] = Never \/ After(seatedAt[f], rows[e].joinedAt)
                   /\ ~(/\ rows[f].status \in {"CANCELLED", "NO_SHOW", "SKIPPED"}
                        /\ ~After(updatedAt[f], rows[e].joinedAt))}

(* Mutant: only a seated party has stopped waiting. *)
WaitDurationUntilSeated(e, now) ==
    (IF rows[e].status = "SEATED" THEN seatedAt[e] ELSE now) - rows[e].joinedAt

(* calculateWaitDurationMinutes, in joins. *)
WaitDuration(e, now) ==
    (IF rows[e].status = "SEATED" THEN seatedAt[e]
     ELSE IF IsWaiting(rows[e]) THEN now ELSE updatedAt[e]) - rows[e].joinedAt
=============================================================================
