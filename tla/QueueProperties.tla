--------------------------- MODULE QueueProperties ---------------------------
(***************************************************************************)
(* What the queue service should guarantee, from the weakest assumption    *)
(* about its clients to the strongest.                                     *)
(***************************************************************************)
EXTENDS QueueService

Last(s) == s[Len(s)]

-----------------------------------------------------------------------------
(* Whatever clients overlap, and whatever fails. *)

(* Every waiting ticket has a rank: no interleaving of the full-row writes  *)
(* of ring, shift and the transitions with the position batches of the      *)
(* recalculator leaves a waiting party with position = null, which          *)
(* PostgreSQL would sort behind everybody else.                             *)
WaitingIsRanked == \A e \in Active : rows[e].position # NoPosition

(* The audit log never shows a use case acting on a ticket it had read as   *)
(* gone: the first transition of a ticket creates it WAITING, and every     *)
(* later one, even of a request that lost a race, starts from WAITING.      *)
AuditStartsWaiting ==
    \A e \in Entry : \A i \in DOMAIN history[e] :
        /\ i = 1 <=> history[e][i].previous = "NONE"
        /\ i = 1 => history[e][i].current = "WAITING"
        /\ i > 1 => history[e][i].previous = "WAITING"

(* The stored status of a ticket is one the audit log reports for it, and a *)
(* ticket that is stored has a log.  Requests that write stale copies bring *)
(* back an old status, never one that was not committed with its history.   *)
StatusIsAudited ==
    \A e \in Entry :
        \/ rows[e].status = "ABSENT" /\ history[e] = <<>>
        \/ \E i \in DOMAIN history[e] : history[e][i].current = rows[e].status

(* The cache never holds a ticket that is not in the database: register     *)
(* caches after its transaction, the recalculator what it read there.       *)
CachedIsStored == \A e \in Entry : cache[e] # NoPosition => e \in Created

(* Every request is answered, but for a ring that waits until Redis takes   *)
(* its push job, which may be for ever; and no ring that hangs there keeps   *)
(* another request from being answered, on the same ticket or any other.    *)
EveryRequestAnswered ==
    \A r \in Slot : pc[r] # "idle" ~> pc[r] \in {"idle", "enqueue"}

-----------------------------------------------------------------------------
(* Clients that never overlap two requests on one ticket or one guest       *)
(* (Exclusive), while requests on other tickets interleave and fail.        *)

(* A ticket that left the queue stays as it left: seat, skip and cancel     *)
(* throw on it, and no position batch or recalculation started while it was *)
(* waiting brings it back.                                                  *)
TerminalIsFinal ==
    [][\A e \in Entry : rows[e].status \in Terminal => rows'[e].status = rows[e].status]_vars

(* Nothing a request did to a ticket is lost in the full-row write of       *)
(* another one's copy, but for positions: a row changes in its position     *)
(* alone, or it becomes what the use case of a request about it makes of    *)
(* the row as it is now, whatever it was when the copy was loaded.          *)
Body(ticket) == [ticket EXCEPT !.position = NoPosition]

NothingIsLost(e) ==
    \/ Body(rows'[e]) = Body(rows[e])
    \/ \E r \in Running : /\ call[r].entry = e
                          /\ Body(rows'[e]) = Body(Transform(call[r], rows[e]))

NoLostUpdates == [][\A e \in Created : NothingIsLost(e)]_vars

(* The audit log is a chain that ends at the stored status. *)
AuditIsChain ==
    \A e \in Created :
        /\ history[e] # <<>>
        /\ Last(history[e]).current = rows[e].status
        /\ \A i \in 2..Len(history[e]) : history[e][i].previous = history[e][i-1].current

(* A ticket holds tables in the database exactly when it is SEATED. *)
SeatedHoldsTables ==
    \A e \in Entry : rows[e].status = "SEATED" <=> seatings[e] # NoSeatings

(* Tables occupied upstream and not yet, or never, assigned here.  Seating  *)
(* calls the restaurant service first, so the difference is never negative; *)
(* it is the seatings in flight plus at most one party for every failure.   *)
Unassigned(t) == upstream[t] - Cardinality({e \in Entry : seatings[e][t] > 0})

InFlight(t) == Cardinality({r \in Running : /\ pc[r] = "commit"
                                            /\ t \in call[r].tables})

TablesAreAccounted ==
    \A t \in Table : Unassigned(t) - InFlight(t) \in 0..faults

(* A phone number waits once in a restaurant, a user once anywhere. *)
OneTicketPerPhone ==
    \A e, f \in Active : rows[e].guest.phone = rows[f].guest.phone => e = f

OneTicketPerUser ==
    \A e, f \in Active :
        /\ rows[e].guest.user = rows[f].guest.user
        /\ rows[e].guest.user # NoUser
        => e = f

OneTicketPerGuest == OneTicketPerPhone /\ OneTicketPerUser

(* The service implements the lifecycle of a ticket. *)
Lifecycle == INSTANCE TicketLifecycle WITH
    ticket <- [e \in Entry |-> rows[e].status],
    holds  <- [e \in Entry |-> {t \in Table : seatings[e][t] > 0}]

ImplementsLifecycle == Lifecycle!Spec

-----------------------------------------------------------------------------
(* What the proofs need beyond the properties: an invariant that a step     *)
(* preserves.  A request is Joining while its ticket has no row yet, Acting *)
(* once it has read a ticket that has one.                                  *)

Joining == {"check", "depth", "count", "create", "verify", "insert"}
Acting  == {"occupy", "assignments", "release", "unlink", "rank", "batch",
            "commit", "save"}

(* What a request holds in memory was waiting when it was read.  Only ring  *)
(* and register write the copy back as waiting, except for a shift.         *)
CopyWasWaiting ==
    \A r \in Slot :
        /\ pc[r] \in {"verify", "insert", "save"} => loaded[r].status = "WAITING"
        /\ pc[r] \in Acting => previous[r] = "WAITING" /\ loaded[r].status \in Status

(* A position a request is about to write for a waiting ticket is a rank.   *)
CopyIsRanked ==
    \A r \in Slot :
        /\ pc[r] \in {"count", "create", "verify", "insert"} =>
               loaded[r].position # NoPosition
        /\ pc[r] \in Acting /\ IsWaiting(loaded[r]) => loaded[r].position # NoPosition

(* A ticket has a row exactly when it has a log; whoever is joining has     *)
(* neither, and shares the ticket with nobody.                              *)
RowsHaveLogs ==
    /\ \A e \in Entry : rows[e].status = "ABSENT" <=> history[e] = <<>>
    /\ \A r \in Slot :
        pc[r] # "idle" =>
            IF pc[r] \in Joining
            THEN /\ call[r].entry \notin Created
                 /\ \A q \in Running : call[q].entry = call[r].entry => q = r
            ELSE call[r].entry \in Created

(* Plans position tickets that are stored. *)
PlansAreStored ==
    \A r \in Slot : \A e \in Entry : plan[r][e] # NoPosition => e \in Created

(* With exclusive clients: no two requests are about one ticket, so what a  *)
(* request read as waiting is still waiting when it writes.                 *)
Alone ==
    \A q, r \in Running : call[q].entry = call[r].entry => q = r

ActingOnWaiting ==
    \A r \in Slot : pc[r] \in Acting => rows[call[r].entry].status = "WAITING"

(* What was validated when the request was accepted, and which use case is  *)
(* at an await of its own.                                                  *)
CallsAreValid ==
    \A r \in Running :
        /\ call[r].tables # {} <=> call[r].op \in {"seat", "assign"}
        /\ call[r].op = "cancel" => call[r].status \in {"CANCELLED", "NO_SHOW"}
        /\ pc[r] \in Joining \union {"store"} => call[r].op = "register"
        /\ pc[r] = "rank" => call[r].op = "shift"

Outcomes(c) ==
    CASE c.op \in {"seat", "assign"} -> {"SEATED"}
      [] c.op = "skip"               -> {"SKIPPED"}
      [] c.op = "cancel"             -> {"CANCELLED", "NO_SHOW"}
      [] c.op = "shift"              -> {"WAITING", "SKIPPED"}
      [] OTHER                       -> {"WAITING"}

(* The copy has the status its use case leads to. *)
CopyIsOutcome ==
    \A r \in Slot : pc[r] \in Acting => loaded[r].status \in Outcomes(call[r])

(* With exclusive clients: a request that has written finds the row as it   *)
(* wrote it, until it ends; and nothing is left for a cancel to give back.  *)
Settling == {"store", "evict", "recalc", "write", "publish"}

WrittenStays ==
    \A r \in Slot : pc[r] \in Settling => loaded[r].status = rows[call[r].entry].status

(* Only a party that is being seated comes with tables; they are occupied    *)
(* before anything is committed.                                            *)
SeatingPath ==
    \A r \in Running :
        call[r].tables # {} => pc[r] \in {"load", "occupy", "commit"} \union Settling

NothingToRelease == \A r \in Slot : pc[r] \notin {"release", "unlink"}

(* With exclusive clients: the copy is of the guest whose ticket it is, two *)
(* guests who are joining are not the same one, and who is about to be      *)
(* inserted is not waiting already.                                         *)
CopyKeepsGuest ==
    \A r \in Slot :
        /\ pc[r] \in {"verify", "insert"} => loaded[r].guest = call[r].guest
        /\ pc[r] \in Acting => loaded[r].guest = rows[call[r].entry].guest

JoinersDiffer ==
    /\ \A q, r \in Running :
          call[q].op = "register" /\ call[r].op = "register" /\ q # r =>
              ~SameGuest(call[q].guest, call[r].guest)
    /\ \A r \in Slot : pc[r] = "insert" => ~Duplicate(call[r].guest)

(* Exclusive clients who were already waiting are different guests, too.    *)
InitialGuestsDiffer ==
    \A i, j \in DOMAIN InitialQueue :
        SameGuest(InitialQueue[i], InitialQueue[j]) => i = j
=============================================================================
