----------------------------- MODULE QueueEvents -----------------------------
(***************************************************************************)
(* What the parties see: the answer to a registration and the events in    *)
(* the room of a ticket, composed with the requests that send them.  An    *)
(* event goes out in the step that ends a recalculation or a request, so   *)
(* each action here is one of QueueService and what it announces.          *)
(*                                                                         *)
(* A party is taken to be in its room all the time (TicketRooms is about   *)
(* that).  TICKET_CALLED changes nothing a party sees of its place.        *)
(***************************************************************************)
EXTENDS QueueProperties

VARIABLE shown      \* Entry -> the status and position its party sees

liveVars == <<vars, shown>>

Seen(ticket) == [status |-> ticket.status, position |-> ticket.position]

LiveInit ==
    /\ Init
    /\ shown = [e \in Entry |-> Seen(rows[e])]

-----------------------------------------------------------------------------
(* Mutant: only the party a request is about hears of it. *)
AnnounceToOne(r, updates) ==
    shown' = [shown EXCEPT ![call[r].entry] = Seen(loaded[r])]

(* QUEUE_POSITION_UPDATED to everyone renumbered, then the event of the     *)
(* request to the party it is about: the status and position in memory.     *)
Announce(r, updates) ==
    shown' = [e \in Entry |->
                 IF e = call[r].entry THEN Seen(loaded[r])
                 ELSE IF updates[e] # NoPosition
                      THEN [status |-> "WAITING", position |-> updates[e]]
                 ELSE shown[e]]

(* The answer to a registration. *)
Registered(r) ==
    /\ RegisterStore(r)
    /\ shown' = [shown EXCEPT ![call[r].entry] = Seen(loaded[r])]

(* The recalculation found nothing to change. *)
Unmoved(r) ==
    /\ Recalculate(r)
    /\ pc'[r] = "idle"
    /\ Announce(r, NoUpdate)

Moved(r) ==
    /\ RecalculatePublish(r)
    /\ Announce(r, plan[r])

(* Mutant: tables/assign tells the staff only. *)
AssignedForStaff(r) ==
    /\ Evict(r)
    /\ pc'[r] = "idle"
    /\ UNCHANGED shown

(* TICKET_SEATED of the tables/assign endpoint. *)
Assigned(r) ==
    /\ Evict(r)
    /\ pc'[r] = "idle"
    /\ Announce(r, NoUpdate)

(* All other steps, in order of appearance in QueueService. *)
Silent(r) ==
    /\ \/ Accept(r) \/ Refuse(r) \/ Fail(r)
       \/ RegisterCheck(r) \/ RegisterDepth(r) \/ RegisterCount(r) \/ RegisterCreate(r)
       \/ RegisterVerify(r) \/ RegisterInsert(r)
       \/ Load(r) \/ RingSave(r) \/ RingEnqueue(r) \/ Occupy(r)
       \/ CancelAssignments(r) \/ CancelRelease(r) \/ CancelUnlink(r)
       \/ ShiftRank(r) \/ ShiftBatch(r) \/ Commit(r)
       \/ Evict(r) /\ pc'[r] = "recalc"
       \/ Recalculate(r) /\ pc'[r] = "write"
       \/ RecalculateWrite(r)
    /\ UNCHANGED shown

LiveNext ==
    \/ \E r \in Slot : Registered(r) \/ Unmoved(r) \/ Moved(r) \/ Assigned(r) \/ Silent(r)
    \/ (Expire \/ Quiet) /\ UNCHANGED shown

LiveSpec == LiveInit /\ [][LiveNext]_liveVars

LiveFairness == \A r \in Slot : WF_liveVars(LiveNext /\ Resumes(r))

FairLiveSpec == LiveSpec /\ LiveFairness

-----------------------------------------------------------------------------
(* Properties. *)

(* A party is told that it left only when it did, and that stays true: with *)
(* exclusive clients no failure after the announcement, no retry and no     *)
(* late recalculation of somebody else makes it wait again.                 *)
AnnouncedIsTrue ==
    \A e \in Entry : shown[e].status \in Terminal => rows[e].status = shown[e].status

(* A party that leaves the queue is told so by the request that removed it, *)
(* if nothing fails.  It need not be the last it hears: a recalculation     *)
(* that had listed it may still send it a position afterwards.              *)
Removing(e) ==
    \E r \in Running : pc[r] = "evict" /\ call[r].entry = e

LeavingIsAnnounced ==
    \A e \in Entry : Removing(e) ~> shown[e].status \in Terminal \/ faults > 0
=============================================================================
