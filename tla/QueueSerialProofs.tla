--------------------------- MODULE QueueSerialProofs ---------------------------
(***************************************************************************)
(* Proofs about the queue served by one request at a time.  Every lemma    *)
(* is about a service with a single slot s.  Such a service is Apart: what *)
(* holds of clients that never overlap two requests on one ticket holds    *)
(* here, whatever the clients do.                                          *)
(***************************************************************************)
EXTENDS QueueSerial, QueueServiceProofs

-----------------------------------------------------------------------------
(* One request at a time: what each step does, in terms of that request.    *)

Batched(updates) ==
    [e \in Entry |-> IF updates[e] = NoPosition THEN rows[e]
                     ELSE [rows[e] EXCEPT !.position = updates[e]]]

Replaced(q) == [rows EXCEPT ![call[q].entry] = loaded[q]]

Passes(q, from, to) == pc[q] = from /\ pc'[q] = to

Rests(q) ==
    /\ UNCHANGED <<rows, clock>> /\ faults' \in {faults, faults + 1}
    /\ pc'[q] = pc[q] /\ call'[q] = call[q] /\ loaded'[q] = loaded[q] /\ plan'[q] = plan[q]

Starts(q) ==
    /\ UNCHANGED <<rows, clock, faults>>
    /\ pc[q] = "idle" /\ pc'[q] \in {"check", "load"} /\ call'[q] \in Requests

Ends(q) ==
    /\ UNCHANGED <<rows, clock>>
    /\ pc[q] # "idle" /\ pc'[q] = "idle"
    /\ \/ faults' = faults + 1
       \/ /\ faults' = faults /\ pc[q] \notin {"commit", "write"}
          /\ pc[q] = "evict" => call[q].op = "assign"
          /\ pc[q] = "recalc" => \E etaChanged \in SUBSET Active :
                                     Renumbering(etaChanged) = NoUpdate

Registers(q) ==
    /\ call'[q] = call[q] /\ plan'[q] = plan[q] /\ faults' = faults
    /\ \/ /\ Passes(q, "check", "depth") \/ Passes(q, "verify", "insert")
          /\ UNCHANGED <<rows, clock>> /\ loaded'[q] = loaded[q]
       \/ /\ Passes(q, "depth", "count") /\ UNCHANGED <<rows, clock>>
          /\ loaded'[q] = [loaded[q] EXCEPT !.position = QueueDepth + 1]
       \/ /\ Passes(q, "count", "create") /\ UNCHANGED <<rows, clock>>
          /\ loaded'[q] = [loaded[q] EXCEPT !.number = CountToday + 1]
       \/ /\ Passes(q, "create", "verify") /\ rows' = rows /\ clock' = clock + 1
          /\ loaded'[q] = CreateTicket(call[q].guest, loaded[q].position, loaded[q].number, clock')
       \/ /\ Passes(q, "insert", "store") /\ rows' = Replaced(q) /\ clock' = clock
          /\ loaded'[q] = loaded[q]

Transits(q) ==
    /\ call'[q] = call[q] /\ clock' = clock /\ faults' \in {faults, faults + 1}
    /\ \/ /\ Passes(q, "load", AfterLoad(call[q].op)) /\ rows' = rows /\ plan'[q] = plan[q]
          /\ Permitted(call[q], rows[call[q].entry])
          /\ loaded'[q] = Transform(call[q], rows[call[q].entry])
       \/ /\ \/ Passes(q, "occupy", "commit") \/ Passes(q, "unlink", "commit")
             \/ Passes(q, "assignments", "commit") \/ Passes(q, "assignments", "release")
             \/ Passes(q, "release", "unlink")
             \/ Passes(q, "evict", "recalc")
          /\ rows' = rows /\ loaded'[q] = loaded[q] /\ plan'[q] = plan[q]
       \/ /\ Passes(q, "rank", "batch") /\ rows' = rows /\ call[q].entry \in Active
          /\ plan'[q] = [f \in Entry |->
                 IF f \in Active
                 THEN ShiftedRank(call[q].entry, ShiftTarget(call[q].entry, call[q].shift), f)
                 ELSE NoPosition]
          /\ loaded'[q] = UpdatePosition(loaded[q], ShiftTarget(call[q].entry, call[q].shift))
       \/ /\ Passes(q, "rank", "commit") /\ rows' = rows /\ plan'[q] = plan[q]
          /\ loaded'[q] = SkipTicket(loaded[q])
       \/ /\ Passes(q, "batch", "commit") /\ rows' = Batched(plan[q])
          /\ loaded'[q] = loaded[q] /\ plan'[q] = NoUpdate
       \/ /\ Passes(q, "commit", IF IsWaiting(loaded[q]) THEN "recalc" ELSE "evict")
          /\ call[q].op \in {"seat", "assign", "skip", "shift", "cancel"}
          /\ rows' = Replaced(q) /\ loaded'[q] = loaded[q] /\ plan'[q] = plan[q]
       \/ /\ Passes(q, "recalc", "write") /\ rows' = rows /\ loaded'[q] = loaded[q]
          /\ \E etaChanged \in SUBSET Active : plan'[q] = Renumbering(etaChanged)
       \/ /\ Passes(q, "write", "publish") /\ rows' = Batched(plan[q])
          /\ loaded'[q] = loaded[q] /\ plan'[q] = plan[q]

Saves(q) ==
    /\ Passes(q, "save", "idle") \/ Passes(q, "save", "enqueue")
    /\ rows' = Replaced(q) /\ UNCHANGED <<clock, faults>>

Renumbers(q) ==
    /\ rows' = Batched(plan[q])
    /\ Passes(q, "batch", "commit") \/ Passes(q, "write", "publish")

Overwrites(q) ==
    /\ rows' = Replaced(q)
    /\ \/ Passes(q, "insert", "store")
       \/ Passes(q, "save", "idle") \/ Passes(q, "save", "enqueue")
       \/ Passes(q, "commit", IF IsWaiting(loaded[q]) THEN "recalc" ELSE "evict")

(* Every step is one of these. *)
LEMMA StepsOfOne ==
    ASSUME TypeOK, [Next]_vars, NEW s, Slot = {s}
    PROVE  Rests(s) \/ Starts(s) \/ Ends(s) \/ Registers(s) \/ Transits(s) \/ Saves(s)
<1>a. /\ pc \in [Slot -> Await] /\ call \in [Slot -> Call \union {NoCall}]
      /\ loaded \in [Slot -> Ticket] /\ plan \in [Slot -> [Entry -> Nat]] /\ s \in Slot
  BY DEF TypeOK, RequestTypeOK
<1> DEFINE Goal == Rests(s) \/ Starts(s) \/ Ends(s) \/ Registers(s) \/ Transits(s) \/ Saves(s)
<1> SUFFICES Goal
  OBVIOUS
<1>b. ASSUME NEW await, Goto(s, await) PROVE pc'[s] = await
  BY <1>a, <1>b DEF Goto
<1>c. ASSUME Finish(s) PROVE pc'[s] = "idle"
  BY <1>b, <1>c DEF Finish
<1>1. CASE Expire \/ UNCHANGED vars
  <2>1. Rests(s)
    BY <1>1 DEF Expire, SpendFault, Rests, vars, dbVars, localVars
  <2> QED
    BY <2>1
<1>2. CASE Accept(s)
  <2>1. PICK c \in Requests :
          call' = [call EXCEPT ![s] = c] /\ Goto(s, IF c.op = "register" THEN "check" ELSE "load")
    BY <1>2 DEF Accept
  <2>2. Starts(s)
    BY <1>a, <1>b, <1>2, <2>1 DEF Accept, Starts, At, storeVars
  <2> QED
    BY <2>2
<1>3. CASE Refuse(s) \/ Fail(s)
  <2>1. Ends(s)
    BY <1>c, <1>3 DEF Refuse, Fail, Ends, ReadsOnly, storeVars, SpendFault
  <2> QED
    BY <2>1
<1>4. CASE RegisterCheck(s) \/ RegisterVerify(s)
  <2>1. pc[s] \in {"check", "verify"} /\ UNCHANGED <<rows, clock, faults>>
    BY <1>4 DEF RegisterCheck, RegisterVerify, At, ReadsOnly, storeVars
  <2>2. CASE Finish(s)
    BY <1>c, <2>1, <2>2 DEF Ends
  <2>3. CASE ~Finish(s)
    <3>1. /\ Passes(s, "check", "depth") \/ Passes(s, "verify", "insert")
          /\ UNCHANGED localVars
      BY <1>b, <1>4, <2>3 DEF RegisterCheck, RegisterVerify, At, Passes
    <3> QED
      BY <2>1, <3>1 DEF Registers, localVars
  <2> QED
    BY <2>2, <2>3
<1>5. CASE RegisterDepth(s)
  <2>1. Passes(s, "depth", "count") /\ UNCHANGED <<rows, clock, faults, call, plan>>
    BY <1>b, <1>5 DEF RegisterDepth, At, ReadsOnly, storeVars, Passes
  <2>2. loaded'[s] = [loaded[s] EXCEPT !.position = QueueDepth + 1]
    BY <1>a, <1>5 DEF RegisterDepth
  <2> QED
    BY <2>1, <2>2 DEF Registers
<1>6. CASE RegisterCount(s)
  <2>1. Passes(s, "count", "create") /\ UNCHANGED <<rows, clock, faults, call, plan>>
    BY <1>b, <1>6 DEF RegisterCount, At, ReadsOnly, storeVars, Passes
  <2>2. loaded'[s] = [loaded[s] EXCEPT !.number = CountToday + 1]
    BY <1>a, <1>6 DEF RegisterCount
  <2> QED
    BY <2>1, <2>2 DEF Registers
<1>7. CASE RegisterCreate(s)
  <2>1. Passes(s, "create", "verify") /\ UNCHANGED <<rows, faults, call, plan>>
    BY <1>b, <1>7 DEF RegisterCreate, At, storeVars, Passes
  <2>2. /\ clock' = clock + 1
        /\ loaded'[s] = CreateTicket(call[s].guest, loaded[s].position, loaded[s].number, clock')
    BY <1>a, <1>7 DEF RegisterCreate
  <2> QED
    BY <2>1, <2>2 DEF Registers
<1>8. CASE RegisterInsert(s)
  <2>1. Passes(s, "insert", "store") /\ UNCHANGED <<clock, faults, localVars>>
    BY <1>b, <1>8 DEF RegisterInsert, At, Passes
  <2>2. rows' = Replaced(s)
    BY <1>8 DEF RegisterInsert, CreateWithHistory, Replaced
  <2> QED
    BY <2>1, <2>2 DEF Registers, localVars
<1>9. CASE RegisterStore(s) \/ RecalculatePublish(s)
  <2>1. /\ pc[s] \in {"store", "publish"} /\ pc'[s] = "idle" /\ UNCHANGED <<rows, clock>>
        /\ faults' \in {faults, faults + 1}
    BY <1>c, <1>9 DEF RegisterStore, RecalculatePublish, At, dbVars, SpendFault
  <2> QED
    BY <2>1 DEF Ends
<1>10. CASE Load(s)
  <2>1. pc[s] = "load" /\ UNCHANGED <<rows, clock, faults>>
    BY <1>10 DEF Load, At, ReadsOnly, storeVars
  <2>2. CASE Finish(s)
    BY <1>c, <2>1, <2>2 DEF Ends
  <2>3. CASE ~Finish(s)
    <3>1. /\ Permitted(call[s], rows[call[s].entry])
          /\ Goto(s, AfterLoad(call[s].op)) /\ UNCHANGED <<call, plan>>
          /\ loaded' = [loaded EXCEPT ![s] = Transform(call[s], rows[call[s].entry])]
      BY <1>10, <2>3 DEF Load
    <3>2. Transits(s)
      BY <1>a, <1>b, <2>1, <3>1 DEF Transits, Passes
    <3> QED
      BY <3>2
  <2> QED
    BY <2>2, <2>3
<1>11. CASE RingSave(s)
  <2>1. Saves(s)
    BY <1>b, <1>c, <1>11 DEF RingSave, SaveEntry, Replaced, Saves, Passes, At
  <2> QED
    BY <2>1
<1>21. CASE RingEnqueue(s)
  <2>1. Ends(s)
    BY <1>c, <1>21 DEF RingEnqueue, Ends, At, ReadsOnly, storeVars
  <2> QED
    BY <2>1
<1>12. CASE Occupy(s) \/ CancelRelease(s) \/ CancelUnlink(s)
  <2>1. /\ \/ Passes(s, "occupy", "commit") \/ Passes(s, "release", "unlink")
           \/ Passes(s, "unlink", "commit")
        /\ UNCHANGED <<rows, clock, faults, localVars>>
    BY <1>b, <1>12 DEF Occupy, CancelRelease, CancelUnlink, At, Passes, dbVars,
       ReleaseTableAssignments
  <2> QED
    BY <2>1 DEF Transits, localVars
<1>13. CASE CancelAssignments(s)
  <2>1. /\ Passes(s, "assignments", "commit") \/ Passes(s, "assignments", "release")
        /\ UNCHANGED <<rows, clock, faults, call, loaded, plan>>
    BY <1>b, <1>13 DEF CancelAssignments, At, Passes, ReadsOnly, storeVars
  <2> QED
    BY <2>1 DEF Transits
<1>14. CASE ShiftRank(s)
  <2> DEFINE e == call[s].entry
             target == ShiftTarget(e, call[s].shift)
  <2>1. pc[s] = "rank" /\ UNCHANGED <<rows, clock, faults, call>>
    BY <1>14 DEF ShiftRank, At, ReadsOnly, storeVars
  <2>2. CASE e \in Active
    <3>1. /\ Goto(s, "batch")
          /\ plan' = [plan EXCEPT ![s] =
                [f \in Entry |-> IF f \in Active THEN ShiftedRank(e, target, f) ELSE NoPosition]]
          /\ loaded' = [loaded EXCEPT ![s] = UpdatePosition(@, target)]
      BY <1>14, <2>2 DEF ShiftRank
    <3>2. /\ plan'[s] = [f \in Entry |-> IF f \in Active THEN ShiftedRank(e, target, f)
                                           ELSE NoPosition]
          /\ loaded'[s] = UpdatePosition(loaded[s], target)
      BY <1>a, <3>1
    <3>3. Passes(s, "rank", "batch")
      BY <1>b, <2>1, <3>1 DEF Passes
    <3> QED
      BY <2>1, <2>2, <3>2, <3>3 DEF Transits
  <2>3. CASE e \notin Active
    <3>1. /\ Goto(s, "commit") /\ UNCHANGED plan
          /\ loaded' = [loaded EXCEPT ![s] = SkipTicket(@)]
      BY <1>14, <2>3 DEF ShiftRank
    <3>2. Passes(s, "rank", "commit") /\ loaded'[s] = SkipTicket(loaded[s])
      BY <1>a, <1>b, <2>1, <3>1 DEF Passes
    <3> QED
      BY <2>1, <3>1, <3>2 DEF Transits
  <2> QED
    BY <2>2, <2>3
<1>15. CASE ShiftBatch(s)
  <2>1. /\ Passes(s, "batch", "commit") /\ UNCHANGED <<clock, faults, call, loaded>>
        /\ rows' = Batched(plan[s])
    BY <1>b, <1>15 DEF ShiftBatch, At, Passes, BatchUpdatePositions, Batched
  <2>2. plan'[s] = NoUpdate
    BY <1>a, <1>15 DEF ShiftBatch
  <2> QED
    BY <2>1, <2>2 DEF Transits
<1>16. CASE Commit(s)
  <2>1. /\ Passes(s, "commit", IF IsWaiting(loaded[s]) THEN "recalc" ELSE "evict")
        /\ call[s].op \in {"seat", "assign", "skip", "shift", "cancel"}
        /\ UNCHANGED <<clock, faults, localVars>>
    BY <1>b, <1>16 DEF Commit, At, Passes
  <2>2. rows' = Replaced(s)
    BY <1>16 DEF Commit, AssignTablesWithHistory, UpdateStatusWithHistory, Replaced
  <2> QED
    BY <2>1, <2>2 DEF Transits, localVars
<1>17. CASE Evict(s)
  <2>1. pc[s] = "evict" /\ UNCHANGED <<rows, clock>> /\ faults' \in {faults, faults + 1}
    BY <1>17 DEF Evict, At, dbVars, SpendFault
  <2>2. CASE call[s].op = "assign" /\ Finish(s)
    BY <1>c, <2>1, <2>2 DEF Ends
  <2>3. CASE Goto(s, "recalc") /\ UNCHANGED localVars
    BY <1>b, <2>1, <2>3 DEF Transits, Passes, localVars
  <2> QED
    BY <1>17, <2>2, <2>3 DEF Evict
<1>18. CASE Recalculate(s)
  <2>1. pc[s] = "recalc" /\ UNCHANGED <<rows, clock, faults>>
    BY <1>18 DEF Recalculate, At, ReadsOnly, storeVars
  <2>2. PICK etaChanged \in SUBSET Active :
          \/ Renumbering(etaChanged) = NoUpdate /\ Finish(s)
          \/ /\ plan' = [plan EXCEPT ![s] = Renumbering(etaChanged)]
             /\ Goto(s, "write") /\ UNCHANGED <<call, loaded>>
    BY <1>18 DEF Recalculate
  <2>3. CASE Finish(s) /\ Renumbering(etaChanged) = NoUpdate
    BY <1>c, <2>1, <2>3 DEF Ends
  <2>4. CASE /\ plan' = [plan EXCEPT ![s] = Renumbering(etaChanged)]
             /\ Goto(s, "write") /\ UNCHANGED <<call, loaded>>
    <3>1. plan'[s] = Renumbering(etaChanged) /\ Passes(s, "recalc", "write")
      BY <1>a, <1>b, <2>1, <2>4 DEF Passes
    <3> QED
      BY <2>1, <2>4, <3>1 DEF Transits
  <2> QED
    BY <2>2, <2>3, <2>4
<1>19. CASE RecalculateWrite(s)
  <2>1. /\ Passes(s, "write", "publish") /\ UNCHANGED <<clock, faults, localVars>>
        /\ rows' = Batched(plan[s])
    BY <1>b, <1>19 DEF RecalculateWrite, At, Passes, BatchUpdatePositions, Batched
  <2> QED
    BY <2>1 DEF Transits, localVars
<1> HIDE DEF Goal
<1>20. \/ Expire \/ UNCHANGED vars
       \/ Accept(s) \/ Refuse(s) \/ Fail(s) \/ Advance(s)
  BY DEF Next, Quiet
<1> QED
  BY <1>1, <1>2, <1>3, <1>4, <1>5, <1>6, <1>7, <1>8, <1>9, <1>10, <1>11, <1>12, <1>13, <1>14,
     <1>15, <1>16, <1>17, <1>18, <1>19, <1>20, <1>21 DEF Advance
(* What becomes of a row. *)
LEMMA RowOfOne ==
    ASSUME TypeOK, [Next]_vars, NEW s, Slot = {s}
    PROVE  /\ rows' = rows \/ Renumbers(s) \/ Overwrites(s)
           /\ \A e \in Entry :
                \/ rows'[e] = rows[e]
                \/ /\ Renumbers(s) /\ plan[s][e] # NoPosition
                   /\ rows'[e] = [rows[e] EXCEPT !.position = plan[s][e]]
                \/ Overwrites(s) /\ e = call[s].entry /\ rows'[e] = loaded[s]
<1>a. rows \in [Entry -> Ticket]
  BY DEF TypeOK, StoreTypeOK
<1>1. rows' = rows \/ Renumbers(s) \/ Overwrites(s)
  BY StepsOfOne DEF Rests, Starts, Ends, Registers, Transits, Saves, Renumbers, Overwrites
<1>2. ASSUME NEW e \in Entry, Renumbers(s)
      PROVE  \/ plan[s][e] = NoPosition /\ rows'[e] = rows[e]
             \/ plan[s][e] # NoPosition /\ rows'[e] = [rows[e] EXCEPT !.position = plan[s][e]]
  BY <1>2 DEF Renumbers, Batched
<1>3. ASSUME NEW e \in Entry, Overwrites(s)
      PROVE  rows'[e] = IF e = call[s].entry THEN loaded[s] ELSE rows[e]
  BY <1>a, <1>3 DEF Overwrites, Replaced
<1> QED
  BY <1>1, <1>2, <1>3

-----------------------------------------------------------------------------
(* Places are given up. *)

(* A ticket that left has no position.  This depends on requests that come   *)
(* one after the other: a batch that overlaps a departure writes one.       *)
OnlyWaitingIsRanked ==
    \A e \in Entry : ~IsWaiting(rows[e]) => rows[e].position = NoPosition

(* A copy that is not waiting has no position, and what is about to be       *)
(* renumbered is waiting.                                                   *)
PlacesAreGivenUp ==
    /\ OnlyWaitingIsRanked
    /\ \A r \in Slot :
           pc[r] \in Acting /\ ~IsWaiting(loaded[r]) => loaded[r].position = NoPosition
    /\ \A r \in Slot : \A e \in Entry :
           pc[r] \in {"batch", "write", "publish"} /\ plan[r][e] # NoPosition => e \in Active

(* What a use case makes of a waiting ticket either waits on or gives up its *)
(* position, and keeps the number and the time of joining.                  *)
LEMMA TransformGivesUp ==
    ASSUME NEW ticket \in Ticket, NEW c \in Call, Permitted(c, ticket)
    PROVE  /\ \/ IsWaiting(Transform(c, ticket))
              \/ Transform(c, ticket).position = NoPosition
           /\ Transform(c, ticket).number = ticket.number
           /\ Transform(c, ticket).joinedAt = ticket.joinedAt
<1>1. IsWaiting(ticket)
  BY DEF Permitted, CanRing
<1>2. /\ SeatTicket(ticket).position = NoPosition
      /\ SeatTicket(ticket).number = ticket.number
      /\ SeatTicket(ticket).joinedAt = ticket.joinedAt
  BY DEF SeatTicket, Ticket
<1>3. /\ SkipTicket(ticket).position = NoPosition
      /\ SkipTicket(ticket).number = ticket.number
      /\ SkipTicket(ticket).joinedAt = ticket.joinedAt
  BY DEF SkipTicket, Ticket
<1>4. /\ CancelTicket(ticket, c.status).position = NoPosition
      /\ CancelTicket(ticket, c.status).number = ticket.number
      /\ CancelTicket(ticket, c.status).joinedAt = ticket.joinedAt
  BY DEF CancelTicket, Ticket
<1>5. /\ IsWaiting(RingTicket(ticket))
      /\ RingTicket(ticket).number = ticket.number
      /\ RingTicket(ticket).joinedAt = ticket.joinedAt
  BY <1>1 DEF RingTicket, Ticket, IsWaiting
<1> QED
  BY <1>1, <1>2, <1>3, <1>4, <1>5 DEF Transform

(* Positions are given up in memory, and with the copy in the row.           *)
LEMMA PlacesStep ==
    ASSUME NEW s, Slot = {s}, ExclusiveInvariant, PlacesAreGivenUp, [Next]_vars
    PROVE  PlacesAreGivenUp'
<1>a. /\ TypeOK /\ CopyWasWaiting /\ s \in Slot /\ rows \in [Entry -> Ticket]
      /\ loaded[s] \in Ticket /\ plan[s] \in [Entry -> Nat]
      /\ pc[s] # "idle" => call[s] \in Call /\ call[s].entry \in Entry
  BY DEF ExclusiveInvariant, TypeOK, StoreTypeOK, RequestTypeOK, Call
<1>b. /\ \A e \in Entry : ~IsWaiting(rows[e]) => rows[e].position = NoPosition
      /\ pc[s] \in Acting /\ ~IsWaiting(loaded[s]) => loaded[s].position = NoPosition
      /\ \A e \in Entry :
           pc[s] \in {"batch", "write", "publish"} /\ plan[s][e] # NoPosition => e \in Active
  BY DEF PlacesAreGivenUp, OnlyWaitingIsRanked
<1>1. ASSUME NEW e \in Entry, ~IsWaiting(rows'[e]) PROVE rows'[e].position = NoPosition
  <2>1. CASE rows'[e] = rows[e]
    BY <1>b, <1>1, <2>1
  <2>2. CASE /\ Renumbers(s) /\ plan[s][e] # NoPosition
             /\ rows'[e] = [rows[e] EXCEPT !.position = plan[s][e]]
    <3>1. e \in Active
      BY <1>b, <2>2 DEF Renumbers, Passes
    <3> QED
      BY <1>a, <1>1, <2>2, <3>1 DEF Active, IsWaiting, Ticket
  <2>3. CASE Overwrites(s) /\ rows'[e] = loaded[s]
    <3>1. pc[s] \in {"insert", "save", "commit"}
      BY <2>3 DEF Overwrites, Passes
    <3>2. pc[s] # "insert"
      BY <1>a, <1>1, <2>3 DEF CopyWasWaiting, IsWaiting
    <3> QED
      BY <1>b, <1>1, <2>3, <3>1, <3>2 DEF Acting
  <2> QED
    BY <1>a, <2>1, <2>2, <2>3, RowOfOne
<1>2. ASSUME pc'[s] \in Acting, ~IsWaiting(loaded'[s]) PROVE loaded'[s].position = NoPosition
  <2>1. CASE pc[s] \in Acting /\ loaded'[s] = loaded[s]
    BY <1>b, <1>2, <2>1
  <2>2. CASE ShiftRank(s)
    <3>1. pc[s] \in Acting
      BY <2>2 DEF ShiftRank, At, Acting
    <3>2. \/ loaded'[s] = SkipTicket(loaded[s])
          \/ loaded'[s] = UpdatePosition(loaded[s], ShiftTarget(call[s].entry, call[s].shift))
      BY <1>a, <2>2 DEF ShiftRank, TypeOK, RequestTypeOK
    <3>3. SkipTicket(loaded[s]).position = NoPosition
      BY <1>a DEF SkipTicket, Ticket
    <3>4. \A n : IsWaiting(loaded[s]) => IsWaiting(UpdatePosition(loaded[s], n))
      BY <1>a DEF UpdatePosition, IsWaiting, Ticket
    <3>5. \A n : ~IsWaiting(loaded[s]) => UpdatePosition(loaded[s], n) = loaded[s]
      BY DEF UpdatePosition
    <3> QED
      BY <1>b, <1>2, <3>1, <3>2, <3>3, <3>4, <3>5
  <2>3. CASE /\ Load(s) /\ loaded'[s] = Transform(call[s], rows[call[s].entry])
             /\ Permitted(call[s], rows[call[s].entry])
    <3>1. pc[s] # "idle"
      BY <2>3 DEF Load, At
    <3> QED
      BY <1>a, <1>2, <2>3, <3>1, TransformGivesUp
  <2> QED
    BY <1>a, <1>2, <2>1, <2>2, <2>3, ActingFrom
<1>3. ASSUME NEW e \in Entry, pc'[s] \in {"batch", "write", "publish"}, plan'[s][e] # NoPosition
      PROVE  e \in Active'
  <2>1. CASE Rests(s)
    BY <1>b, <1>3, <2>1 DEF Rests, Active
  <2>2. CASE Starts(s) \/ Ends(s) \/ Saves(s) \/ Registers(s)
    BY <1>3, <2>2 DEF Starts, Ends, Saves, Registers, Passes
  <2>3. CASE Transits(s)
    <3>1. CASE Passes(s, "rank", "batch")
      <4>1. /\ rows' = rows
            /\ plan'[s] = [f \in Entry |->
                   IF f \in Active
                   THEN ShiftedRank(call[s].entry, ShiftTarget(call[s].entry, call[s].shift), f)
                   ELSE NoPosition]
        BY <2>3, <3>1 DEF Transits, Passes, AfterLoad
      <4> QED
        BY <1>3, <4>1 DEF Active
    <3>2. CASE Passes(s, "recalc", "write")
      <4>1. rows' = rows /\ \E etaChanged \in SUBSET Active : plan'[s] = Renumbering(etaChanged)
        BY <2>3, <3>2 DEF Transits, Passes, AfterLoad
      <4> QED
        BY <1>3, <4>1 DEF Active, Renumbering
    <3>3. CASE Passes(s, "write", "publish")
      <4>1. rows' = Batched(plan[s]) /\ plan'[s] = plan[s]
        BY <2>3, <3>3 DEF Transits, Passes, AfterLoad
      <4>2. e \in Active
        BY <1>b, <1>3, <3>3, <4>1 DEF Passes
      <4> QED
        BY <1>a, <4>1, <4>2 DEF Active, IsWaiting, Batched, Ticket
    <3> QED
      BY <1>3, <2>3, <3>1, <3>2, <3>3 DEF Transits, Passes, AfterLoad
  <2> QED
    BY <1>a, <2>1, <2>2, <2>3, StepsOfOne
<1> QED
  BY <1>1, <1>2, <1>3 DEF PlacesAreGivenUp, OnlyWaitingIsRanked

-----------------------------------------------------------------------------
(* Numbers and times of joining. *)

(* The parties that wait in the beginning have numbers, positions and times  *)
(* of joining that count them: 1, 2, ...                                    *)
LEMMA InitPlaces ==
    ASSUME Init
    PROVE  /\ clock \in Nat /\ CountToday = clock /\ Active = Created
           /\ \A e \in Created :
                /\ rows[e].number \in 1..clock
                /\ rows[e].position = rows[e].number /\ rows[e].joinedAt = rows[e].number
                /\ cache[e] = rows[e].number
           /\ \A e, f \in Created : rows[e].number = rows[f].number => e = f
           /\ \A n \in 1..clock : \E e \in Created : rows[e].number = n
           /\ \A e \in Entry \ Created : rows[e] = AbsentRow /\ cache[e] = NoPosition
<1>1. PICK ids \in [DOMAIN InitialQueue -> Entry] :
        /\ \A i, j \in DOMAIN InitialQueue : ids[i] = ids[j] => i = j
        /\ LET Place(g) == CHOOSE i \in DOMAIN InitialQueue : ids[i] = g
               queued   == {ids[i] : i \in DOMAIN InitialQueue}
           IN /\ rows = [g \in Entry |->
                 IF g \in queued
                 THEN CreateTicket(InitialQueue[Place(g)], Place(g), Place(g), Place(g))
                 ELSE AbsentRow]
              /\ cache = [g \in Entry |-> IF g \in queued THEN Place(g) ELSE NoPosition]
  BY DEF Init
<1> DEFINE Place(g) == CHOOSE i \in DOMAIN InitialQueue : ids[i] = g
           queued   == {ids[i] : i \in DOMAIN InitialQueue}
<1>2. clock = Len(InitialQueue) /\ clock \in Nat /\ DOMAIN InitialQueue = 1..clock
  BY ServiceAssumption DEF Init
<1>3. ASSUME NEW g \in queued
      PROVE  /\ g \in Entry /\ Place(g) \in 1..clock /\ ids[Place(g)] = g
             /\ rows[g] = CreateTicket(InitialQueue[Place(g)], Place(g), Place(g), Place(g))
             /\ cache[g] = Place(g)
  <2>1. g \in Entry /\ Place(g) \in 1..clock /\ ids[Place(g)] = g
    BY <1>2, <1>3
  <2> QED
    BY <1>1, <2>1
<1>4. \A g \in Entry \ queued : rows[g] = AbsentRow /\ cache[g] = NoPosition
  BY <1>1
<1>5. ASSUME NEW i \in 1..clock PROVE ids[i] \in queued /\ Place(ids[i]) = i
  <2>1. ids[i] \in queued
    BY <1>2, <1>5
  <2> QED
    BY <1>1, <1>2, <1>3, <1>5, <2>1
<1> HIDE DEF Place
<1>6. ASSUME NEW g \in queued
      PROVE  /\ rows[g].status = "WAITING" /\ rows[g].position = Place(g)
             /\ rows[g].number = Place(g) /\ rows[g].joinedAt = Place(g)
  <2>1. rows[g] = CreateTicket(InitialQueue[Place(g)], Place(g), Place(g), Place(g))
    BY <1>3
  <2> QED
    BY <2>1 DEF CreateTicket
<1>7. Created = queued /\ Active = queued
  <2>1. queued \subseteq Entry
    BY <1>3
  <2> HIDE DEF queued
  <2> QED
    BY <1>4, <1>6, <2>1 DEF Created, Active, AbsentRow, IsWaiting
<1>8. CountToday = clock
  <2>1. ids \in Bijection(1..clock, queued)
    <3>1. ids \in [1..clock -> queued]
      BY <1>2
    <3>2. \A i, j \in 1..clock : ids[i] = ids[j] => i = j
      BY <1>1, <1>2
    <3>3. \A g \in queued : \E i \in 1..clock : ids[i] = g
      BY <1>3
    <3> QED
      BY <3>1, <3>2, <3>3 DEF Bijection, Injection, Surjection, IsInjective
  <2>2. Cardinality(queued) = clock
    BY <1>2, <2>1, FS_CountingElements DEF ExistsBijection
  <2> QED
    BY <1>7, <2>2 DEF CountToday, Created
<1> HIDE DEF queued
<1>9. /\ \A e \in queued : Place(e) \in 1..clock /\ cache[e] = Place(e)
      /\ \A e, f \in queued : Place(e) = Place(f) => e = f
  BY <1>3
<1>10. \A n \in 1..clock : \E e \in queued : Place(e) = n
  BY <1>5
<1>11. \A e \in queued :
          /\ rows[e].number \in 1..clock
          /\ rows[e].position = rows[e].number /\ rows[e].joinedAt = rows[e].number
          /\ cache[e] = rows[e].number
  BY <1>6, <1>9
<1>12. /\ \A e, f \in queued : rows[e].number = rows[f].number => e = f
       /\ \A n \in 1..clock : \E e \in queued : rows[e].number = n
  BY <1>6, <1>9, <1>10
<1> QED
  BY <1>2, <1>4, <1>7, <1>8, <1>11, <1>12

(* Copies keep the number and the time of joining of their ticket.           *)
CopyKeepsStamps ==
    \A r \in Slot : pc[r] \in Acting =>
        /\ loaded[r].number = rows[call[r].entry].number
        /\ loaded[r].joinedAt = rows[call[r].entry].joinedAt

(* The party of q joins the queue as e. *)
Inserts(q, e) ==
    /\ Passes(q, "insert", "store") /\ call[q].entry = e /\ rows' = Replaced(q)
    /\ e \notin Created /\ e \in Active' /\ rows'[e] = loaded[q]

(* A row is created once, and keeps its number and its time of joining.      *)
LEMMA StampsOfOne ==
    ASSUME NEW s, Slot = {s}, ExclusiveInvariant, CopyKeepsStamps, [Next]_vars,
           NEW e \in Entry
    PROVE  \/ /\ rows'[e].number = rows[e].number /\ rows'[e].joinedAt = rows[e].joinedAt
              /\ e \in Created' <=> e \in Created
           \/ Inserts(s, e)
<1>a. /\ TypeOK /\ CopyWasWaiting /\ s \in Slot /\ rows \in [Entry -> Ticket]
      /\ loaded[s] \in Ticket
      /\ pc[s] # "idle" => call[s] \in Call /\ call[s].entry \in Entry
  BY DEF ExclusiveInvariant, TypeOK, StoreTypeOK, RequestTypeOK, Call
<1>1. CASE rows'[e] = rows[e]
  BY <1>1 DEF Created
<1>2. CASE rows'[e] = [rows[e] EXCEPT !.position = plan[s][e]]
  BY <1>a, <1>2 DEF Created, Ticket
<1>3. CASE Overwrites(s) /\ e = call[s].entry /\ rows'[e] = loaded[s]
  <2>1. CASE pc[s] = "insert"
    <3>1. e \notin Created
      BY <1>3, <2>1 DEF ExclusiveInvariant, RowsHaveLogs, Joining
    <3>2. loaded[s].status = "WAITING"
      BY <1>a, <2>1 DEF CopyWasWaiting
    <3> QED
      BY <1>3, <2>1, <3>1, <3>2 DEF Overwrites, Passes, Inserts, Active, IsWaiting
  <2>2. CASE pc[s] \in {"save", "commit"}
    <3>1. e \in Created
      BY <1>3, <2>2 DEF ExclusiveInvariant, RowsHaveLogs, Joining
    <3>2. loaded[s].status \in Status /\ loaded[s].status # "ABSENT"
      BY <1>a, <2>2 DEF CopyWasWaiting, Acting, Status, Terminal
    <3>3. /\ loaded[s].number = rows[e].number /\ loaded[s].joinedAt = rows[e].joinedAt
      BY <1>3, <2>2 DEF CopyKeepsStamps, Acting
    <3> QED
      BY <1>3, <3>1, <3>2, <3>3 DEF Created
  <2> QED
    BY <1>3, <2>1, <2>2 DEF Overwrites, Passes
<1> QED
  BY <1>a, <1>1, <1>2, <1>3, RowOfOne

(* The copies keep them, too. *)
LEMMA CopyKeepsStampsStep ==
    ASSUME NEW s, Slot = {s}, ExclusiveInvariant, CopyKeepsStamps, [Next]_vars
    PROVE  CopyKeepsStamps'
<1> SUFFICES ASSUME pc'[s] \in Acting
             PROVE  /\ loaded'[s].number = rows'[call'[s].entry].number
                    /\ loaded'[s].joinedAt = rows'[call'[s].entry].joinedAt
  BY DEF CopyKeepsStamps
<1>a. /\ TypeOK /\ s \in Slot /\ rows \in [Entry -> Ticket] /\ loaded[s] \in Ticket
      /\ loaded \in [Slot -> Ticket] /\ CopyWasWaiting
      /\ pc[s] # "idle" => call[s] \in Call /\ call[s].entry \in Entry
  BY DEF ExclusiveInvariant, TypeOK, StoreTypeOK, RequestTypeOK, Call
<1>b. call'[s] = call[s] /\ pc[s] # "idle"
  BY <1>a, ActingFrom
<1> DEFINE e == call[s].entry
<1>1. ~Inserts(s, e)
  BY DEF Inserts, Passes, Acting
<1>2. /\ rows'[e].number = rows[e].number /\ rows'[e].joinedAt = rows[e].joinedAt
  BY <1>a, <1>b, <1>1, StampsOfOne
<1>3. CASE pc[s] \in Acting /\ loaded'[s] = loaded[s]
  BY <1>b, <1>2, <1>3 DEF CopyKeepsStamps
<1>4. CASE ShiftRank(s)
  <2>1. pc[s] \in Acting
    BY <1>4 DEF ShiftRank, At, Acting
  <2>2. \/ loaded'[s] = SkipTicket(loaded[s])
        \/ loaded'[s] = UpdatePosition(loaded[s], ShiftTarget(e, call[s].shift))
    BY <1>a, <1>4 DEF ShiftRank
  <2>3. loaded'[s].number = loaded[s].number /\ loaded'[s].joinedAt = loaded[s].joinedAt
    BY <1>a, <2>2 DEF SkipTicket, UpdatePosition, Ticket
  <2> QED
    BY <1>b, <1>2, <2>1, <2>3 DEF CopyKeepsStamps
<1>5. CASE /\ Load(s) /\ loaded'[s] = Transform(call[s], rows[call[s].entry])
           /\ Permitted(call[s], rows[call[s].entry])
  BY <1>a, <1>b, <1>2, <1>5, TransformGivesUp
<1> QED
  BY <1>a, <1>3, <1>4, <1>5, ActingFrom

(* How many rows there are. *)
LEMMA CountStep ==
    ASSUME NEW s, Slot = {s}, ExclusiveInvariant, CopyKeepsStamps, [Next]_vars
    PROVE  \/ Created' = Created /\ CountToday' = CountToday
           \/ /\ Inserts(s, call[s].entry) /\ call[s].entry \in Entry
              /\ Created' = Created \union {call[s].entry} /\ CountToday' = CountToday + 1
<1>a. /\ Created \subseteq Entry /\ Created' \subseteq Entry /\ IsFiniteSet(Created)
      /\ CountToday = Cardinality(Created) /\ CountToday' = Cardinality(Created')
      /\ pc[s] # "idle" => call[s].entry \in Entry
  BY EntryAssumption, FS_Subset
  DEF Created, CountToday, ExclusiveInvariant, TypeOK, RequestTypeOK, Call
<1>1. CASE \E e \in Entry : Inserts(s, e)
  <2>1. Inserts(s, call[s].entry) /\ call[s].entry \in Entry
    BY <1>1 DEF Inserts
  <2>2. \A e \in Entry : e # call[s].entry => (e \in Created' <=> e \in Created)
    BY StampsOfOne DEF Inserts
  <2>3. call[s].entry \in Created'
    BY <2>1 DEF Inserts, Active, Created, IsWaiting
  <2>4. Created' = Created \union {call[s].entry}
    BY <1>a, <2>1, <2>2, <2>3
  <2>5. Cardinality(Created') = Cardinality(Created) + 1
    BY <1>a, <2>1, <2>4, FS_AddElement DEF Inserts
  <2> QED
    BY <1>a, <2>1, <2>4, <2>5
<1>2. CASE \A e \in Entry : ~Inserts(s, e)
  <2>1. \A e \in Entry : e \in Created' <=> e \in Created
    BY <1>2, StampsOfOne
  <2> QED
    BY <1>a, <2>1
<1> QED
  BY <1>1, <1>2

(* A party joins step by step; nothing else moves meanwhile. *)
LEMMA JoiningOfOne ==
    ASSUME TypeOK, [Next]_vars, NEW s, Slot = {s},
           pc'[s] \in {"count", "create", "verify", "insert"}
    PROVE  /\ rows' = rows /\ call'[s] = call[s] /\ pc[s] # "idle"
           /\ \/ pc'[s] = pc[s] /\ loaded'[s] = loaded[s] /\ clock' = clock
              \/ /\ Passes(s, "depth", "count") /\ clock' = clock
                 /\ loaded'[s] = [loaded[s] EXCEPT !.position = QueueDepth + 1]
              \/ /\ Passes(s, "count", "create") /\ clock' = clock
                 /\ loaded'[s] = [loaded[s] EXCEPT !.number = CountToday + 1]
              \/ /\ Passes(s, "create", "verify") /\ clock' = clock + 1
                 /\ loaded'[s] = CreateTicket(call[s].guest, loaded[s].position,
                                              loaded[s].number, clock')
              \/ Passes(s, "verify", "insert") /\ clock' = clock /\ loaded'[s] = loaded[s]
<1>1. CASE Rests(s)
  BY <1>1 DEF Rests
<1>2. CASE Registers(s)
  BY <1>2 DEF Registers, Passes
<1>3. CASE Starts(s) \/ Ends(s) \/ Saves(s) \/ Transits(s)
  BY <1>3 DEF Starts, Ends, Saves, Transits, Passes, AfterLoad
<1> QED
  BY <1>1, <1>2, <1>3, StepsOfOne

(* Every row was counted by the next registration: with one request at a     *)
(* time nothing is created between the count and the insert.                *)
NumbersAreCounted ==
    /\ \A e, f \in Created : rows[e].number = rows[f].number => e = f
    /\ \A e \in Created : rows[e].number <= CountToday
    /\ \A r \in Slot : pc[r] \in {"create", "verify", "insert"} =>
           loaded[r].number = CountToday + 1

(* A later registration counts one row more. *)
LEMMA NumbersStep ==
    ASSUME NEW s, Slot = {s}, ExclusiveInvariant, CopyKeepsStamps, NumbersAreCounted, [Next]_vars
    PROVE  NumbersAreCounted'
<1>a. /\ TypeOK /\ s \in Slot /\ Created \subseteq Entry
      /\ \A e \in Entry : rows[e].number \in Nat
      /\ loaded[s] \in Ticket
  BY DEF ExclusiveInvariant, TypeOK, StoreTypeOK, RequestTypeOK, Created, Ticket
<1>b. CountToday \in Nat
  BY CountsAreNatural
<1>c. /\ \A e, f \in Created : rows[e].number = rows[f].number => e = f
      /\ \A e \in Created : rows[e].number <= CountToday
      /\ pc[s] \in {"create", "verify", "insert"} => loaded[s].number = CountToday + 1
  BY <1>a DEF NumbersAreCounted
<1>1. CASE Created' = Created /\ CountToday' = CountToday
  <2>1. ASSUME NEW e \in Created PROVE rows'[e].number = rows[e].number
    BY <1>a, <2>1, StampsOfOne DEF Inserts
  <2>2. ASSUME pc'[s] \in {"create", "verify", "insert"}
        PROVE  loaded'[s].number = CountToday' + 1
    <3>1. CASE pc[s] = "count" /\ loaded'[s] = [loaded[s] EXCEPT !.number = CountToday + 1]
      BY <1>1, <1>a, <3>1 DEF Ticket
    <3>2. CASE pc[s] = "create" /\ loaded'[s] = CreateTicket(call[s].guest, loaded[s].position,
                                                           loaded[s].number, clock')
      BY <1>1, <1>c, <3>2 DEF CreateTicket
    <3>3. CASE pc[s] \in {"create", "verify", "insert"} /\ loaded'[s] = loaded[s]
      BY <1>1, <1>c, <3>3
    <3> QED
      BY <1>a, <2>2, <3>1, <3>2, <3>3, JoiningOfOne DEF Passes
  <2> QED
    BY <1>1, <1>a, <1>c, <2>1, <2>2 DEF NumbersAreCounted
<1>2. CASE /\ Inserts(s, call[s].entry) /\ call[s].entry \in Entry
           /\ Created' = Created \union {call[s].entry} /\ CountToday' = CountToday + 1
  <2> DEFINE new == call[s].entry
  <2>1. ASSUME NEW e \in Created PROVE rows'[e].number = rows[e].number
    BY <1>a, <2>1, StampsOfOne DEF Inserts
  <2>2. rows'[new].number = CountToday + 1 /\ pc'[s] = "store" /\ new \notin Created
    BY <1>2, <1>c DEF Inserts, Passes
  <2>3. ASSUME NEW e \in Created', NEW f \in Created', rows'[e].number = rows'[f].number
        PROVE  e = f
    <3>1. e \in Created \/ e = new
      BY <1>2
    <3>2. f \in Created \/ f = new
      BY <1>2
    <3>3. ASSUME NEW g \in Created PROVE rows'[g].number # CountToday + 1
      <4>1. rows'[g].number = rows[g].number /\ rows[g].number \in Nat
        BY <1>a, <2>1
      <4> QED
        BY <1>b, <1>c, <4>1
    <3> QED
      BY <1>c, <2>1, <2>2, <2>3, <3>1, <3>2, <3>3
  <2>4. ASSUME NEW e \in Created' PROVE rows'[e].number <= CountToday + 1
    <3>1. CASE e \in Created
      <4>1. rows'[e].number = rows[e].number /\ rows[e].number \in Nat
        BY <1>a, <2>1, <3>1
      <4> QED
        BY <1>b, <1>c, <3>1, <4>1
    <3> QED
      BY <1>2, <1>b, <2>2, <2>4, <3>1
  <2> QED
    BY <1>2, <1>a, <2>2, <2>3, <2>4 DEF NumbersAreCounted
<1> QED
  BY <1>1, <1>2, CountStep

(* Everybody has joined at a time of their own, before the clock's time.     *)
JoinsAreStamped ==
    /\ \A e, f \in Created : rows[e].joinedAt = rows[f].joinedAt => e = f
    /\ \A e \in Created : rows[e].joinedAt \in 1..clock
    /\ \A r \in Slot : pc[r] \in {"verify", "insert"} =>
           /\ loaded[r].joinedAt = clock /\ clock >= 1
           /\ \A e \in Created : rows[e].joinedAt < clock

(* A later registration is stamped later. *)
LEMMA JoinsStep ==
    ASSUME NEW s, Slot = {s}, ExclusiveInvariant, CopyKeepsStamps, JoinsAreStamped, [Next]_vars
    PROVE  JoinsAreStamped'
<1>a. /\ TypeOK /\ s \in Slot /\ Created \subseteq Entry /\ clock \in Nat
      /\ \A e \in Entry : rows[e].joinedAt \in Nat
  BY DEF ExclusiveInvariant, TypeOK, StoreTypeOK, Created, Ticket
<1>b. /\ \A e, f \in Created : rows[e].joinedAt = rows[f].joinedAt => e = f
      /\ \A e \in Created : rows[e].joinedAt \in 1..clock
      /\ pc[s] \in {"verify", "insert"} =>
           /\ loaded[s].joinedAt = clock /\ clock >= 1
           /\ \A e \in Created : rows[e].joinedAt < clock
  BY <1>a DEF JoinsAreStamped
<1>1. \/ clock' = clock
      \/ /\ Passes(s, "create", "verify") /\ clock' = clock + 1
         /\ \E g, p, n : loaded'[s] = CreateTicket(g, p, n, clock')
  BY <1>a, StepsOfOne DEF Rests, Starts, Ends, Registers, Transits, Saves
<1>2. CASE Created' = Created
  <2>1. ASSUME NEW e \in Created PROVE rows'[e].joinedAt = rows[e].joinedAt
    BY <1>2, <1>a, <2>1, StampsOfOne DEF Inserts
  <2>2. /\ \A e, f \in Created' : rows'[e].joinedAt = rows'[f].joinedAt => e = f
        /\ \A e \in Created' : rows'[e].joinedAt \in 1..clock'
    BY <1>2, <1>a, <1>b, <1>1, <2>1
  <2>3. CASE clock' = clock
    <3>1. ASSUME pc'[s] \in {"verify", "insert"}
          PROVE  pc[s] \in {"verify", "insert"} /\ loaded'[s] = loaded[s]
      <4>1. clock' # clock + 1
        BY <1>a, <2>3
      <4>2. TypeOK
        BY <1>a
      <4> QED
        BY <3>1, <4>1, <4>2, JoiningOfOne DEF Passes
    <3>2. pc'[s] \in {"verify", "insert"} =>
            /\ loaded'[s].joinedAt = clock' /\ clock' >= 1
            /\ \A e \in Created' : rows'[e].joinedAt < clock'
      BY <1>2, <1>b, <2>1, <2>3, <3>1
    <3> QED
      BY <1>a, <2>2, <3>2 DEF JoinsAreStamped
  <2>4. CASE /\ Passes(s, "create", "verify") /\ clock' = clock + 1
             /\ \E g, p, n : loaded'[s] = CreateTicket(g, p, n, clock')
    <3>1. loaded'[s].joinedAt = clock'
      BY <2>4 DEF CreateTicket
    <3>2. \A e \in Created' : rows'[e].joinedAt < clock'
      BY <1>2, <1>a, <1>b, <2>1, <2>4
    <3>3. clock' >= 1
      BY <1>a, <2>4
    <3> QED
      BY <1>a, <2>2, <3>1, <3>2, <3>3 DEF JoinsAreStamped
  <2> QED
    BY <1>1, <2>3, <2>4
<1>3. CASE /\ Inserts(s, call[s].entry) /\ call[s].entry \in Entry
           /\ Created' = Created \union {call[s].entry}
  <2> DEFINE new == call[s].entry
  <2>1. ASSUME NEW e \in Created PROVE rows'[e].joinedAt = rows[e].joinedAt
    BY <1>a, <2>1, StampsOfOne DEF Inserts
  <2>2. /\ rows'[new].joinedAt = clock /\ pc'[s] = "store" /\ clock' = clock
        /\ \A e \in Created : rows[e].joinedAt < clock
    BY <1>3, <1>b, <1>1 DEF Inserts, Passes
  <2>3. ASSUME NEW e \in Created', NEW f \in Created', rows'[e].joinedAt = rows'[f].joinedAt
        PROVE  e = f
    <3>1. ASSUME NEW g \in Created PROVE rows'[g].joinedAt # clock
      <4>1. rows'[g].joinedAt = rows[g].joinedAt /\ rows[g].joinedAt \in Nat
        BY <1>a, <2>1
      <4> QED
        BY <1>a, <2>2, <4>1
    <3> QED
      BY <1>3, <1>b, <2>1, <2>2, <2>3, <3>1
  <2>4. clock >= 1
    BY <1>3, <1>b DEF Inserts, Passes
  <2>5. ASSUME NEW e \in Created' PROVE rows'[e].joinedAt \in 1..clock'
    BY <1>3, <1>a, <1>b, <2>1, <2>2, <2>4
  <2> QED
    BY <1>a, <2>2, <2>3, <2>5 DEF JoinsAreStamped
<1> QED
  BY <1>2, <1>3, CountStep

-----------------------------------------------------------------------------
(* What holds of one request at a time, whatever was asked for and whatever  *)
(* failed.                                                                  *)
SingleInvariant ==
    /\ ExclusiveInvariant
    /\ PlacesAreGivenUp /\ CopyKeepsStamps /\ NumbersAreCounted /\ JoinsAreStamped

(* A quiet service that served the parties of InitialQueue. *)
LEMMA SingleInit ==
    ASSUME Init PROVE PlacesAreGivenUp /\ CopyKeepsStamps /\ NumbersAreCounted /\ JoinsAreStamped
<1>1. \A r \in Slot : pc[r] = "idle"
  BY DEF Init
<1>2. PlacesAreGivenUp /\ CopyKeepsStamps
  <2>1. OnlyWaitingIsRanked
    BY InitPlaces DEF OnlyWaitingIsRanked, Active, AbsentRow
  <2> QED
    BY <1>1, <2>1 DEF PlacesAreGivenUp, CopyKeepsStamps, Acting
<1>3. NumbersAreCounted
  BY <1>1, InitPlaces DEF NumbersAreCounted
<1>4. JoinsAreStamped
  BY <1>1, InitPlaces DEF JoinsAreStamped
<1> QED
  BY <1>2, <1>3, <1>4

(* It is kept by every step. *)
LEMMA SingleInvariantHolds ==
    ASSUME NEW s, Slot = {s} PROVE Spec => []SingleInvariant
<1>1. Apart
  BY DEF Apart
<1>2. ExclusiveInvariant /\ PlacesAreGivenUp /\ CopyKeepsStamps /\ NumbersAreCounted
      /\ JoinsAreStamped /\ [Next]_vars
      => (PlacesAreGivenUp /\ CopyKeepsStamps /\ NumbersAreCounted /\ JoinsAreStamped)'
  BY PlacesStep, CopyKeepsStampsStep, NumbersStep, JoinsStep
<1> QED
  BY <1>1, <1>2, SingleInit, ExclusiveInvariantHolds, PTL DEF Spec, SingleInvariant

(* The time stamps, the events and the questions asked are only added.       *)
LEMMA SerialStep == [SerialNext]_serialVars => [LiveNext]_liveVars /\ [Next]_vars
<1> SUFFICES ASSUME [SerialNext]_serialVars PROVE [LiveNext]_liveVars
  BY LiveStep
<1> QED
  BY DEF SerialNext, serialVars

(* With them the service behaves as without. *)
LEMMA SerialImplementsSpec == SerialSpec => LiveSpec /\ Spec
<1>1. SerialInit => LiveInit
  BY DEF SerialInit
<1> QED
  BY <1>1, SerialStep, LiveImplementsSpec, PTL DEF SerialSpec, LiveSpec

(* With one request at a time the daily numbers are distinct: the count a    *)
(* registration makes before it inserts includes every row, also of those   *)
(* registrations that were answered with a failure after their insert.      *)
THEOREM NumbersAreDistinctHolds ==
    ASSUME NEW s, Slot = {s} PROVE SerialSpec => []NumbersAreDistinct
<1>1. SingleInvariant => NumbersAreDistinct
  BY DEF SingleInvariant, NumbersAreCounted, NumbersAreDistinct
<1> QED
  BY <1>1, SingleInvariantHolds, SerialImplementsSpec, PTL

-----------------------------------------------------------------------------
(* Who left keeps the row as it is. *)

(* Nothing is written to the row of a ticket that has ended.                 *)
LEMMA EndedStays ==
    ASSUME NEW s, Slot = {s}, SingleInvariant, [Next]_vars,
           NEW e \in Entry, Ended(rows[e])
    PROVE  /\ rows'[e] = rows[e]
           /\ pc[s] \in {"batch", "write", "publish"} => plan[s][e] = NoPosition
<1>a. /\ TypeOK /\ ExclusiveInvariant /\ PlacesAreGivenUp /\ s \in Slot
      /\ e \in Created /\ ~IsWaiting(rows[e])
  BY DEF SingleInvariant, ExclusiveInvariant, Created, Ended, Terminal, IsWaiting
<1>1. pc[s] \in {"batch", "write", "publish"} => plan[s][e] = NoPosition
  BY <1>a DEF PlacesAreGivenUp, Active
<1>2. ASSUME Overwrites(s), e = call[s].entry PROVE FALSE
  <2>1. CASE pc[s] = "insert"
    BY <1>a, <1>2, <2>1 DEF ExclusiveInvariant, RowsHaveLogs, Joining
  <2>2. CASE pc[s] \in {"save", "commit"}
    BY <1>a, <1>2, <2>2 DEF ExclusiveInvariant, ActingOnWaiting, Acting, IsWaiting
  <2> QED
    BY <1>2, <2>1, <2>2 DEF Overwrites, Passes
<1> QED
  BY <1>a, <1>1, <1>2, RowOfOne DEF Renumbers, Passes

(* The wait of a party that left is over: with one request at a time nothing *)
(* that is done to the others, no batch of positions and no retry, touches   *)
(* the time stamps its waiting time is calculated from.                     *)
THEOREM WaitIsOverHolds ==
    ASSUME NEW s, Slot = {s} PROVE SerialSpec => WaitIsOver
<1>1. ASSUME SingleInvariant, [SerialNext]_serialVars
      PROVE  [\A e \in Entry : Ended(rows[e]) =>
                  WaitDuration(e, clock)' = WaitDuration(e, clock)]_serialVars
  <2> SUFFICES ASSUME SerialNext, NEW e \in Entry, Ended(rows[e])
               PROVE  WaitDuration(e, clock)' = WaitDuration(e, clock)
    BY <1>1
  <2>1. /\ rows'[e] = rows[e]
        /\ pc[s] \in {"batch", "write", "publish"} => plan[s][e] = NoPosition
    BY <1>1, SerialStep, EndedStays
  <2>2. e \notin Written
    BY <2>1 DEF Written
  <2>3. /\ rows[e].status = "SEATED" => seatedAt'[e] = seatedAt[e]
        /\ updatedAt'[e] = updatedAt[e]
    BY <2>1, <2>2 DEF SerialNext, StampRows
  <2> QED
    BY <2>1, <2>3 DEF WaitDuration, Ended, Terminal, IsWaiting
<1> QED
  BY <1>1, SingleInvariantHolds, SerialImplementsSpec, PTL DEF SerialSpec, WaitIsOver

-----------------------------------------------------------------------------
(* Ranks: findActiveEntries orders the waiting parties totally, because no   *)
(* two of them joined at the same time.                                     *)

JoinsDiffer == \A e, f \in Active : rows[e].joinedAt = rows[f].joinedAt => e = f

(* The order of findActiveEntries. *)
LEMMA BeforeIsTotal ==
    ASSUME TypeOK, JoinsDiffer
    PROVE  /\ \A e \in Active : ~Before(e, e)
           /\ \A e, f \in Active : e # f => Before(e, f) \/ Before(f, e)
           /\ \A e, f, g \in Active : Before(e, f) /\ Before(f, g) => Before(e, g)
<1>1. \A e \in Active : rows[e].position \in Nat /\ rows[e].joinedAt \in Nat
  BY DEF TypeOK, StoreTypeOK, Active, Ticket
<1> QED
  BY <1>1 DEF Before, JoinsDiffer

(* A rank counts who is ahead. *)
LEMMA AheadIsCounted ==
    ASSUME TypeOK, JoinsDiffer, NEW e \in Active
    PROVE  /\ IsFiniteSet(Active) /\ IsFiniteSet(Ahead(e))
           /\ Rank(e) = 1 + Cardinality(Ahead(e)) /\ Cardinality(Ahead(e)) \in Nat
           /\ Rank(e) \in 1..QueueDepth
<1>1. Active \subseteq Entry /\ Ahead(e) \subseteq Active \ {e}
  BY BeforeIsTotal DEF Active, Ahead
<1>2. IsFiniteSet(Active) /\ IsFiniteSet(Ahead(e))
  BY <1>1, EntryAssumption, FS_Subset
<1>3. /\ Cardinality(Active) \in Nat /\ Cardinality(Ahead(e)) \in Nat
  BY <1>2, FS_CardinalityType
<1>4. IsFiniteSet(Active \ {e}) /\ Cardinality(Active \ {e}) = Cardinality(Active) - 1
  BY <1>2, FS_RemoveElement
<1>5. Cardinality(Ahead(e)) <= Cardinality(Active \ {e})
  BY <1>1, <1>4, FS_Subset
<1>6. Rank(e) = 1 + Cardinality(Ahead(e))
  BY DEF Rank, Ahead
<1> QED
  BY <1>2, <1>3, <1>4, <1>5, <1>6 DEF QueueDepth

(* Ranks are ordered as the parties are, and are exactly 1, 2, ...           *)
LEMMA RanksOrder ==
    ASSUME TypeOK, JoinsDiffer
    PROVE  /\ \A e \in Active : Rank(e) \in 1..QueueDepth
           /\ \A e, f \in Active : Before(e, f) <=> Rank(e) < Rank(f)
           /\ \A e, f \in Active : Rank(e) = Rank(f) => e = f
           /\ \A n \in 1..QueueDepth : \E e \in Active : Rank(e) = n
<1>1. \A e \in Active : Rank(e) \in 1..QueueDepth
  BY AheadIsCounted
<1>2. ASSUME NEW e \in Active, NEW f \in Active, Before(e, f) PROVE Rank(e) < Rank(f)
  <2>1. Ahead(e) \union {e} \subseteq Ahead(f) /\ e \notin Ahead(e)
    BY <1>2, BeforeIsTotal DEF Ahead
  <2>2. Cardinality(Ahead(e) \union {e}) = Cardinality(Ahead(e)) + 1
    BY <2>1, AheadIsCounted, FS_AddElement
  <2>3. Cardinality(Ahead(e) \union {e}) <= Cardinality(Ahead(f))
    BY <2>1, AheadIsCounted, FS_Subset
  <2> QED
    BY <2>2, <2>3, AheadIsCounted
<1>3. \A e, f \in Active : Rank(e) = Rank(f) => e = f
  BY <1>1, <1>2, BeforeIsTotal
<1>4. \A e, f \in Active : Before(e, f) <=> Rank(e) < Rank(f)
  BY <1>1, <1>2, BeforeIsTotal
<1>5. QueueDepth \in Nat /\ (Active # {} => QueueDepth = Cardinality(Active) /\ IsFiniteSet(Active))
  BY CountsAreNatural, AheadIsCounted DEF QueueDepth
<1>6. ASSUME NEW n \in 1..QueueDepth PROVE \E e \in Active : Rank(e) = n
  <2> DEFINE rank == [e \in Active |-> Rank(e)]
  <2>1. rank \in Injection(Active, 1..QueueDepth)
    BY <1>1, <1>3 DEF Injection, IsInjective
  <2>2. IsFiniteSet(1..QueueDepth) /\ Cardinality(1..QueueDepth) = QueueDepth
    BY <1>5, FS_Interval
  <2>3. rank \in Surjection(Active, 1..QueueDepth)
    <3> HIDE DEF rank
    <3>1. Cardinality(Active) = Cardinality(1..QueueDepth)
      BY <2>2 DEF QueueDepth
    <3> QED
      BY <2>1, <2>2, <3>1, FS_Injection
  <2> QED
    BY <2>3 DEF Surjection
<1> QED
  BY <1>1, <1>3, <1>4, <1>6

(* A stretch of ranks is as long as the parties in it are many.              *)
LEMMA RanksAreCounted ==
    ASSUME TypeOK, JoinsDiffer, NEW a \in Nat, NEW b \in Nat, a <= b, b <= QueueDepth
    PROVE  Cardinality({f \in Active : a < Rank(f) /\ Rank(f) <= b}) = b - a
<1> DEFINE S == {f \in Active : a < Rank(f) /\ Rank(f) <= b}
           rank == [f \in S |-> Rank(f)]
<1>1. QueueDepth \in Nat /\ \A f \in Active : Rank(f) \in Nat
  BY CountsAreNatural DEF Active
<1>2. IsFiniteSet((a + 1)..b) /\ Cardinality((a + 1)..b) = b - a
  <2>1. a + 1 \in Int /\ b \in Int
    OBVIOUS
  <2>2. Cardinality((a + 1)..b) = IF a + 1 > b THEN 0 ELSE b - (a + 1) + 1
    BY <2>1, FS_Interval
  <2>3. (IF a + 1 > b THEN 0 ELSE b - (a + 1) + 1) = b - a
    OBVIOUS
  <2>4. IsFiniteSet((a + 1)..b)
    BY <2>1, FS_Interval
  <2> QED
    BY <2>2, <2>3, <2>4
<1>3. rank \in [S -> (a + 1)..b]
  BY <1>1
<1>4. \A f, g \in S : rank[f] = rank[g] => f = g
  BY RanksOrder
<1>5. \A n \in (a + 1)..b : \E f \in S : rank[f] = n
  <2> SUFFICES ASSUME NEW n \in (a + 1)..b PROVE \E f \in S : Rank(f) = n
    OBVIOUS
  <2>1. n \in 1..QueueDepth
    BY <1>1
  <2> QED
    BY <2>1, RanksOrder
<1> HIDE DEF S
<1>6. rank \in Injection(S, (a + 1)..b) /\ rank \in Surjection(S, (a + 1)..b)
  BY <1>3, <1>4, <1>5 DEF Injection, Surjection, IsInjective
<1>7. Cardinality(S) = Cardinality((a + 1)..b)
  BY <1>2, <1>6, FS_Injection
<1> QED
  BY <1>2, <1>7 DEF S

(* Who keeps its place among the same parties keeps its rank. *)
LEMMA RanksKept ==
    ASSUME Active' = Active,
           \A e, f \in Active : Before(e, f)' <=> Before(e, f)
    PROVE  QueueDepth' = QueueDepth /\ \A e \in Active : Rank(e)' = Rank(e)
<1>1. QueueDepth' = QueueDepth
  BY DEF QueueDepth
<1>2. ASSUME NEW e \in Active PROVE Rank(e)' = Rank(e)
  <2>1. {f \in Active : Before(f, e)}' = {f \in Active : Before(f, e)}
    OBVIOUS
  <2> QED
    BY <2>1 DEF Rank
<1> QED
  BY <1>1, <1>2

(* So does everybody when statuses, positions and times of joining stay.     *)
LEMMA OrderKept ==
    ASSUME \A e \in Entry :
               /\ IsWaiting(rows'[e]) <=> IsWaiting(rows[e])
               /\ e \in Active => /\ rows'[e].position = rows[e].position
                                  /\ rows'[e].joinedAt = rows[e].joinedAt
    PROVE  /\ Active' = Active /\ QueueDepth' = QueueDepth
           /\ \A e \in Active : Rank(e)' = Rank(e)
<1>1. Active' = Active
  BY DEF Active
<1>2. \A e, f \in Active : Before(e, f)' <=> Before(e, f)
  BY DEF Before, Active
<1> QED
  BY <1>1, <1>2, RanksKept

(* The position a registration takes is the next one: with one request at a  *)
(* time nobody joins or leaves between the metrics and the insert.          *)
NextPlace ==
    \A r \in Slot : pc[r] \in {"count", "create", "verify", "insert"} =>
        loaded[r].position = QueueDepth + 1

(* The depth of the queue is asked for once. *)
LEMMA NextPlaceStep ==
    ASSUME TypeOK, NEW s, Slot = {s}, NextPlace, [Next]_vars
    PROVE  NextPlace'
<1> SUFFICES ASSUME pc'[s] \in {"count", "create", "verify", "insert"}
             PROVE  loaded'[s].position = QueueDepth' + 1
  BY DEF NextPlace
<1>a. loaded[s] \in Ticket
  BY DEF TypeOK, RequestTypeOK
<1>1. rows' = rows
  BY JoiningOfOne
<1>2. QueueDepth' = QueueDepth
  BY <1>1, OrderKept
<1>3. CASE loaded'[s] = [loaded[s] EXCEPT !.position = QueueDepth + 1]
  BY <1>a, <1>2, <1>3 DEF Ticket
<1>4. CASE pc[s] = "count" /\ loaded'[s] = [loaded[s] EXCEPT !.number = CountToday + 1]
  <2>1. loaded'[s].position = loaded[s].position
    BY <1>a, <1>4 DEF Ticket
  <2> QED
    BY <1>2, <1>4, <2>1 DEF NextPlace
<1>5. CASE /\ pc[s] = "create"
           /\ loaded'[s] = CreateTicket(call[s].guest, loaded[s].position, loaded[s].number, clock')
  <2>1. loaded'[s].position = loaded[s].position
    BY <1>5 DEF CreateTicket
  <2> QED
    BY <1>2, <1>5, <2>1 DEF NextPlace
<1>6. CASE pc[s] \in {"count", "create", "verify", "insert"} /\ loaded'[s] = loaded[s]
  BY <1>2, <1>6 DEF NextPlace
<1> QED
  BY <1>3, <1>4, <1>5, <1>6, JoiningOfOne DEF Passes

(* Plans hold ranks as they are until they are written, and positions as     *)
(* they are afterwards.                                                     *)
PlansAreRanks ==
    \A r \in Slot :
        /\ pc[r] = "write" =>
               \A e \in Active : \/ plan[r][e] = Rank(e)
                                 \/ plan[r][e] = NoPosition /\ rows[e].position = Rank(e)
        /\ pc[r] = "batch" =>
               /\ call[r].op = "shift" /\ call[r].entry \in Active
               /\ plan[r] = [f \in Entry |->
                      IF f \in Active
                      THEN ShiftedRank(call[r].entry,
                                       ShiftTarget(call[r].entry, call[r].shift), f)
                      ELSE NoPosition]
        /\ pc[r] = "publish" =>
               \A e \in Entry : plan[r][e] # NoPosition => plan[r][e] = rows[e].position

(* A plan is made, written and published without anybody else. *)
LEMMA PlansStep ==
    ASSUME ExclusiveInvariant, NEW s, Slot = {s}, PlansAreRanks, [Next]_vars
    PROVE  PlansAreRanks'
<1>a. /\ TypeOK /\ rows \in [Entry -> Ticket] /\ s \in Slot
      /\ pc[s] = "rank" => call[s].op = "shift"
  BY DEF ExclusiveInvariant, TypeOK, StoreTypeOK, CallsAreValid, Running
<1>1. ASSUME pc'[s] = "write"
      PROVE  \A e \in Active' : \/ plan'[s][e] = Rank(e)'
                                \/ plan'[s][e] = NoPosition /\ rows'[e].position = Rank(e)'
  <2>1. rows' = rows
    BY <1>a, <1>1, StepsOfOne DEF Rests, Starts, Ends, Registers, Transits, Saves, Passes, AfterLoad
  <2>2. Active' = Active /\ \A e \in Active : Rank(e)' = Rank(e)
    BY <2>1, OrderKept
  <2>3. \/ pc[s] = "write" /\ plan'[s] = plan[s]
        \/ \E etaChanged \in SUBSET Active : plan'[s] = Renumbering(etaChanged)
    BY <1>a, <1>1, StepsOfOne DEF Rests, Starts, Ends, Registers, Transits, Saves, Passes, AfterLoad
  <2>4. ASSUME NEW S \in SUBSET Active, NEW e \in Active
        PROVE  \/ Renumbering(S)[e] = Rank(e)
               \/ Renumbering(S)[e] = NoPosition /\ rows[e].position = Rank(e)
    BY DEF Renumbering, Active
  <2> QED
    BY <2>1, <2>2, <2>3, <2>4 DEF PlansAreRanks
<1>2. ASSUME pc'[s] = "batch"
      PROVE  /\ call'[s].op = "shift" /\ call'[s].entry \in Active'
             /\ plan'[s] = [f \in Entry |->
                    IF f \in Active
                    THEN ShiftedRank(call[s].entry, ShiftTarget(call[s].entry, call[s].shift), f)
                    ELSE NoPosition]'
  <2>1. rows' = rows /\ call'[s] = call[s]
    BY <1>a, <1>2, StepsOfOne DEF Rests, Starts, Ends, Registers, Transits, Saves, Passes, AfterLoad
  <2>2. /\ call[s].op = "shift" /\ call[s].entry \in Active
        /\ plan'[s] = [f \in Entry |->
               IF f \in Active
               THEN ShiftedRank(call[s].entry, ShiftTarget(call[s].entry, call[s].shift), f)
               ELSE NoPosition]
    <3>1. CASE Rests(s)
      BY <1>a, <1>2, <3>1 DEF Rests, PlansAreRanks
    <3>2. CASE Transits(s)
      BY <1>a, <1>2, <3>2 DEF Transits, Passes, AfterLoad
    <3> QED
      BY <1>a, <1>2, <3>1, <3>2, StepsOfOne DEF Starts, Ends, Registers, Saves, Passes
  <2>3. Active' = Active /\ QueueDepth' = QueueDepth /\ \A e \in Active : Rank(e)' = Rank(e)
    BY <2>1, OrderKept
  <2>4. \A n : ShiftTarget(call[s].entry, n)' = ShiftTarget(call[s].entry, n)
    BY <2>1, <2>2, <2>3 DEF ShiftTarget
  <2> QED
    BY <2>1, <2>2, <2>3, <2>4 DEF ShiftedRank
<1>3. ASSUME pc'[s] = "publish", NEW e \in Entry, plan'[s][e] # NoPosition
      PROVE  plan'[s][e] = rows'[e].position
  <2>1. CASE Rests(s)
    BY <1>a, <1>3, <2>1 DEF Rests, PlansAreRanks
  <2>2. CASE Transits(s)
    <3>1. rows' = Batched(plan[s]) /\ plan'[s] = plan[s]
      BY <1>3, <2>2 DEF Transits, Passes, AfterLoad
    <3> QED
      BY <1>a, <1>3, <3>1 DEF Batched, Ticket
  <2> QED
    BY <1>a, <1>3, <2>1, <2>2, StepsOfOne DEF Starts, Ends, Registers, Saves, Passes
<1> QED
  BY <1>1, <1>2, <1>3 DEF PlansAreRanks

(* A copy that is written keeps the position its row has, unless the ticket  *)
(* is shifted; who recalculates for anything but a shift has left.           *)
CopyKeepsPlace ==
    \A r \in Slot :
        /\ pc[r] = "save" => loaded[r].position = rows[call[r].entry].position
        /\ pc[r] = "evict" => ~IsWaiting(loaded[r])
        /\ pc[r] \in {"recalc", "write", "publish"} /\ IsWaiting(loaded[r]) =>
               call[r].op = "shift"
        /\ pc[r] \in Settling /\ call[r].op # "shift" =>
               loaded[r].position = rows[call[r].entry].position

(* No copy comes between a row and its position. *)
LEMMA CopyKeepsPlaceStep ==
    ASSUME ExclusiveInvariant, PlacesAreGivenUp, NEW s, Slot = {s}, CopyKeepsPlace, [Next]_vars
    PROVE  CopyKeepsPlace'
<1>a. /\ TypeOK /\ rows \in [Entry -> Ticket] /\ loaded[s] \in Ticket /\ s \in Slot
      /\ CopyIsOutcome /\ WrittenStays
      /\ pc[s] # "idle" => call[s] \in Call /\ call[s].entry \in Entry
  BY DEF ExclusiveInvariant, TypeOK, StoreTypeOK, RequestTypeOK, Call
<1>1. ASSUME pc'[s] = "save" PROVE loaded'[s].position = rows'[call'[s].entry].position
  <2>1. CASE Rests(s)
    BY <1>a, <1>1, <2>1 DEF Rests, CopyKeepsPlace
  <2>2. CASE Transits(s)
    <3>1. /\ AfterLoad(call[s].op) = "save" /\ rows' = rows /\ call'[s] = call[s]
          /\ pc[s] = "load" /\ loaded'[s] = Transform(call[s], rows[call[s].entry])
      BY <1>1, <2>2 DEF Transits, Passes
    <3>2. call[s].op \notin {"seat", "assign", "skip", "shift", "cancel"}
      BY <3>1 DEF AfterLoad
    <3>3. RingTicket(rows[call[s].entry]).position = rows[call[s].entry].position
      BY <1>a, <3>1 DEF RingTicket, Ticket
    <3> QED
      BY <3>1, <3>2, <3>3 DEF Transform
  <2> QED
    BY <1>a, <1>1, <2>1, <2>2, StepsOfOne DEF Starts, Ends, Registers, Saves, Passes
<1>2. ASSUME pc'[s] = "evict" PROVE ~IsWaiting(loaded'[s])
  <2>1. CASE Rests(s)
    BY <1>a, <1>2, <2>1 DEF Rests, CopyKeepsPlace
  <2>2. CASE Transits(s)
    BY <1>2, <2>2 DEF Transits, Passes, AfterLoad
  <2> QED
    BY <1>a, <1>2, <2>1, <2>2, StepsOfOne DEF Starts, Ends, Registers, Saves, Passes
<1>3. ASSUME pc'[s] \in {"recalc", "write", "publish"}, IsWaiting(loaded'[s])
      PROVE  call'[s].op = "shift"
  <2>1. CASE Rests(s)
    BY <1>a, <1>3, <2>1 DEF Rests, CopyKeepsPlace
  <2>2. CASE Transits(s)
    <3>1. call'[s] = call[s] /\ loaded'[s] = loaded[s]
      BY <1>3, <2>2 DEF Transits, Passes, AfterLoad
    <3>2. CASE pc[s] = "commit"
      <4>1. call[s].op \in {"seat", "assign", "skip", "shift", "cancel"}
        BY <1>3, <2>2, <3>2 DEF Transits, Passes, AfterLoad
      <4>2. "WAITING" \in Outcomes(call[s])
        BY <1>a, <1>3, <3>1, <3>2 DEF CopyIsOutcome, Acting, IsWaiting
      <4> QED
        BY <3>1, <4>1, <4>2 DEF Outcomes
    <3>3. CASE pc[s] \in {"evict", "recalc", "write"}
      BY <1>a, <1>3, <3>1, <3>3 DEF CopyKeepsPlace
    <3> QED
      BY <1>3, <2>2, <3>2, <3>3 DEF Transits, Passes, AfterLoad
  <2> QED
    BY <1>a, <1>3, <2>1, <2>2, StepsOfOne DEF Starts, Ends, Registers, Saves, Passes
<1>4. ASSUME pc'[s] \in Settling, call'[s].op # "shift"
      PROVE  loaded'[s].position = rows'[call'[s].entry].position
  <2>1. /\ call'[s] = call[s] /\ loaded'[s] = loaded[s]
        /\ pc[s] \in Settling \/ RegisterInsert(s) \/ Commit(s)
    BY <1>a, <1>4, WhereFrom
  <2>2. CASE RegisterInsert(s) \/ Commit(s)
    <3>1. rows' = [rows EXCEPT ![call[s].entry] = loaded[s]] /\ pc[s] # "idle"
      BY <1>a, <2>2, Writes
    <3> QED
      BY <1>a, <2>1, <3>1
  <2>3. CASE pc[s] \in Settling
    <3>1. call[s].entry \in Entry /\ loaded[s].position = rows[call[s].entry].position
      BY <1>a, <1>4, <2>1, <2>3 DEF CopyKeepsPlace, Settling
    <3>2. ASSUME Renumbers(s), plan[s][call[s].entry] # NoPosition PROVE FALSE
      <4>1. pc[s] = "write" /\ call[s].entry \in Active
        BY <1>a, <2>3, <3>1, <3>2 DEF Renumbers, Passes, PlacesAreGivenUp, Settling
      <4>2. IsWaiting(loaded[s])
        BY <1>a, <4>1 DEF WrittenStays, Settling, Active, IsWaiting
      <4> QED
        BY <1>a, <1>4, <2>1, <4>1, <4>2 DEF CopyKeepsPlace
    <3>3. ~Overwrites(s)
      BY <2>3 DEF Overwrites, Passes, Settling
    <3>4. rows'[call[s].entry] = rows[call[s].entry]
      BY <1>a, <3>1, <3>2, <3>3, RowOfOne
    <3> QED
      BY <2>1, <3>1, <3>4
  <2> QED
    BY <2>1, <2>2, <2>3
<1> QED
  BY <1>1, <1>2, <1>3, <1>4 DEF CopyKeepsPlace

(* What is about to change the order, with one request at a time. *)
PlaceInvariant ==
    /\ SingleInvariant
    /\ NextPlace /\ PlansAreRanks /\ CopyKeepsPlace

(* It is kept by every step. *)
LEMMA PlaceInvariantHolds ==
    ASSUME NEW s, Slot = {s} PROVE Spec => []PlaceInvariant
<1>1. Init => NextPlace /\ PlansAreRanks /\ CopyKeepsPlace
  <2> SUFFICES ASSUME Init PROVE NextPlace /\ PlansAreRanks /\ CopyKeepsPlace
    OBVIOUS
  <2>1. \A r \in Slot : pc[r] = "idle"
    BY DEF Init
  <2> QED
    BY <2>1 DEF NextPlace, PlansAreRanks, CopyKeepsPlace, Settling
<1>2. SingleInvariant /\ NextPlace /\ PlansAreRanks /\ CopyKeepsPlace /\ [Next]_vars
      => (NextPlace /\ PlansAreRanks /\ CopyKeepsPlace)'
  <2>1. SingleInvariant => TypeOK /\ ExclusiveInvariant /\ PlacesAreGivenUp
    BY DEF SingleInvariant, ExclusiveInvariant
  <2> QED
    BY <2>1, NextPlaceStep, PlansStep, CopyKeepsPlaceStep
<1> QED
  BY <1>1, <1>2, SingleInvariantHolds, PTL DEF Spec, PlaceInvariant

-----------------------------------------------------------------------------
(* The parties are numbered 1, 2, ... *)

(* A plan that is written numbers everybody by rank, and changes no rank.    *)
LEMMA WriteKeepsRanks ==
    ASSUME PlaceInvariant, NEW s, Slot = {s}, pc[s] = "write", rows' = Batched(plan[s])
    PROVE  /\ Active' = Active /\ QueueDepth' = QueueDepth
           /\ \A e \in Active : /\ rows'[e].position = Rank(e) /\ Rank(e)' = Rank(e)
                                /\ rows'[e].joinedAt = rows[e].joinedAt
<1>a. /\ TypeOK /\ rows \in [Entry -> Ticket] /\ plan[s] \in [Entry -> Nat] /\ JoinsDiffer
  BY DEF PlaceInvariant, SingleInvariant, ExclusiveInvariant, TypeOK, StoreTypeOK, RequestTypeOK,
     JoinsAreStamped, JoinsDiffer, Active, Created, IsWaiting
<1>1. ASSUME NEW e \in Entry
      PROVE  rows'[e] = rows[e] \/ rows'[e] = [rows[e] EXCEPT !.position = plan[s][e]]
  BY DEF Batched
<1>2. ASSUME NEW e \in Entry
      PROVE  rows'[e].joinedAt = rows[e].joinedAt /\ rows'[e].status = rows[e].status
  BY <1>a, <1>1 DEF Ticket
<1>3. Active' = Active
  BY <1>2 DEF Active, IsWaiting
<1>4. ASSUME NEW e \in Active PROVE rows'[e].position = Rank(e)
  <2>1. e \in Entry
    BY DEF Active
  <2>2. Rank(e) # NoPosition
    BY <2>1, RanksArePositive
  <2>3. CASE plan[s][e] = Rank(e)
    BY <1>a, <2>1, <2>2, <2>3 DEF Batched, Ticket
  <2>4. CASE plan[s][e] = NoPosition /\ rows[e].position = Rank(e)
    BY <2>1, <2>4 DEF Batched
  <2> QED
    BY <2>3, <2>4 DEF PlaceInvariant, PlansAreRanks
<1>5. ASSUME NEW e \in Active, NEW f \in Active PROVE Before(e, f)' <=> Before(e, f)
  <2>1. /\ rows'[e].position = Rank(e) /\ rows'[f].position = Rank(f)
        /\ Rank(e) \in Nat /\ Rank(f) \in Nat
    BY <1>4, CountsAreNatural DEF Active
  <2>2. /\ Before(e, f) <=> Rank(e) < Rank(f)
        /\ Rank(e) = Rank(f) => e = f
    BY <1>a, RanksOrder
  <2>3. ~(rows'[e].joinedAt < rows'[e].joinedAt)
    BY <1>a, <1>2 DEF Active, Ticket
  <2> QED
    BY <2>1, <2>2, <2>3 DEF Before
<1>6. QueueDepth' = QueueDepth /\ \A e \in Active : Rank(e)' = Rank(e)
  BY <1>3, <1>5, RanksKept
<1> QED
  BY <1>2, <1>3, <1>4, <1>6 DEF Active

(* Who joins is added at the next position. *)
LEMMA InsertAdds ==
    ASSUME PlaceInvariant, NEW s, Slot = {s}, NEW e \in Entry, Inserts(s, e)
    PROVE  /\ Active' = Active \union {e} /\ e \notin Active
           /\ QueueDepth' = QueueDepth + 1
           /\ \A f \in Active : rows'[f] = rows[f] /\ f # e
           /\ rows'[e].position = QueueDepth + 1 /\ rows'[e].joinedAt = clock
           /\ \A f \in Active : rows[f].joinedAt < clock
<1>a. /\ rows \in [Entry -> Ticket] /\ s \in Slot
      /\ e \notin Active /\ Active \subseteq Entry /\ Active \subseteq Created
  BY DEF PlaceInvariant, SingleInvariant, ExclusiveInvariant, TypeOK, StoreTypeOK,
     Inserts, Active, Created, IsWaiting
<1>1. \A f \in Entry : f # e => rows'[f] = rows[f]
  BY <1>a DEF Inserts, Replaced
<1>2. Active' = Active \union {e}
  BY <1>1 DEF Inserts, Active
<1>3. IsFiniteSet(Active)
  BY <1>a, EntryAssumption, FS_Subset
<1>4. QueueDepth' = QueueDepth + 1
  BY <1>a, <1>2, <1>3, FS_AddElement DEF QueueDepth
<1>5. rows'[e].position = QueueDepth + 1
  BY <1>a DEF PlaceInvariant, NextPlace, Inserts, Passes
<1>6. rows'[e].joinedAt = clock /\ \A f \in Active : rows[f].joinedAt < clock
  BY <1>a DEF PlaceInvariant, SingleInvariant, JoinsAreStamped, Inserts, Passes
<1> QED
  BY <1>a, <1>1, <1>2, <1>4, <1>5, <1>6

(* So it comes last, if there are no gaps. *)
LEMMA InsertComesLast ==
    ASSUME PlaceInvariant, NEW s, Slot = {s}, NEW e \in Entry, Inserts(s, e),
           \A f \in Active : rows[f].position <= QueueDepth
    PROVE  Rank(e)' = QueueDepth + 1 /\ \A f \in Active : Rank(f)' = Rank(f)
<1>a. /\ Active' = Active \union {e} /\ e \notin Active /\ QueueDepth \in Nat
      /\ \A f \in Active : rows'[f] = rows[f] /\ f # e /\ rows[f].position \in Nat
      /\ rows'[e].position = QueueDepth + 1
  BY InsertAdds, CountsAreNatural
  DEF PlaceInvariant, SingleInvariant, ExclusiveInvariant, TypeOK, StoreTypeOK, Active, Ticket
<1>1. ASSUME NEW f \in Active PROVE Before(f, e)' /\ ~Before(e, f)'
  BY <1>a DEF Before
<1>2. ~Before(e, e)'
  <2>1. rows'[e] \in Ticket
    BY DEF Inserts, PlaceInvariant, SingleInvariant, ExclusiveInvariant, TypeOK, RequestTypeOK
  <2> QED
    BY <2>1 DEF Before, Ticket
<1>3. Rank(e)' = QueueDepth + 1
  <2>1. {f \in Active : Before(f, e)}' = Active
    BY <1>a, <1>1, <1>2
  <2>2. Rank(e)' = 1 + Cardinality(Active)
    BY <2>1 DEF Rank
  <2> QED
    BY <1>a, <2>2 DEF QueueDepth
<1>4. ASSUME NEW f \in Active PROVE Rank(f)' = Rank(f)
  <2>1. {g \in Active : Before(g, f)}' = {g \in Active : Before(g, f)}
    <3>1. \A g \in Active : Before(g, f)' <=> Before(g, f)
      BY <1>a DEF Before
    <3> QED
      BY <1>a, <1>1, <3>1
  <2> QED
    BY <2>1 DEF Rank
<1> QED
  BY <1>3, <1>4

(* A registration that inserts creates the row. *)
LEMMA InsertsOfOne ==
    ASSUME ExclusiveInvariant, NEW s, Slot = {s},
           Passes(s, "insert", "store"), rows' = Replaced(s)
    PROVE  Inserts(s, call[s].entry) /\ call[s].entry \in Entry
<1>1. /\ rows \in [Entry -> Ticket] /\ s \in Slot /\ call[s].entry \in Entry
      /\ call[s].entry \notin Created /\ loaded[s].status = "WAITING"
  BY DEF ExclusiveInvariant, TypeOK, StoreTypeOK, RequestTypeOK, Call, RowsHaveLogs, Joining,
     CopyWasWaiting, Passes
<1> QED
  BY <1>1 DEF Inserts, Replaced, Active, IsWaiting

(* Ringing changes nobody's status, position or time of joining. *)
LEMMA SavesOfOne ==
    ASSUME PlaceInvariant, NEW s, Slot = {s}, Saves(s), NEW e \in Entry
    PROVE  /\ rows'[e].status = rows[e].status /\ rows'[e].position = rows[e].position
           /\ rows'[e].joinedAt = rows[e].joinedAt
<1>1. /\ rows \in [Entry -> Ticket] /\ s \in Slot /\ pc[s] = "save"
      /\ rows' = [rows EXCEPT ![call[s].entry] = loaded[s]]
  BY DEF PlaceInvariant, SingleInvariant, ExclusiveInvariant, TypeOK, StoreTypeOK, Saves, Passes,
     Replaced
<1>2. loaded[s].status = "WAITING" /\ rows[call[s].entry].status = "WAITING"
  BY <1>1 DEF PlaceInvariant, SingleInvariant, ExclusiveInvariant, CopyWasWaiting,
     ActingOnWaiting, Acting
<1>3. /\ loaded[s].position = rows[call[s].entry].position
      /\ loaded[s].joinedAt = rows[call[s].entry].joinedAt
  BY <1>1 DEF PlaceInvariant, SingleInvariant, CopyKeepsPlace, CopyKeepsStamps, Acting
<1> QED
  BY <1>1, <1>2, <1>3

(* What was asked for is remembered. *)
AskedIsKept ==
    \A r \in Running : call[r].op \in {"shift", "assign"} => call[r].op \in asked

(* A call is remembered when it is accepted. *)
LEMMA AskedStep ==
    ASSUME TypeOK, AskedIsKept, [SerialNext]_serialVars
    PROVE  asked \subseteq asked' /\ AskedIsKept'
<1>1. CASE SerialNext
  BY <1>1 DEF SerialNext, AskedIsKept, Running
<1>2. CASE UNCHANGED serialVars
  BY <1>2 DEF serialVars, liveVars, vars, AskedIsKept, Running
<1> QED
  BY <1>1, <1>2

(* While no request is between its commit and its recalculation, positions   *)
(* are ranks.                                                               *)
Moving  == {"commit", "evict", "recalc", "write"}
Settled == \A r \in Slot : pc[r] \notin Moving

PlacesAreRanks ==
    faults = 0 /\ "assign" \notin asked /\ Settled =>
        \A e \in Active : rows[e].position = Rank(e)

(* Whoever leaves is recalculated away, and whoever joins comes last.        *)
LEMMA PlacesAreRanksStep ==
    ASSUME PlaceInvariant, AskedIsKept, PlacesAreRanks, [SerialNext]_serialVars,
           NEW s, Slot = {s}
    PROVE  PlacesAreRanks'
<1> SUFFICES ASSUME faults' = 0, "assign" \notin asked', Settled'
             PROVE  \A e \in Active' : rows'[e].position = Rank(e)'
  BY DEF PlacesAreRanks
<1>a. /\ ExclusiveInvariant /\ TypeOK /\ [Next]_vars /\ s \in Slot /\ faults \in Nat
  BY SerialStep DEF PlaceInvariant, SingleInvariant, ExclusiveInvariant, TypeOK
<1>b. faults = 0 /\ faults' = faults /\ "assign" \notin asked /\ pc'[s] \notin Moving
  BY <1>a, UpstreamMoves, AskedStep DEF Settled
<1>c. \A e \in Active : rows[e].position \in Nat /\ rows[e].joinedAt \in Nat
  BY <1>a DEF TypeOK, StoreTypeOK, Ticket, Active
<1>d. JoinsDiffer
  BY DEF PlaceInvariant, SingleInvariant, JoinsAreStamped, JoinsDiffer, Active, Created, IsWaiting
<1>1. ASSUME pc[s] \notin Moving PROVE \A e \in Active : rows[e].position = Rank(e)
  BY <1>1, <1>b DEF PlacesAreRanks, Settled
<1>2. ASSUME rows' = rows, \A e \in Active : rows[e].position = Rank(e)
      PROVE  \A e \in Active' : rows'[e].position = Rank(e)'
  BY <1>2, OrderKept
<1>3. CASE Rests(s)
  BY <1>1, <1>2, <1>b, <1>3 DEF Rests
<1>4. CASE Starts(s)
  BY <1>1, <1>2, <1>4 DEF Starts, Moving
<1>5. CASE Ends(s)
  <2>1. /\ rows' = rows /\ pc[s] \notin {"commit", "write"}
        /\ pc[s] = "evict" => call[s].op = "assign"
        /\ pc[s] = "recalc" => \E S \in SUBSET Active : Renumbering(S) = NoUpdate
    BY <1>a, <1>b, <1>5 DEF Ends
  <2>2. pc[s] # "evict"
    BY <1>b, <2>1 DEF AskedIsKept, Running
  <2>3. CASE pc[s] = "recalc"
    <3>1. PICK S \in SUBSET Active : Renumbering(S) = NoUpdate
      BY <2>1, <2>3
    <3>2. ASSUME NEW e \in Active PROVE rows[e].position = Rank(e)
      <4>1. e \in Entry /\ Rank(e) # NoPosition
        BY RanksArePositive DEF Active
      <4>2. Renumbering(S)[e] = NoPosition
        BY <3>1, <4>1 DEF NoUpdate
      <4> QED
        BY <4>1, <4>2 DEF Renumbering
    <3> QED
      BY <1>2, <2>1, <3>2
  <2>4. CASE pc[s] \notin Moving
    BY <1>1, <1>2, <2>1, <2>4
  <2> QED
    BY <2>1, <2>2, <2>3, <2>4 DEF Moving
<1>6. CASE Registers(s)
  <2>1. pc[s] \notin Moving
    BY <1>6 DEF Registers, Passes, Moving
  <2>2. CASE rows' = rows
    BY <1>1, <1>2, <2>1, <2>2
  <2>3. CASE Passes(s, "insert", "store") /\ rows' = Replaced(s)
    <3> DEFINE new == call[s].entry
    <3>1. Inserts(s, new) /\ new \in Entry
      BY <1>a, <2>3, InsertsOfOne
    <3>2. \A f \in Active : rows[f].position = Rank(f) /\ rows[f].position <= QueueDepth
      <4>1. \A f \in Active : rows[f].position = Rank(f) /\ Rank(f) \in 1..QueueDepth
        BY <1>1, <1>a, <1>d, <2>1, RanksOrder
      <4> QED
        BY <4>1, CountsAreNatural
    <3> QED
      BY <3>1, <3>2, InsertAdds, InsertComesLast
  <2> QED
    BY <1>6, <2>2, <2>3 DEF Registers
<1>7. CASE Transits(s)
  <2>1. CASE Passes(s, "write", "publish")
    <3>1. pc[s] = "write" /\ rows' = Batched(plan[s])
      BY <1>7, <2>1 DEF Transits, Passes, AfterLoad
    <3> QED
      BY <3>1, WriteKeepsRanks
  <2>2. CASE ~Passes(s, "write", "publish")
    <3>1. rows' = rows /\ pc[s] \notin Moving
      BY <1>7, <1>b, <2>2 DEF Transits, Passes, AfterLoad, Moving
    <3> QED
      BY <1>1, <1>2, <3>1
  <2> QED
    BY <2>1, <2>2
<1>8. CASE Saves(s)
  <2>1. pc[s] \notin Moving
    BY <1>8 DEF Saves, Passes, Moving
  <2>2. Active' = Active /\ \A e \in Active : Rank(e)' = Rank(e)
    BY <1>8, SavesOfOne, OrderKept DEF IsWaiting
  <2>3. \A e \in Active : rows'[e].position = rows[e].position
    BY <1>8, SavesOfOne DEF Active
  <2> QED
    BY <1>1, <2>1, <2>2, <2>3
<1> QED
  BY <1>a, <1>3, <1>4, <1>5, <1>6, <1>7, <1>8, StepsOfOne

(* The parties of InitialQueue are numbered 1, 2, ...                        *)
LEMMA InitPlacesAreRanks ==
    ASSUME Init, NEW e \in Active PROVE rows[e].position = Rank(e)
<1>1. /\ clock \in Nat /\ e \in Created /\ Active = Created
      /\ \A f \in Active : /\ rows[f].number \in 1..clock
                           /\ rows[f].position = rows[f].number
                           /\ rows[f].joinedAt = rows[f].number
      /\ \A f, g \in Active : rows[f].number = rows[g].number => f = g
      /\ \A n \in 1..clock : \E f \in Active : rows[f].number = n
  BY InitPlaces
<1> DEFINE n == rows[e].number - 1
           S == {f \in Active : Before(f, e)}
           number == [f \in S |-> rows[f].number]
<1>2. n \in Nat /\ IsFiniteSet(1..n) /\ Cardinality(1..n) = n
  <2>1. n \in Nat
    BY <1>1
  <2> HIDE DEF n
  <2>2. IsFiniteSet(1..n) /\ Cardinality(1..n) = IF 1 > n THEN 0 ELSE n - 1 + 1
    BY <2>1, FS_Interval
  <2>3. (IF 1 > n THEN 0 ELSE n - 1 + 1) = n
    BY <2>1
  <2> QED
    BY <2>1, <2>2, <2>3
<1>3. \A f \in Active : f \in S <=> rows[f].number < rows[e].number
  BY <1>1 DEF Before
<1>4. number \in [S -> 1..n]
  BY <1>1, <1>3
<1>5. \A f, g \in S : number[f] = number[g] => f = g
  BY <1>1
<1>6. \A i \in 1..n : \E f \in S : number[f] = i
  <2> SUFFICES ASSUME NEW i \in 1..n PROVE \E f \in S : rows[f].number = i
    OBVIOUS
  <2>1. i \in 1..clock /\ i < rows[e].number
    BY <1>1
  <2>2. PICK f \in Active : rows[f].number = i
    BY <1>1, <2>1
  <2> QED
    BY <1>3, <2>1, <2>2
<1>7. rows[e].position = 1 + n /\ Rank(e) = 1 + Cardinality(S)
  BY <1>1 DEF Rank
<1> HIDE DEF S, n
<1>8. number \in Injection(S, 1..n) /\ number \in Surjection(S, 1..n)
  BY <1>4, <1>5, <1>6 DEF Injection, Surjection, IsInjective
<1>9. Cardinality(S) = Cardinality(1..n)
  BY <1>2, <1>8, FS_Injection
<1> QED
  BY <1>2, <1>7, <1>9

(* Positions and what was asked for, with one request at a time. *)
LEMMA PlacesAreRanksHold ==
    ASSUME NEW s, Slot = {s}
    PROVE  SerialSpec => [](PlaceInvariant /\ AskedIsKept /\ PlacesAreRanks)
<1>1. SerialInit => AskedIsKept /\ PlacesAreRanks
  <2> SUFFICES ASSUME SerialInit PROVE AskedIsKept /\ PlacesAreRanks
    OBVIOUS
  <2>1. Init
    BY DEF SerialInit, LiveInit
  <2>2. \A r \in Slot : pc[r] = "idle"
    BY <2>1 DEF Init
  <2> QED
    BY <2>1, <2>2, InitPlacesAreRanks DEF AskedIsKept, PlacesAreRanks, Running
<1>2. PlaceInvariant => TypeOK
  BY DEF PlaceInvariant, SingleInvariant, ExclusiveInvariant
<1> QED
  BY <1>1, <1>2, PlaceInvariantHolds, AskedStep, PlacesAreRanksStep, SerialImplementsSpec, PTL
  DEF SerialSpec

(* With one request at a time the parties are numbered 1, 2, ... between     *)
(* requests, whatever the requests were, unless a recalculation failed or    *)
(* was left out: then positions are the ranks of findActiveEntries.          *)
THEOREM RanksAreContiguousHolds ==
    ASSUME NEW s, Slot = {s} PROVE SerialSpec => []RanksAreContiguous
<1>1. PlaceInvariant /\ PlacesAreRanks => RanksAreContiguous
  <2> SUFFICES ASSUME PlaceInvariant, PlacesAreRanks,
                      Running = {}, faults = 0, "assign" \notin asked
               PROVE  {rows[e].position : e \in Active} = 1..QueueDepth
    BY DEF RanksAreContiguous
  <2>1. Settled
    BY DEF Settled, Moving, Running
  <2>2. \A e \in Active : rows[e].position = Rank(e)
    BY <2>1 DEF PlacesAreRanks
  <2>3. TypeOK /\ JoinsDiffer
    BY DEF PlaceInvariant, SingleInvariant, ExclusiveInvariant, JoinsAreStamped, JoinsDiffer,
       Active, Created, IsWaiting
  <2> QED
    BY <2>2, <2>3, RanksOrder
<1> QED
  BY <1>1, PlacesAreRanksHold, PTL

-----------------------------------------------------------------------------
(* First come, first served. *)

(* Without shift and tables/assign, positions never contradict the order in  *)
(* which the parties joined.  A lost recalculation leaves one gap; then the  *)
(* next position may be taken by the last party, too, but by none before it. *)
Slack == IF \E r \in Slot : pc[r] \in {"evict", "recalc", "write"} THEN 1 ELSE 0

PlacesFollowJoins ==
    asked = {} /\ faults <= 1 =>
        /\ \A e, f \in Active : rows[e].joinedAt < rows[f].joinedAt =>
               rows[e].position <= rows[f].position
        /\ \A e \in Active : rows[e].position <= QueueDepth + faults + Slack

(* With one gap at most, who joins later comes later. *)
LEMMA PlacesFollowJoinsStep ==
    ASSUME PlaceInvariant, AskedIsKept, PlacesFollowJoins, [SerialNext]_serialVars,
           NEW s, Slot = {s}
    PROVE  PlacesFollowJoins'
<1> SUFFICES ASSUME asked' = {}, faults' <= 1
             PROVE  /\ \A e, f \in Active' : rows'[e].joinedAt < rows'[f].joinedAt =>
                           rows'[e].position <= rows'[f].position
                    /\ \A e \in Active' : rows'[e].position <= QueueDepth' + faults' + Slack'
  BY DEF PlacesFollowJoins
<1> DEFINE slow(await) == await \in {"evict", "recalc", "write"}
           slack(await) == IF slow(await) THEN 1 ELSE 0
<1>a. /\ ExclusiveInvariant /\ TypeOK /\ [Next]_vars /\ s \in Slot /\ faults \in Nat
      /\ loaded[s] \in Ticket /\ faults' \in {faults, faults + 1}
      /\ pc[s] # "idle" => call[s].op \notin {"shift", "assign"}
  <2>1. TypeOK /\ ExclusiveInvariant /\ [Next]_vars
    BY SerialStep DEF PlaceInvariant, SingleInvariant, ExclusiveInvariant
  <2>2. pc[s] # "idle" => call[s].op \notin {"shift", "assign"}
    BY <2>1, AskedStep DEF AskedIsKept, Running
  <2> QED
    BY <2>1, <2>2, UpstreamMoves DEF TypeOK, RequestTypeOK
<1>b. Slack = slack(pc[s]) /\ Slack' = slack(pc'[s]) /\ asked = {} /\ faults <= 1
  BY <1>a, AskedStep DEF Slack
<1>c. /\ \A e \in Active : rows[e].position \in Nat /\ rows[e].joinedAt \in Nat
      /\ QueueDepth \in Nat /\ JoinsDiffer
  BY <1>a, CountsAreNatural
  DEF TypeOK, StoreTypeOK, Ticket, Active, PlaceInvariant, SingleInvariant, JoinsAreStamped,
      JoinsDiffer, Created, IsWaiting
<1>d. /\ \A e, f \in Active : rows[e].joinedAt < rows[f].joinedAt =>
             rows[e].position <= rows[f].position
      /\ \A e \in Active : rows[e].position <= QueueDepth + faults + slack(pc[s])
  BY <1>b DEF PlacesFollowJoins
<1>e. \A e \in Active : Rank(e) \in 1..QueueDepth
  BY <1>a, <1>c, RanksOrder
<1> HIDE DEF slack
<1>f. \A await : slack(await) \in {0, 1}
  BY DEF slack
<1> HIDE DEF slow
<1>1. ASSUME Active' = Active, QueueDepth' = QueueDepth,
             \A e \in Active : /\ rows'[e].joinedAt = rows[e].joinedAt
                               /\ rows'[e].position = rows[e].position,
             \/ faults + slack(pc[s]) <= faults' + slack(pc'[s])
             \/ \A e \in Active : rows[e].position <= QueueDepth
      PROVE  /\ \A e, f \in Active' : rows'[e].joinedAt < rows'[f].joinedAt =>
                    rows'[e].position <= rows'[f].position
             /\ \A e \in Active' : rows'[e].position <= QueueDepth' + faults' + Slack'
  <2>1. ASSUME NEW e \in Active PROVE rows[e].position <= QueueDepth + faults' + slack(pc'[s])
    <3>1. faults' \in Nat /\ slack(pc[s]) \in {0, 1} /\ slack(pc'[s]) \in {0, 1}
      BY <1>a, <1>f
    <3>2. rows[e].position \in Nat /\ rows[e].position <= QueueDepth + faults + slack(pc[s])
      BY <1>c, <1>d
    <3> QED
      BY <1>a, <1>c, <1>1, <3>1, <3>2
  <2> QED
    BY <1>b, <1>d, <1>1, <2>1
<1>2. ASSUME rows' = rows, \/ faults + slack(pc[s]) <= faults' + slack(pc'[s])
                           \/ \A e \in Active : rows[e].position <= QueueDepth
      PROVE  /\ \A e, f \in Active' : rows'[e].joinedAt < rows'[f].joinedAt =>
                    rows'[e].position <= rows'[f].position
             /\ \A e \in Active' : rows'[e].position <= QueueDepth' + faults' + Slack'
  BY <1>1, <1>2, OrderKept
<1>3. CASE Rests(s)
  <2>1. rows' = rows /\ faults + slack(pc[s]) <= faults' + slack(pc'[s])
    <3>1. rows' = rows /\ pc'[s] = pc[s] /\ slack(pc[s]) \in {0, 1}
      BY <1>3, <1>f DEF Rests
    <3> QED
      BY <1>a, <3>1
  <2> QED
    BY <1>2, <2>1
<1>4. CASE Starts(s)
  <2>1. rows' = rows /\ faults' = faults /\ slack(pc[s]) = 0
    BY <1>4 DEF Starts, slack, slow
  <2>2. slack(pc'[s]) \in {0, 1}
    BY <1>f
  <2> QED
    BY <1>2, <1>a, <2>1, <2>2
<1>5. CASE Ends(s)
  <2>1. rows' = rows /\ pc'[s] = "idle"
    BY <1>5 DEF Ends
  <2>2. slack(pc'[s]) = 0 /\ slack(pc[s]) \in {0, 1}
    BY <2>1 DEF slack, slow
  <2>3. CASE faults' = faults + 1
    BY <1>2, <1>a, <2>1, <2>2, <2>3
  <2>4. CASE faults' = faults
    <3>1. /\ pc[s] \notin {"commit", "write"} /\ pc[s] # "evict"
          /\ pc[s] = "recalc" => \E S \in SUBSET Active : Renumbering(S) = NoUpdate
      BY <1>a, <1>5, <2>4 DEF Ends
    <3>2. CASE pc[s] = "recalc"
      <4>1. PICK S \in SUBSET Active : Renumbering(S) = NoUpdate
        BY <3>1, <3>2
      <4>2. ASSUME NEW e \in Active PROVE rows[e].position <= QueueDepth
        <5>1. e \in Entry /\ Rank(e) # NoPosition
          BY RanksArePositive DEF Active
        <5>2. Renumbering(S)[e] = NoPosition
          BY <4>1, <5>1 DEF NoUpdate
        <5>3. rows[e].position = Rank(e)
          BY <5>1, <5>2 DEF Renumbering
        <5> QED
          BY <1>c, <1>e, <5>3
      <4> QED
        BY <1>2, <2>1, <4>2
    <3>3. CASE pc[s] # "recalc"
      <4>1. slack(pc[s]) = 0
        BY <3>1, <3>3 DEF slack, slow
      <4> QED
        BY <1>2, <1>a, <2>1, <2>2, <2>4, <4>1
    <3> QED
      BY <3>2, <3>3
  <2> QED
    BY <1>a, <2>3, <2>4
<1>6. CASE Registers(s)
  <2>1. slack(pc[s]) = 0 /\ slack(pc'[s]) = 0 /\ faults' = faults
    BY <1>6 DEF Registers, Passes, slack, slow
  <2>2. CASE rows' = rows
    BY <1>2, <1>a, <2>1, <2>2
  <2>3. CASE Passes(s, "insert", "store") /\ rows' = Replaced(s)
    <3> DEFINE new == call[s].entry
    <3>1. Inserts(s, new) /\ new \in Entry
      BY <1>a, <2>3, InsertsOfOne
    <3>2. /\ Active' = Active \union {new} /\ new \notin Active
          /\ QueueDepth' = QueueDepth + 1
          /\ \A f \in Active : rows'[f] = rows[f] /\ rows[f].joinedAt < clock
          /\ rows'[new].position = QueueDepth + 1 /\ rows'[new].joinedAt = clock
      BY <3>1, InsertAdds
    <3>3. \A e \in Active : rows[e].position <= QueueDepth + 1
      <4>1. ASSUME NEW e \in Active PROVE rows[e].position <= QueueDepth + 1
        <5>1. rows[e].position <= QueueDepth + faults + 0
          BY <1>d, <2>1
        <5> QED
          BY <1>a, <1>b, <1>c, <5>1
      <4> QED
        BY <4>1
    <3> HIDE DEF new
    <3>4. ASSUME NEW e \in Active', NEW f \in Active', rows'[e].joinedAt < rows'[f].joinedAt
          PROVE  rows'[e].position <= rows'[f].position
      <4>1. CASE e \in Active /\ f \in Active
        BY <1>d, <3>2, <3>4, <4>1
      <4>2. CASE e \in Active /\ f = new
        BY <3>2, <3>3, <4>2
      <4>3. CASE e = new
        <5>1. clock \in Nat
          BY <1>a DEF TypeOK
        <5>2. f = new \/ (f \in Active /\ rows'[f].joinedAt < clock)
          <6>1. f \in Active => rows'[f] = rows[f] /\ rows[f].joinedAt < clock
            BY <3>2
          <6> QED
            BY <3>2, <6>1
        <5>3. f \in Active => rows'[f].joinedAt \in Nat
          BY <1>c, <3>2
        <5> QED
          BY <3>2, <3>4, <4>3, <5>1, <5>2, <5>3
      <4> QED
        BY <3>2, <4>1, <4>2, <4>3
    <3>5. ASSUME NEW e \in Active' PROVE rows'[e].position <= QueueDepth' + faults' + Slack'
      <4>1. Slack' = 0 /\ QueueDepth' + faults' + Slack' = QueueDepth + 1 + faults
        BY <1>a, <1>b, <1>c, <2>1, <3>2
      <4>2. rows'[e].position \in Nat /\ rows'[e].position <= QueueDepth + 1
        BY <1>c, <3>2, <3>3
      <4> QED
        BY <1>a, <1>c, <4>1, <4>2
    <3> QED
      BY <3>4, <3>5
  <2> QED
    BY <1>6, <2>2, <2>3 DEF Registers
<1>7. CASE Transits(s)
  <2>1. CASE pc[s] = "write"
    <3>1. rows' = Batched(plan[s])
      BY <1>7, <2>1 DEF Transits, Passes
    <3>2. /\ Active' = Active /\ QueueDepth' = QueueDepth
          /\ \A e \in Active : rows'[e].position = Rank(e) /\ rows'[e].joinedAt = rows[e].joinedAt
      BY <2>1, <3>1, WriteKeepsRanks
    <3>3. ASSUME NEW e \in Active, NEW f \in Active, rows[e].joinedAt < rows[f].joinedAt
          PROVE  Rank(e) <= Rank(f)
      <4>1. ~Before(f, e)
        BY <1>c, <1>d, <3>3 DEF Before
      <4>2. ~(Rank(f) < Rank(e))
        BY <1>a, <1>c, <4>1, RanksOrder
      <4> QED
        BY <1>c, <1>e, <4>2
    <3>4. ASSUME NEW e \in Active PROVE Rank(e) <= QueueDepth' + faults' + Slack'
      BY <1>a, <1>b, <1>c, <1>e, <1>f, <3>2
    <3> QED
      BY <3>2, <3>3, <3>4
  <2>2. CASE pc[s] = "batch"
    BY <1>a, <2>2 DEF PlaceInvariant, PlansAreRanks
  <2>3. CASE pc[s] = "commit"
    <3> DEFINE gone == call[s].entry
    <3>1. /\ call[s].op \in {"seat", "skip", "cancel"} /\ rows' = Replaced(s)
          /\ pc'[s] = IF IsWaiting(loaded[s]) THEN "recalc" ELSE "evict"
      BY <1>a, <1>7, <2>3 DEF Transits, Passes, AfterLoad
    <3>2. loaded[s].status \in Outcomes(call[s])
      BY <1>a, <2>3 DEF ExclusiveInvariant, CopyIsOutcome, Acting
    <3>3. ~IsWaiting(loaded[s])
      BY <3>1, <3>2 DEF Outcomes, IsWaiting
    <3>4. gone \in Active /\ gone \in Entry
      BY <1>a, <2>3 DEF ExclusiveInvariant, ActingOnWaiting, Acting, Active, IsWaiting, TypeOK,
         RequestTypeOK, Call
    <3>5. \A f \in Entry : rows'[f] = IF f = gone THEN loaded[s] ELSE rows[f]
      BY <1>a, <3>1 DEF Replaced, TypeOK, StoreTypeOK
    <3> HIDE DEF gone
    <3>6. Active' = Active \ {gone}
      BY <3>3, <3>4, <3>5 DEF Active
    <3>7. QueueDepth' = QueueDepth - 1
      <4>1. IsFiniteSet(Active)
        BY EntryAssumption, FS_Subset DEF Active
      <4> QED
        BY <3>4, <3>6, <4>1, FS_RemoveElement DEF QueueDepth
    <3>8. slack(pc[s]) = 0 /\ slack(pc'[s]) = 1
      BY <2>3, <3>1, <3>3 DEF slack, slow
    <3>9. ASSUME NEW e \in Active PROVE rows[e].position <= QueueDepth' + faults' + Slack'
      <4>1. rows[e].position \in Nat /\ rows[e].position <= QueueDepth + faults + 0
        BY <1>c, <1>d, <3>8
      <4>2. QueueDepth' + faults' + Slack' = QueueDepth - 1 + faults' + 1
        BY <1>b, <3>7, <3>8
      <4> QED
        BY <1>a, <1>c, <4>1, <4>2
    <3>10. \A f \in Active' : f \in Active /\ rows'[f] = rows[f]
      BY <3>5, <3>6 DEF Active
    <3> QED
      BY <1>d, <3>9, <3>10
  <2>4. CASE pc[s] \notin {"write", "batch", "commit"}
    <3>1. rows' = rows /\ faults' \in {faults, faults + 1}
      BY <1>7, <2>4 DEF Transits, Passes
    <3>2. slow(pc[s]) => slow(pc'[s])
      BY <1>7, <2>4 DEF Transits, Passes, slow
    <3>3. slack(pc[s]) <= slack(pc'[s]) /\ slack(pc[s]) \in {0, 1} /\ slack(pc'[s]) \in {0, 1}
      BY <1>f, <3>2 DEF slack
    <3>4. faults + slack(pc[s]) <= faults' + slack(pc'[s])
      BY <1>a, <3>1, <3>3
    <3> QED
      BY <1>2, <3>1, <3>4
  <2> QED
    BY <2>1, <2>2, <2>3, <2>4
<1>8. CASE Saves(s)
  <2>1. slack(pc[s]) = 0 /\ slack(pc'[s]) = 0 /\ faults' = faults
    BY <1>8 DEF Saves, Passes, slack, slow
  <2>2. Active' = Active /\ QueueDepth' = QueueDepth
    BY <1>8, SavesOfOne, OrderKept DEF IsWaiting
  <2>3. \A e \in Active : /\ rows'[e].joinedAt = rows[e].joinedAt
                          /\ rows'[e].position = rows[e].position
    BY <1>8, SavesOfOne DEF Active
  <2> QED
    BY <1>1, <1>a, <2>1, <2>2, <2>3
<1> QED
  BY <1>a, <1>3, <1>4, <1>5, <1>6, <1>7, <1>8, StepsOfOne

(* The order in which the parties joined, with one request at a time. *)
LEMMA PlacesFollowJoinsHold ==
    ASSUME NEW s, Slot = {s}
    PROVE  SerialSpec => [](PlaceInvariant /\ AskedIsKept /\ PlacesAreRanks /\ PlacesFollowJoins)
<1>1. SerialInit => PlacesFollowJoins
  <2> SUFFICES ASSUME SerialInit
               PROVE  /\ \A e, f \in Active : rows[e].joinedAt < rows[f].joinedAt =>
                             rows[e].position <= rows[f].position
                      /\ \A e \in Active : rows[e].position <= QueueDepth + faults + Slack
    BY DEF PlacesFollowJoins
  <2>1. Init
    BY DEF SerialInit, LiveInit
  <2>2. /\ \A f \in Active : /\ rows[f].position = rows[f].number
                             /\ rows[f].joinedAt = rows[f].number
                             /\ rows[f].number \in Nat
    BY <2>1, InitPlaces
  <2>3. TypeOK /\ JoinsDiffer
    <3>1. TypeOK
      BY <2>1, TypeInit
    <3>2. \A e, f \in Active : rows[e].number = rows[f].number => e = f
      BY <2>1, InitPlaces
    <3> QED
      BY <2>2, <3>1, <3>2 DEF JoinsDiffer
  <2>4. \A e \in Active : rows[e].position \in 1..QueueDepth
    BY <2>1, <2>3, InitPlacesAreRanks, RanksOrder
  <2>5. faults = 0 /\ Slack = 0 /\ QueueDepth \in Nat
    BY <2>1, CountsAreNatural DEF Init, Slack
  <2> QED
    BY <2>2, <2>4, <2>5
<1> QED
  BY <1>1, PlacesAreRanksHold, PlacesFollowJoinsStep, PTL DEF SerialSpec

(* With one request at a time findActiveEntries lists the parties in the    *)
(* order they joined, even if one recalculation or one request fails half   *)
(* way, unless staff shift a party or use tables/assign.                    *)
THEOREM ListedChronologicallyHolds ==
    ASSUME NEW s, Slot = {s} PROVE SerialSpec => []ListedChronologically
<1>1. PlaceInvariant /\ PlacesFollowJoins => ListedChronologically
  <2> SUFFICES ASSUME PlaceInvariant, PlacesFollowJoins, asked = {}, faults <= 1,
                      NEW e \in Active, NEW f \in Active, rows[e].joinedAt < rows[f].joinedAt
               PROVE  Before(e, f)
    BY DEF ListedChronologically
  <2>1. rows[e].position <= rows[f].position
    BY DEF PlacesFollowJoins
  <2>2. rows[e].position \in Nat /\ rows[f].position \in Nat
    BY DEF PlaceInvariant, SingleInvariant, ExclusiveInvariant, TypeOK, StoreTypeOK, Active, Ticket
  <2> QED
    BY <2>1, <2>2 DEF Before
<1> QED
  BY <1>1, PlacesFollowJoinsHold, PTL

(* With one request at a time, and guests that differ in the beginning, the *)
(* staff, the customer and the database agree between requests on where a   *)
(* party is: what the staff count off a list is the stored position, and of *)
(* a selection never more; the ticket a user is shown is the only one.      *)
THEOREM ViewsAgreeHolds ==
    ASSUME NEW s, Slot = {s}, InitialGuestsDiffer PROVE SerialSpec => []ViewsAgree
<1>1. PlaceInvariant /\ PlacesAreRanks /\ PlacesFollowJoins /\ OneTicketPerGuest => ViewsAgree
  <2> SUFFICES ASSUME PlaceInvariant, PlacesAreRanks, PlacesFollowJoins, OneTicketPerGuest,
                      Running = {}, faults = 0, asked = {}, NEW e \in Active
               PROVE  /\ StaffPlace(e, Entry) = rows[e].position
                      /\ rows[e].guest.user # NoUser => ActiveTicket(rows[e].guest.user) = {e}
                      /\ \A selected \in SUBSET Active :
                             e \in selected => StaffPlace(e, selected) <= rows[e].position
    BY DEF ViewsAgree
  <2>1. TypeOK /\ JoinsDiffer /\ Active \subseteq Entry
    BY DEF PlaceInvariant, SingleInvariant, ExclusiveInvariant, JoinsAreStamped, JoinsDiffer,
       Active, Created, IsWaiting
  <2>2. \A f \in Active : rows[f].position \in Nat /\ rows[f].joinedAt \in Nat
    BY <2>1 DEF TypeOK, StoreTypeOK, Active, Ticket
  <2>3. rows[e].position = 1 + Cardinality(Ahead(e))
    <3>1. Settled
      BY DEF Settled, Moving, Running
    <3> QED
      BY <2>1, <3>1, AheadIsCounted DEF PlacesAreRanks
  <2>4. ASSUME NEW f \in Active PROVE rows[f].joinedAt < rows[e].joinedAt <=> Before(f, e)
    <3>1. /\ rows[f].joinedAt < rows[e].joinedAt => rows[f].position <= rows[e].position
          /\ rows[e].joinedAt < rows[f].joinedAt => rows[e].position <= rows[f].position
      BY DEF PlacesFollowJoins
    <3>2. rows[e].joinedAt = rows[f].joinedAt => e = f
      BY <2>1 DEF JoinsDiffer
    <3> QED
      BY <2>2, <3>1, <3>2 DEF Before
  <2>5. StaffPlace(e, Entry) = rows[e].position
    <3>1. {f \in Active \intersect Entry : rows[f].joinedAt < rows[e].joinedAt} = Ahead(e)
      BY <2>1, <2>4 DEF Ahead
    <3> QED
      BY <2>3, <3>1 DEF StaffPlace
  <2>6. ASSUME rows[e].guest.user # NoUser PROVE ActiveTicket(rows[e].guest.user) = {e}
    <3>1. ActiveByUser(rows[e].guest.user) = {e}
      BY <2>6 DEF ActiveByUser, OneTicketPerGuest, OneTicketPerUser
    <3> QED
      BY <2>2, <3>1 DEF ActiveTicket
  <2>7. ASSUME NEW selected \in SUBSET Active, e \in selected
        PROVE  StaffPlace(e, selected) <= rows[e].position
    <3> DEFINE S == {f \in Active \intersect selected : rows[f].joinedAt < rows[e].joinedAt}
    <3>1. S \subseteq Ahead(e)
      BY <2>4 DEF Ahead
    <3> HIDE DEF S
    <3>2. IsFiniteSet(Ahead(e)) /\ Cardinality(Ahead(e)) \in Nat
      BY <2>1, AheadIsCounted
    <3>3. Cardinality(S) <= Cardinality(Ahead(e)) /\ Cardinality(S) \in Nat
      BY <3>1, <3>2, FS_Subset, FS_CardinalityType
    <3>4. StaffPlace(e, selected) = 1 + Cardinality(S)
      BY DEF StaffPlace, S
    <3> QED
      BY <2>3, <3>2, <3>3, <3>4
  <2> QED
    BY <2>5, <2>6, <2>7
<1>2. Spec => []OneTicketPerGuest
  <2>1. Apart
    BY DEF Apart
  <2> QED
    BY <2>1, OneTicketPerGuestHolds
<1> QED
  BY <1>1, <1>2, PlacesFollowJoinsHold, SerialImplementsSpec, PTL

-----------------------------------------------------------------------------
(* The cache and the parties' screens follow the rows. *)

(* Without shifts a ticket's status and position change when it is inserted, *)
(* when it leaves, and by a recalculation that has it in its plan.           *)
LEMMA PlaceMoves ==
    ASSUME PlaceInvariant, [Next]_vars, NEW s, Slot = {s}, NEW e \in Entry,
           pc[s] # "idle" => call[s].op # "shift"
    PROVE  \/ rows'[e].position = rows[e].position /\ rows'[e].status = rows[e].status
           \/ /\ pc'[s] = "publish"
              /\ plan'[s] = plan[s] /\ plan[s][e] # NoPosition
           \/ /\ pc'[s] \in {"store", "evict"}
              /\ call'[s] = call[s] /\ call[s].entry = e
<1>a. /\ ExclusiveInvariant /\ TypeOK /\ rows \in [Entry -> Ticket] /\ s \in Slot
      /\ CopyIsOutcome
  BY DEF PlaceInvariant, SingleInvariant, ExclusiveInvariant, TypeOK, StoreTypeOK
<1>1. CASE rows'[e] = rows[e]
  BY <1>1
<1>2. CASE Renumbers(s) /\ plan[s][e] # NoPosition
  <2>1. pc[s] # "batch"
    BY DEF PlaceInvariant, PlansAreRanks
  <2>2. Passes(s, "write", "publish")
    BY <1>2, <2>1 DEF Renumbers, Passes
  <2>3. plan'[s] = plan[s]
    BY <1>a, <2>2, StepsOfOne
    DEF Rests, Starts, Ends, Registers, Transits, Saves, Passes, AfterLoad
  <2> QED
    BY <1>2, <2>2, <2>3 DEF Passes
<1>3. CASE Overwrites(s) /\ e = call[s].entry /\ rows'[e] = loaded[s]
  <2>1. CASE Passes(s, "insert", "store")
    <3>1. call'[s] = call[s]
      BY <1>a, <2>1, StepsOfOne
      DEF Rests, Starts, Ends, Registers, Transits, Saves, Passes, AfterLoad
    <3> QED
      BY <1>3, <2>1, <3>1 DEF Passes
  <2>2. CASE Passes(s, "save", "idle") \/ Passes(s, "save", "enqueue")
    <3>1. Saves(s) \/ rows' = rows
      BY <1>a, <2>2, StepsOfOne
      DEF Rests, Starts, Ends, Registers, Transits, Passes, AfterLoad
    <3> QED
      BY <3>1, SavesOfOne
  <2>3. CASE Passes(s, "commit", IF IsWaiting(loaded[s]) THEN "recalc" ELSE "evict")
    <3>1. \/ call'[s] = call[s] /\ call[s].op \in {"seat", "assign", "skip", "cancel"}
          \/ pc'[s] = "idle"
      BY <1>a, <2>3, StepsOfOne
      DEF Rests, Starts, Ends, Registers, Transits, Saves, Passes, AfterLoad
    <3>2. pc'[s] # "idle" /\ pc[s] = "commit"
      BY <2>3 DEF Passes
    <3>3. loaded[s].status \in Outcomes(call[s])
      BY <1>a, <3>2 DEF CopyIsOutcome, Acting
    <3>4. ~IsWaiting(loaded[s])
      BY <3>1, <3>2, <3>3 DEF Outcomes, IsWaiting
    <3> QED
      BY <1>3, <2>3, <3>1, <3>2, <3>4 DEF Passes
  <2> QED
    BY <1>3, <2>1, <2>2, <2>3 DEF Overwrites
<1> QED
  BY <1>a, <1>1, <1>2, <1>3, RowOfOne

(* What the request still has to cache, and still has to announce. *)
CacheLags(e) ==
    \E r \in Slot : \/ pc[r] \in {"store", "evict"} /\ call[r].entry = e
                    \/ pc[r] = "publish" /\ plan[r][e] # NoPosition

ShownLags(e) ==
    \E r \in Slot : \/ pc[r] \in Settling /\ call[r].entry = e
                    \/ pc[r] = "publish" /\ plan[r][e] # NoPosition

CacheFollows ==
    faults = 0 /\ "shift" \notin asked =>
        \A e \in Entry : CacheLags(e) \/ cache[e] = rows[e].position

ShownFollows ==
    faults = 0 /\ "shift" \notin asked =>
        \A e \in Entry : ShownLags(e) \/ shown[e] = Seen(rows[e])

(* What a step does to a cached position, if nothing fails.                  *)
LEMMA CacheMoves ==
    ASSUME TypeOK, [Next]_vars, NEW s, Slot = {s}, NEW e \in Entry, faults' = faults
    PROVE  \/ /\ cache'[e] = cache[e]
              /\ CacheLags(e) => CacheLags(e)'
           \/ pc[s] = "store" /\ call[s].entry = e /\ cache'[e] = loaded[s].position
           \/ pc[s] = "evict" /\ call[s].entry = e /\ cache'[e] = NoPosition
           \/ pc[s] = "publish" /\ plan[s][e] # NoPosition /\ cache'[e] = plan[s][e]
<1>a. cache \in [Entry -> Nat] /\ faults \in Nat /\ s \in Slot /\ faults' # faults + 1
  BY DEF TypeOK, StoreTypeOK
<1> DEFINE Kept == cache'[e] = cache[e] /\ (CacheLags(e) => CacheLags(e)')
<1>b. ASSUME UNCHANGED cache, pc[s] \notin {"store", "evict", "publish"} PROVE Kept
  BY <1>b DEF CacheLags
<1>1. CASE RegisterStore(s) \/ Evict(s) \/ RecalculatePublish(s)
  <2>1. CASE RegisterStore(s)
    <3>1. pc[s] = "store" /\ cache' = [cache EXCEPT ![call[s].entry] = loaded[s].position]
      BY <1>a, <2>1 DEF RegisterStore, At, SpendFault
    <3>2. call[s].entry # e => Kept
      BY <1>a, <3>1 DEF CacheLags
    <3> QED
      BY <1>a, <3>1, <3>2
  <2>2. CASE Evict(s)
    <3>1. pc[s] = "evict" /\ cache' = [cache EXCEPT ![call[s].entry] = NoPosition]
      BY <1>a, <2>2 DEF Evict, At, SpendFault, RemoveLiveEntry
    <3>2. call[s].entry # e => Kept
      BY <1>a, <3>1 DEF CacheLags
    <3> QED
      BY <1>a, <3>1, <3>2
  <2>3. CASE RecalculatePublish(s)
    <3>1. pc[s] = "publish" /\ SaveLiveEntries(plan[s], {})
      BY <1>a, <2>3 DEF RecalculatePublish, At, SpendFault
    <3>2. cache'[e] = IF plan[s][e] = NoPosition THEN cache[e] ELSE plan[s][e]
      BY <3>1 DEF SaveLiveEntries
    <3>3. plan[s][e] = NoPosition => Kept
      BY <3>1, <3>2 DEF CacheLags
    <3> QED
      BY <3>1, <3>2, <3>3
  <2> QED
    BY <1>1, <2>1, <2>2, <2>3
<1>2. CASE Accept(s) \/ Refuse(s)
  <2>1. UNCHANGED cache /\ pc[s] \notin {"store", "evict", "publish"}
    BY <1>2 DEF Accept, Refuse, At, ReadsOnly, storeVars
  <2> QED
    BY <1>b, <2>1
<1>3. CASE Fail(s) \/ Expire
  BY <1>a, <1>3 DEF Fail, Expire, SpendFault
<1>4. CASE UNCHANGED vars
  BY <1>4 DEF vars, storeVars, localVars, CacheLags
<1>5. CASE Advance(s) /\ ~(RegisterStore(s) \/ Evict(s) \/ RecalculatePublish(s))
  <2>1. UNCHANGED cache /\ pc[s] \notin {"store", "evict", "publish"}
    BY <1>5 DEF Advance, RegisterCheck, RegisterDepth, RegisterCount, RegisterCreate,
       RegisterVerify, RegisterInsert, Load, RingSave, RingEnqueue, Occupy, CancelAssignments,
       CancelRelease, CancelUnlink, ShiftRank, ShiftBatch, Commit, Recalculate, RecalculateWrite, At,
       ReadsOnly, storeVars
  <2> QED
    BY <1>b, <2>1
<1> HIDE DEF Kept
<1>6. Accept(s) \/ Refuse(s) \/ Fail(s) \/ Advance(s) \/ Expire \/ UNCHANGED vars
  BY DEF Next, Quiet
<1> QED
  BY <1>1, <1>2, <1>3, <1>4, <1>5, <1>6

(* What is stored, evicted or published is what the row says. *)
LEMMA CacheFollowsStep ==
    ASSUME PlaceInvariant, AskedIsKept, CacheFollows, [SerialNext]_serialVars,
           NEW s, Slot = {s}
    PROVE  CacheFollows'
<1> SUFFICES ASSUME faults' = 0, "shift" \notin asked', NEW e \in Entry
             PROVE  CacheLags(e)' \/ cache'[e] = rows'[e].position
  BY DEF CacheFollows
<1>a. /\ ExclusiveInvariant /\ TypeOK /\ [Next]_vars /\ s \in Slot
      /\ PlacesAreGivenUp /\ CopyKeepsPlace /\ PlansAreRanks
      /\ WrittenStays /\ CallsAreValid /\ rows \in [Entry -> Ticket]
  BY SerialStep
  DEF PlaceInvariant, SingleInvariant, ExclusiveInvariant, TypeOK, StoreTypeOK
<1>b. /\ faults = 0 /\ faults' = faults
      /\ pc[s] # "idle" => call[s].op # "shift"
      /\ CacheLags(e) \/ cache[e] = rows[e].position
  <2>1. faults = 0 /\ faults' = faults
    BY <1>a, UpstreamMoves DEF TypeOK
  <2>2. "shift" \notin asked /\ (pc[s] # "idle" => call[s].op # "shift")
    BY <1>a, AskedStep DEF AskedIsKept, Running
  <2> QED
    BY <2>1, <2>2 DEF CacheFollows
<1>1. ASSUME pc[s] \in {"store", "evict", "publish"} PROVE rows'[e] = rows[e]
  BY <1>1, <1>a, RowOfOne DEF Renumbers, Overwrites, Passes
<1>2. CASE cache'[e] = cache[e] /\ (CacheLags(e) => CacheLags(e)')
  <2>1. CASE rows'[e].position = rows[e].position
    BY <1>b, <1>2, <2>1
  <2>2. CASE pc'[s] = "publish" /\ plan'[s] = plan[s] /\ plan[s][e] # NoPosition
    BY <1>a, <2>2 DEF CacheLags
  <2>3. CASE pc'[s] \in {"store", "evict"} /\ call'[s] = call[s] /\ call[s].entry = e
    BY <1>a, <2>3 DEF CacheLags
  <2> QED
    BY <1>a, <1>b, <2>1, <2>2, <2>3, PlaceMoves
<1>3. CASE pc[s] = "store" /\ call[s].entry = e /\ cache'[e] = loaded[s].position
  <2>1. loaded[s].position = rows[e].position
    BY <1>a, <1>b, <1>3 DEF CopyKeepsPlace, Settling
  <2> QED
    BY <1>1, <1>3, <2>1
<1>4. CASE pc[s] = "evict" /\ call[s].entry = e /\ cache'[e] = NoPosition
  <2>1. ~IsWaiting(rows[e])
    BY <1>a, <1>4 DEF CopyKeepsPlace, WrittenStays, Settling, IsWaiting
  <2>2. rows[e].position = NoPosition
    BY <1>a, <2>1 DEF PlacesAreGivenUp, OnlyWaitingIsRanked
  <2> QED
    BY <1>1, <1>4, <2>2
<1>5. CASE pc[s] = "publish" /\ plan[s][e] # NoPosition /\ cache'[e] = plan[s][e]
  <2>1. plan[s][e] = rows[e].position
    BY <1>a, <1>5 DEF PlansAreRanks
  <2> QED
    BY <1>1, <1>5, <2>1
<1> QED
  BY <1>a, <1>b, <1>2, <1>3, <1>4, <1>5, CacheMoves

(* With one request at a time, without shifts and failures, the cache holds  *)
(* between requests exactly the waiting tickets at their stored positions:   *)
(* what a request leaves uncached, the same request caches before it ends.   *)
THEOREM CacheAgreesHolds ==
    ASSUME NEW s, Slot = {s} PROVE SerialSpec => []CacheAgrees
<1>1. SerialInit => CacheFollows
  <2> SUFFICES ASSUME Init PROVE \A e \in Entry : cache[e] = rows[e].position
    BY DEF SerialInit, LiveInit, CacheFollows
  <2> QED
    BY InitPlaces DEF AbsentRow
<1>2. PlaceInvariant /\ CacheFollows => CacheAgrees
  <2> SUFFICES ASSUME PlaceInvariant, CacheFollows, Running = {}, faults = 0,
                      "shift" \notin asked, NEW e \in Entry
               PROVE  cache[e] = IF e \in Active THEN rows[e].position ELSE NoPosition
    BY DEF CacheAgrees
  <2>1. cache[e] = rows[e].position
    BY DEF CacheFollows, CacheLags, Running
  <2>2. e \notin Active => rows[e].position = NoPosition
    BY DEF PlaceInvariant, SingleInvariant, PlacesAreGivenUp, OnlyWaitingIsRanked, Active
  <2> QED
    BY <2>1, <2>2
<1> QED
  BY <1>1, <1>2, PlacesAreRanksHold, CacheFollowsStep, PTL DEF SerialSpec

(* What a step shows a party, if nothing fails. *)
LEMMA ShownMoves ==
    ASSUME TypeOK, ShownTypeOK, [LiveNext]_liveVars, NEW s, Slot = {s}, NEW e \in Entry,
           faults' = faults
    PROVE  \/ /\ shown'[e] = shown[e]
              /\ ShownLags(e) => ShownLags(e)'
           \/ /\ pc[s] \in Settling /\ rows' = rows
              /\ \/ call[s].entry = e /\ shown'[e] = Seen(loaded[s])
                 \/ /\ pc[s] = "publish" /\ plan[s][e] # NoPosition
                    /\ shown'[e] = [status |-> "WAITING", position |-> plan[s][e]]
<1>a. /\ shown \in [Entry -> [status : Status \union {"ABSENT"}, position : Nat]]
      /\ pc \in [Slot -> Await] /\ s \in Slot /\ faults \in Nat /\ faults' # faults + 1
  BY DEF TypeOK, RequestTypeOK, ShownTypeOK
<1> DEFINE Kept  == shown'[e] = shown[e] /\ (ShownLags(e) => ShownLags(e)')
           Given == /\ pc[s] \in Settling /\ rows' = rows
                    /\ \/ call[s].entry = e /\ shown'[e] = Seen(loaded[s])
                       \/ /\ pc[s] = "publish" /\ plan[s][e] # NoPosition
                          /\ shown'[e] = [status |-> "WAITING", position |-> plan[s][e]]
<1>b. ASSUME UNCHANGED shown, pc[s] \notin Settling PROVE Kept
  BY <1>b DEF ShownLags, Settling
<1>c. ASSUME UNCHANGED <<shown, call>>, pc[s] \in {"evict", "recalc", "write"},
             pc'[s] \in Settling
      PROVE  Kept
  BY <1>a, <1>c DEF ShownLags, Settling
<1>d. ASSUME NEW await \in Await, Goto(s, await) PROVE pc'[s] = await
  BY <1>a, <1>d DEF Goto
<1>1. CASE Registered(s)
  <2>1. /\ pc[s] = "store" /\ rows' = rows
        /\ shown' = [shown EXCEPT ![call[s].entry] = Seen(loaded[s])]
    BY <1>1 DEF Registered, RegisterStore, At, dbVars
  <2>2. CASE call[s].entry = e
    BY <1>a, <2>1, <2>2 DEF Settling
  <2>3. CASE call[s].entry # e
    BY <1>a, <2>1, <2>3 DEF ShownLags
  <2> QED
    BY <2>2, <2>3
<1>2. CASE Unmoved(s) \/ Assigned(s)
  <2>1. /\ pc[s] \in {"recalc", "evict"} /\ rows' = rows /\ Announce(s, NoUpdate)
    BY <1>2 DEF Unmoved, Assigned, Recalculate, Evict, At, ReadsOnly, storeVars, dbVars
  <2>2. shown'[e] = IF e = call[s].entry THEN Seen(loaded[s]) ELSE shown[e]
    BY <2>1 DEF Announce, NoUpdate
  <2>3. call[s].entry # e => ~ShownLags(e)
    BY <2>1 DEF ShownLags
  <2> QED
    BY <2>1, <2>2, <2>3 DEF Settling
<1>3. CASE Moved(s)
  <2>1. /\ pc[s] = "publish" /\ rows' = rows /\ Announce(s, plan[s])
    BY <1>3 DEF Moved, RecalculatePublish, At, dbVars
  <2>2. shown'[e] = IF e = call[s].entry THEN Seen(loaded[s])
                    ELSE IF plan[s][e] # NoPosition
                         THEN [status |-> "WAITING", position |-> plan[s][e]]
                    ELSE shown[e]
    BY <2>1 DEF Announce
  <2>3. call[s].entry # e /\ plan[s][e] = NoPosition => ~ShownLags(e)
    BY <2>1 DEF ShownLags
  <2> QED
    BY <2>1, <2>2, <2>3 DEF Settling
<1>4. CASE Silent(s)
  <2>1. UNCHANGED shown
    BY <1>4 DEF Silent
  <2>2. CASE Evict(s) /\ pc'[s] = "recalc"
    <3>1. UNCHANGED call /\ pc[s] = "evict"
      BY <1>d, <2>2 DEF Evict, Finish, At, localVars, Await
    <3> QED
      BY <1>c, <2>1, <2>2, <3>1 DEF Settling
  <2>3. CASE Recalculate(s) /\ pc'[s] = "write"
    <3>1. UNCHANGED call /\ pc[s] = "recalc"
      BY <1>d, <2>3 DEF Recalculate, Finish, At, Await
    <3> QED
      BY <1>c, <2>1, <2>3, <3>1 DEF Settling
  <2>4. CASE RecalculateWrite(s)
    <3>1. UNCHANGED call /\ pc[s] = "write" /\ pc'[s] = "publish"
      BY <1>d, <2>4 DEF RecalculateWrite, At, localVars, Await
    <3> QED
      BY <1>c, <2>1, <3>1 DEF Settling
  <2>5. CASE Fail(s)
    BY <1>a, <2>5 DEF Fail, SpendFault
  <2>6. CASE \/ Accept(s) \/ Refuse(s)
             \/ RegisterCheck(s) \/ RegisterDepth(s) \/ RegisterCount(s) \/ RegisterCreate(s)
             \/ RegisterVerify(s) \/ RegisterInsert(s)
             \/ Load(s) \/ RingSave(s) \/ RingEnqueue(s) \/ Occupy(s)
             \/ CancelAssignments(s) \/ CancelRelease(s) \/ CancelUnlink(s)
             \/ ShiftRank(s) \/ ShiftBatch(s) \/ Commit(s)
    <3>1. pc[s] \notin Settling
      BY <2>6 DEF Accept, Refuse, RegisterCheck, RegisterDepth, RegisterCount, RegisterCreate,
         RegisterVerify, RegisterInsert, Load, RingSave, RingEnqueue, Occupy, CancelAssignments,
         CancelRelease, CancelUnlink, ShiftRank, ShiftBatch, Commit, At, Settling
    <3> QED
      BY <1>b, <2>1, <3>1
  <2> HIDE DEF Kept
  <2> QED
    BY <1>4, <2>2, <2>3, <2>4, <2>5, <2>6 DEF Silent
<1>5. CASE (Expire \/ Quiet) /\ UNCHANGED shown
  <2>1. CASE Expire
    BY <1>a, <2>1 DEF Expire, SpendFault
  <2>2. CASE Quiet
    BY <1>5, <2>2 DEF Quiet, vars, ShownLags
  <2> QED
    BY <1>5, <2>1, <2>2
<1>6. CASE UNCHANGED liveVars
  BY <1>6 DEF liveVars, vars, ShownLags
<1> HIDE DEF Kept, Given
<1>7. \/ Registered(s) \/ Unmoved(s) \/ Moved(s) \/ Assigned(s) \/ Silent(s)
      \/ (Expire \/ Quiet) /\ UNCHANGED shown
      \/ UNCHANGED liveVars
  BY DEF LiveNext
<1> QED
  BY <1>1, <1>2, <1>3, <1>4, <1>5, <1>6, <1>7 DEF Kept, Given

(* What is announced is what the row says. *)
LEMMA ShownFollowsStep ==
    ASSUME PlaceInvariant, AskedIsKept, ShownTypeOK, ShownFollows, [SerialNext]_serialVars,
           NEW s, Slot = {s}
    PROVE  ShownFollows'
<1> SUFFICES ASSUME faults' = 0, "shift" \notin asked', NEW e \in Entry
             PROVE  ShownLags(e)' \/ shown'[e] = Seen(rows'[e])
  BY DEF ShownFollows
<1>a. /\ ExclusiveInvariant /\ TypeOK /\ [Next]_vars /\ [LiveNext]_liveVars /\ s \in Slot
      /\ PlacesAreGivenUp /\ CopyKeepsPlace /\ PlansAreRanks
      /\ WrittenStays /\ CallsAreValid
  BY SerialStep DEF PlaceInvariant, SingleInvariant, ExclusiveInvariant
<1>b. /\ faults = 0 /\ faults' = faults
      /\ pc[s] # "idle" => call[s].op # "shift"
      /\ ShownLags(e) \/ shown[e] = Seen(rows[e])
  <2>1. faults = 0 /\ faults' = faults
    BY <1>a, UpstreamMoves DEF TypeOK
  <2>2. "shift" \notin asked /\ (pc[s] # "idle" => call[s].op # "shift")
    BY <1>a, AskedStep DEF AskedIsKept, Running
  <2> QED
    BY <2>1, <2>2 DEF ShownFollows
<1>1. CASE shown'[e] = shown[e] /\ (ShownLags(e) => ShownLags(e)')
  <2>1. CASE rows'[e].position = rows[e].position /\ rows'[e].status = rows[e].status
    BY <1>b, <1>1, <2>1 DEF Seen
  <2>2. CASE pc'[s] = "publish" /\ plan'[s] = plan[s] /\ plan[s][e] # NoPosition
    BY <1>a, <2>2 DEF ShownLags
  <2>3. CASE pc'[s] \in {"store", "evict"} /\ call'[s] = call[s] /\ call[s].entry = e
    BY <1>a, <2>3 DEF ShownLags, Settling
  <2> QED
    BY <1>a, <1>b, <2>1, <2>2, <2>3, PlaceMoves
<1>2. CASE pc[s] \in Settling /\ rows' = rows /\ call[s].entry = e /\ shown'[e] = Seen(loaded[s])
  <2>1. loaded[s].position = rows[e].position /\ loaded[s].status = rows[e].status
    BY <1>a, <1>b, <1>2 DEF CopyKeepsPlace, WrittenStays, Settling
  <2> QED
    BY <1>2, <2>1 DEF Seen
<1>3. CASE /\ rows' = rows /\ pc[s] = "publish" /\ plan[s][e] # NoPosition
           /\ shown'[e] = [status |-> "WAITING", position |-> plan[s][e]]
  <2>1. plan[s][e] = rows[e].position
    BY <1>a, <1>3 DEF PlansAreRanks
  <2>2. rows[e].status = "WAITING"
    BY <1>a, <1>3 DEF PlacesAreGivenUp, Active, IsWaiting
  <2> QED
    BY <1>3, <2>1, <2>2 DEF Seen
<1> QED
  BY <1>a, <1>b, <1>1, <1>2, <1>3, ShownMoves

(* Every event has the shape of one. *)
LEMMA ShownTypeHolds == LiveSpec => []ShownTypeOK
<1>1. LiveInit => ShownTypeOK
  <2> SUFFICES ASSUME LiveInit PROVE ShownTypeOK
    OBVIOUS
  <2>1. /\ shown = [e \in Entry |-> Seen(rows[e])]
        /\ \A e \in Entry : rows[e] \in Ticket
    BY TypeInit DEF LiveInit, TypeOK, StoreTypeOK
  <2> QED
    BY <2>1, SeenIsShown DEF ShownTypeOK
<1>2. TypeOK /\ ShownTypeOK /\ [LiveNext]_liveVars => ShownTypeOK'
  BY Announcements DEF ShownTypeOK
<1> QED
  BY <1>1, <1>2, LiveImplementsSpec, TypeCorrect, PTL DEF LiveSpec

(* With one request at a time, without shifts and failures, every party sees *)
(* between requests what is stored of its ticket, whoever else was served.   *)
THEOREM ShownIsStoredHolds ==
    ASSUME NEW s, Slot = {s} PROVE SerialSpec => []ShownIsStored
<1>1. SerialInit => ShownFollows
  BY DEF SerialInit, LiveInit, ShownFollows
<1>2. ShownFollows => ShownIsStored
  <2>1. Running = {} => \A e \in Entry : ~ShownLags(e)
    BY DEF ShownLags, Settling, Running
  <2> QED
    BY <2>1 DEF ShownFollows, ShownIsStored
<1> QED
  BY <1>1, <1>2, PlacesAreRanksHold, ShownTypeHolds, SerialImplementsSpec, ShownFollowsStep, PTL
  DEF SerialSpec

-----------------------------------------------------------------------------
(* The training events. *)

(* A party that left is stamped with the time it left, before everybody who  *)
(* joins later; nobody else is stamped.                                     *)
StampsAreKept ==
    /\ \A f \in Entry : Ended(rows[f]) =>
           /\ updatedAt[f] \in 1..clock
           /\ seatedAt[f] = Never \/ seatedAt[f] \in 1..clock
           /\ seatedAt[f] # Never <=> rows[f].status = "SEATED"
    /\ \A f \in Entry : ~Ended(rows[f]) => seatedAt[f] = Never /\ updatedAt[f] = Never
    /\ \A r \in Slot : pc[r] \in {"verify", "insert"} =>
           \A f \in Entry : seatedAt[f] < clock /\ updatedAt[f] < clock

(* What becomes of a ticket and its time stamps. *)
Gone(f)    == Ended(rows[f]) /\ rows'[f] = rows[f] /\ UNCHANGED <<seatedAt[f], updatedAt[f]>>
There(f)   == ~Ended(rows[f]) /\ ~Ended(rows'[f]) /\ seatedAt'[f] = Never /\ updatedAt'[f] = Never
Leaving(f) == /\ f \in Active /\ Ended(rows'[f]) /\ rows'[f] # rows[f]
              /\ seatedAt'[f] = (IF rows'[f].status = "SEATED" THEN clock' ELSE Never)
              /\ updatedAt'[f] = clock'

(* A ticket is gone, stays what it is, or leaves now and is stamped with it. *)
LEMMA LeavingIsStamped ==
    ASSUME NEW s, Slot = {s}, SingleInvariant, StampsAreKept, [SerialNext]_serialVars,
           NEW f \in Entry
    PROVE  Gone(f) \/ There(f) \/ Leaving(f)
<1>a. /\ TypeOK /\ CopyWasWaiting /\ RowsHaveLogs /\ [Next]_vars
      /\ rows[f] \in Ticket
  BY SerialStep DEF SingleInvariant, ExclusiveInvariant, TypeOK, StoreTypeOK
<1>1. CASE UNCHANGED serialVars
  BY <1>1 DEF serialVars, liveVars, vars, columnVars, Gone, There, StampsAreKept
<1>2. CASE SerialNext
  <2>1. /\ seatedAt'[f] = IF rows'[f].status # "SEATED" THEN Never
                          ELSE IF rows[f].status = "SEATED" THEN seatedAt[f] ELSE clock'
        /\ updatedAt'[f] = IF ~Ended(rows'[f]) THEN Never
                           ELSE IF f \in Written THEN clock' ELSE updatedAt[f]
    BY <1>2 DEF SerialNext, StampRows
  <2>2. CASE Ended(rows[f])
    <3>1. /\ rows'[f] = rows[f]
          /\ pc[s] \in {"batch", "write", "publish"} => plan[s][f] = NoPosition
      BY <1>a, <2>2, EndedStays
    <3>2. f \notin Written
      BY <3>1 DEF Written
    <3> QED
      BY <2>1, <2>2, <3>1, <3>2 DEF Gone, StampsAreKept
  <2>3. CASE ~Ended(rows[f]) /\ ~Ended(rows'[f])
    BY <2>1, <2>3 DEF There, Ended, Terminal
  <2>4. CASE ~Ended(rows[f]) /\ Ended(rows'[f])
    <3>1. rows[f].status \in {"ABSENT", "WAITING"}
      BY <1>a, <2>4 DEF Ticket, Ended, Status
    <3>2. rows[f].status # "ABSENT"
      BY <1>a, <2>4, TicketStep DEF RowsHaveLogs, Ended, Terminal
    <3>3. f \in Active /\ rows'[f] # rows[f]
      BY <2>4, <3>1, <3>2 DEF Active, IsWaiting
    <3>4. f \in Written
      BY <3>3 DEF Written
    <3> QED
      BY <2>1, <2>4, <3>1, <3>3, <3>4 DEF Leaving
  <2> QED
    BY <2>2, <2>3, <2>4
<1> QED
  BY <1>1, <1>2

(* The stamps are kept. *)
LEMMA StampsStep ==
    ASSUME NEW s, Slot = {s}, SingleInvariant, StampsAreKept, [SerialNext]_serialVars
    PROVE  StampsAreKept'
<1>a. /\ TypeOK /\ [Next]_vars /\ clock \in Nat /\ s \in Slot
      /\ \A f \in Active : f \in Created
  BY SerialStep DEF SingleInvariant, ExclusiveInvariant, TypeOK, Active, Created, IsWaiting
<1>b. clock' \in {clock, clock + 1}
  BY <1>a, StepsOfOne DEF Rests, Starts, Ends, Registers, Transits, Saves
<1>c. \A f \in Active : clock >= 1
  BY <1>a DEF SingleInvariant, JoinsAreStamped
<1>1. ASSUME NEW f \in Entry, Ended(rows'[f])
      PROVE  /\ updatedAt'[f] \in 1..clock'
             /\ seatedAt'[f] = Never \/ seatedAt'[f] \in 1..clock'
             /\ seatedAt'[f] # Never <=> rows'[f].status = "SEATED"
  <2>1. CASE Gone(f)
    BY <1>a, <1>b, <2>1 DEF Gone, StampsAreKept
  <2>2. CASE Leaving(f)
    BY <1>a, <1>b, <1>c, <2>2 DEF Leaving, Never
  <2> QED
    BY <1>1, <2>1, <2>2, LeavingIsStamped DEF There
<1>2. ASSUME NEW f \in Entry, ~Ended(rows'[f])
      PROVE  seatedAt'[f] = Never /\ updatedAt'[f] = Never
  BY <1>2, LeavingIsStamped DEF Gone, There, Leaving
<1>3. ASSUME NEW f \in Entry, pc'[s] \in {"verify", "insert"}
      PROVE  seatedAt'[f] < clock' /\ updatedAt'[f] < clock'
  <2>1. /\ rows' = rows
        /\ \/ pc[s] \in {"verify", "insert"} /\ clock' = clock
           \/ clock' = clock + 1
    BY <1>a, <1>3, JoiningOfOne DEF Passes
  <2>2. UNCHANGED <<seatedAt[f], updatedAt[f]>>
    BY <2>1, LeavingIsStamped DEF Gone, There, Leaving, StampsAreKept
  <2>3. seatedAt[f] \in 0..clock /\ updatedAt[f] \in 0..clock
    BY <1>a DEF StampsAreKept, Never
  <2>4. pc[s] \in {"verify", "insert"} => seatedAt[f] < clock /\ updatedAt[f] < clock
    BY <1>a DEF StampsAreKept
  <2> QED
    BY <1>a, <2>1, <2>2, <2>3, <2>4
<1> QED
  BY <1>1, <1>2, <1>3 DEF StampsAreKept

(* Whom a request has counted for its prediction is who waits until it      *)
(* inserts its ticket; then the time stamps tell the same.                   *)
CountedIsActive ==
    \A r \in Slot : pc[r] \in {"count", "create", "verify", "insert"} =>
        counted[call[r].entry] = Active

(* What is counted for a party is not counted again while it waits. *)
LEMMA CountedStays ==
    ASSUME NEW s, Slot = {s}, [SerialNext]_serialVars, NEW e \in Entry,
           \/ IsWaiting(rows'[e])
           \/ call'[s].op = "register" /\ call'[s].entry = e,
           ~(Passes(s, "depth", "count") /\ call[s].entry = e)
    PROVE  counted'[e] = counted[e]
<1>1. CASE UNCHANGED serialVars
  BY <1>1 DEF serialVars
<1>2. CASE SerialNext
  BY <1>2 DEF SerialNext, CountAhead, Registering, Passes
<1> QED
  BY <1>1, <1>2

(* The queue does not change between the count and the insert. *)
LEMMA CountedStep ==
    ASSUME NEW s, Slot = {s}, SingleInvariant, CountedIsActive, [SerialNext]_serialVars
    PROVE  CountedIsActive'
<1> SUFFICES ASSUME pc'[s] \in {"count", "create", "verify", "insert"}
             PROVE  counted'[call'[s].entry] = Active'
  BY DEF CountedIsActive
<1>a. /\ TypeOK /\ CallsAreValid /\ [Next]_vars /\ s \in Slot
      /\ pc[s] # "idle" => call[s].entry \in Entry
  BY SerialStep DEF SingleInvariant, ExclusiveInvariant, TypeOK, RequestTypeOK, Call
<1>1. /\ rows' = rows /\ call'[s] = call[s] /\ pc[s] # "idle"
      /\ \/ pc[s] \in {"count", "create", "verify", "insert"}
         \/ Passes(s, "depth", "count")
  BY <1>a, JoiningOfOne DEF Passes
<1>2. Active' = Active
  BY <1>1 DEF Active
<1>3. CASE Passes(s, "depth", "count")
  <2>1. SerialNext
    BY <1>3 DEF Passes, serialVars, liveVars, vars
  <2> QED
    BY <1>1, <1>2, <1>3, <1>a, <2>1 DEF SerialNext, CountAhead, PeopleAhead, Passes
<1>4. CASE pc[s] \in {"count", "create", "verify", "insert"}
  <2>1. call[s].op = "register"
    BY <1>a, <1>4 DEF CallsAreValid, Joining, Running
  <2>2. counted'[call[s].entry] = counted[call[s].entry]
    BY <1>1, <1>4, <1>a, <2>1, CountedStays DEF Passes
  <2> QED
    BY <1>1, <1>2, <1>4, <2>2 DEF CountedIsActive
<1> QED
  BY <1>1, <1>3, <1>4

(* The training events keep reporting what was counted, whoever leaves.      *)
LEMMA TrainedStep ==
    ASSUME NEW s, Slot = {s}, SingleInvariant, StampsAreKept, CountedIsActive, TrainedAsServed,
           [SerialNext]_serialVars
    PROVE  TrainedAsServed'
<1>a. /\ ExclusiveInvariant /\ TypeOK /\ [Next]_vars /\ clock \in Nat /\ s \in Slot
      /\ CopyKeepsStamps /\ RowsHaveLogs /\ CallsAreValid /\ JoinsAreStamped
      /\ Active \subseteq Created
      /\ \A f \in Entry : rows[f] \in Ticket
  BY SerialStep DEF SingleInvariant, ExclusiveInvariant, TypeOK, StoreTypeOK, Active, Created,
     IsWaiting
<1>b. clock' \in {clock, clock + 1}
  BY <1>a, StepsOfOne DEF Rests, Starts, Ends, Registers, Transits, Saves
<1>c. \A f \in Created : rows[f].joinedAt \in 1..clock
  BY <1>a DEF JoinsAreStamped
<1>1. ASSUME NEW f \in Entry, ~Inserts(s, f)
      PROVE  rows'[f].joinedAt = rows[f].joinedAt /\ (f \in Created' <=> f \in Created)
  BY <1>a, <1>1, StampsOfOne
<1>2. ASSUME NEW f \in Entry, Inserts(s, f)
      PROVE  /\ f \notin Created /\ f \in Created' /\ clock' = clock
             /\ rows'[f].joinedAt = clock /\ \A g \in Created : rows[g].joinedAt < clock
  <2>1. clock' = clock
    BY <1>a, <1>2, StepsOfOne DEF Inserts, Passes, Rests, Starts, Ends, Registers, Transits, Saves
  <2> QED
    BY <1>a, <1>2, <2>1 DEF Inserts, Passes, JoinsAreStamped, Active, Created, IsWaiting
<1>3. ASSUME NEW e \in Active', ~Inserts(s, e)
      PROVE  PeopleAheadAtJoin(e)' = counted'[e]
  <2>1. e \in Active /\ e \in Entry
    <3>1. e \in Entry /\ e \in Created' /\ ~Ended(rows'[e])
      BY <1>3 DEF Active, Created, IsWaiting, Ended, Terminal
    <3>2. e \in Created /\ ~Ended(rows[e])
      BY <1>1, <1>3, <3>1, LeavingIsStamped DEF Gone, There, Leaving, Active, IsWaiting, Ended, Terminal
    <3> QED
      BY <1>a, <3>1, <3>2 DEF Ticket, Created, Active, Ended, Status, IsWaiting
  <2>2. counted'[e] = counted[e]
    <3>1. ~(Passes(s, "depth", "count") /\ call[s].entry = e)
      BY <1>a, <2>1 DEF RowsHaveLogs, Joining, Passes
    <3> QED
      BY <1>3, <2>1, <3>1, CountedStays DEF Active
  <2>3. ASSUME NEW f \in Entry PROVE f \in PeopleAheadAtJoin(e)' <=> f \in PeopleAheadAtJoin(e)
    <3>1. rows'[e].joinedAt = rows[e].joinedAt /\ rows[e].joinedAt \in 1..clock
      BY <1>1, <1>3, <1>a, <1>c, <2>1
    <3>2. CASE Inserts(s, f)
      BY <1>2, <1>a, <2>1, <3>1, <3>2 DEF PeopleAheadAtJoin, Created
    <3>3. CASE ~Inserts(s, f)
      <4>1. rows'[f].joinedAt = rows[f].joinedAt /\ (f \in Created' <=> f \in Created)
        BY <1>1, <3>3
      <4>2. CASE Gone(f)
        BY <3>1, <4>1, <4>2 DEF Gone, PeopleAheadAtJoin, Created
      <4>3. CASE There(f)
        <5>1. seatedAt[f] = Never /\ seatedAt'[f] = Never
          BY <4>3 DEF There, StampsAreKept
        <5>2. /\ rows[f].status \notin {"CANCELLED", "NO_SHOW", "SKIPPED"}
              /\ rows'[f].status \notin {"CANCELLED", "NO_SHOW", "SKIPPED"}
          BY <4>3 DEF There, Ended, Terminal
        <5> QED
          BY <3>1, <4>1, <5>1, <5>2 DEF PeopleAheadAtJoin, Created
      <4>4. CASE Leaving(f)
        <5>1. seatedAt[f] = Never /\ rows[f].status = "WAITING"
          BY <4>4 DEF Leaving, StampsAreKept, Ended, Terminal, Active, IsWaiting
        <5>2. /\ seatedAt'[f] = Never \/ After(seatedAt'[f], rows[e].joinedAt)
              /\ After(updatedAt'[f], rows[e].joinedAt)
          BY <1>a, <1>b, <3>1, <4>4 DEF Leaving, After
        <5> QED
          BY <3>1, <4>1, <5>1, <5>2 DEF PeopleAheadAtJoin, Created
      <4> QED
        BY <4>2, <4>3, <4>4, LeavingIsStamped
    <3> QED
      BY <3>2, <3>3
  <2>4. PeopleAheadAtJoin(e) = counted[e]
    BY <2>1 DEF TrainedAsServed
  <2>5. PeopleAheadAtJoin(e)' = PeopleAheadAtJoin(e)
    BY <2>3 DEF PeopleAheadAtJoin
  <2> QED
    BY <2>2, <2>4, <2>5
<1>4. ASSUME NEW e \in Active', Inserts(s, e)
      PROVE  PeopleAheadAtJoin(e)' = counted'[e]
  <2>1. /\ e \in Entry /\ pc[s] = "insert" /\ call[s].entry = e /\ call'[s] = call[s]
        /\ call[s].op = "register"
    <3>1. pc[s] = "insert" /\ pc'[s] = "store" /\ call[s].entry = e
      BY <1>4 DEF Inserts, Passes
    <3>2. call'[s] = call[s]
      BY <1>a, <3>1, StepsOfOne DEF Passes, Rests, Starts, Ends, Registers, Transits, Saves
    <3> QED
      BY <1>a, <1>4, <3>1, <3>2 DEF CallsAreValid, Joining, Running, Active
  <2>2. counted'[e] = Active
    BY <1>a, <2>1, CountedStays DEF CountedIsActive, Passes
  <2>3. rows'[e].joinedAt = clock
    BY <1>2, <1>4, <2>1
  <2>4. ASSUME NEW f \in Entry PROVE f \in PeopleAheadAtJoin(e)' <=> f \in Active
    <3>1. CASE f = e
      BY <1>2, <1>4, <1>a, <2>1, <2>3, <3>1 DEF PeopleAheadAtJoin
    <3>2. CASE f # e
      <4>1. /\ rows'[f] = rows[f]
            /\ f \in Created => rows[f].joinedAt < clock
            /\ seatedAt[f] < clock /\ updatedAt[f] < clock
        BY <1>2, <1>4, <1>a, <2>1, <3>2
        DEF Inserts, Replaced, ExclusiveInvariant, TypeOK, StoreTypeOK, StampsAreKept
      <4>2. ~Leaving(f)
        BY <4>1 DEF Leaving
      <4>3. CASE Gone(f)
        <5>1. /\ seatedAt'[f] = seatedAt[f] /\ updatedAt'[f] = updatedAt[f]
              /\ seatedAt[f] \in Nat /\ updatedAt[f] \in Nat
              /\ seatedAt[f] # Never <=> rows[f].status = "SEATED"
              /\ rows[f].status \in Terminal
          BY <4>3 DEF Gone, StampsAreKept, Never, Ended
        <5>2. f \notin Active
          BY <5>1 DEF Active, IsWaiting, Terminal
        <5> QED
          BY <1>a, <2>3, <4>1, <5>1, <5>2 DEF PeopleAheadAtJoin, After, Terminal
      <4>4. CASE There(f)
        BY <1>a, <2>3, <4>1, <4>4
        DEF There, PeopleAheadAtJoin, Ended, Terminal, Active, Created, IsWaiting, Ticket, Status
      <4> QED
        BY <4>2, <4>3, <4>4, LeavingIsStamped
    <3> QED
      BY <3>1, <3>2
  <2>5. PeopleAheadAtJoin(e)' = Active
    BY <2>4 DEF PeopleAheadAtJoin, Active
  <2> QED
    BY <2>2, <2>5
<1> QED
  BY <1>3, <1>4 DEF TrainedAsServed

(* With one request at a time the training event of a party reports the      *)
(* people that were counted ahead of it when it joined, whoever has been     *)
(* seated, skipped or cancelled since and whatever failed: the time stamps   *)
(* of the rows suffice to reconstruct them.                                 *)
THEOREM TrainedAsServedHolds ==
    ASSUME NEW s, Slot = {s} PROVE SerialSpec => []TrainedAsServed
<1>1. SerialInit => StampsAreKept /\ CountedIsActive /\ TrainedAsServed
  <2> SUFFICES ASSUME SerialInit PROVE StampsAreKept /\ CountedIsActive /\ TrainedAsServed
    OBVIOUS
  <2>1. /\ Init /\ ColumnsInit
        /\ counted = [e \in Entry |-> {f \in Active : Before(f, e) /\ e \in Active}]
    BY DEF SerialInit, LiveInit
  <2>2. \A r \in Slot : pc[r] = "idle"
    BY <2>1 DEF Init
  <2>3. /\ Active = Created
        /\ \A f \in Active : /\ rows[f].position = rows[f].number
                             /\ rows[f].joinedAt = rows[f].number
                             /\ rows[f].number \in Nat
    BY <2>1, InitPlaces
  <2>4. \A f \in Entry : ~Ended(rows[f]) /\ seatedAt[f] = Never /\ updatedAt[f] = Never
    BY <2>1, <2>3 DEF ColumnsInit, Active, Created, IsWaiting, Ended, Terminal
  <2>5. ASSUME NEW e \in Active PROVE PeopleAheadAtJoin(e) = counted[e]
    <3>1. \A f \in Active : Before(f, e) <=> rows[f].joinedAt < rows[e].joinedAt
      BY <2>3 DEF Before
    <3>2. PeopleAheadAtJoin(e) = {f \in Active : rows[f].joinedAt < rows[e].joinedAt}
      BY <2>3, <2>4 DEF PeopleAheadAtJoin, Created, Ended, Terminal
    <3>3. counted[e] = {f \in Active : Before(f, e)}
      BY <2>1 DEF Active
    <3> QED
      BY <3>1, <3>2, <3>3
  <2> QED
    BY <2>2, <2>4, <2>5 DEF StampsAreKept, CountedIsActive, TrainedAsServed
<1> QED
  BY <1>1, SingleInvariantHolds, SerialImplementsSpec, StampsStep, CountedStep, TrainedStep, PTL
  DEF SerialSpec

-----------------------------------------------------------------------------
(* Shifting. *)

(* Where a batch that moves the party at rank a to rank b puts the party at  *)
(* rank i.                                                                  *)
Slid(a, b, i) ==
    IF i = a THEN b ELSE IF a < i /\ i <= b THEN i - 1 ELSE i

(* Sliding keeps the order of all but one. *)
LEMMA SlidOrder ==
    ASSUME NEW a \in Nat, NEW b \in Nat, a <= b, NEW i \in Nat, NEW j \in Nat, i # a, j # a
    PROVE  /\ Slid(a, b, i) \in Nat /\ (Slid(a, b, i) < Slid(a, b, j) <=> i < j)
           /\ Slid(a, b, i) = Slid(a, b, j) => i = j
           /\ Slid(a, b, i) < b <=> i <= b
           /\ Slid(a, b, i) # b
BY DEF Slid

(* A shift puts everybody where sliding does, and only it moves positions    *)
(* between its batch and its commit.                                        *)
LEMMA ShiftSlides ==
    ASSUME PlaceInvariant, NEW s, Slot = {s}, [Next]_vars, Passes(s, "batch", "commit")
    PROVE  /\ call'[s] = call[s] /\ call[s].entry \in Active /\ call[s] \in Call
           /\ Active' = Active
           /\ \A f \in Active :
                  /\ rows'[f].joinedAt = rows[f].joinedAt
                  /\ rows'[f].position =
                         Slid(Rank(call[s].entry),
                              ShiftTarget(call[s].entry, call[s].shift), Rank(f))
<1> DEFINE e == call[s].entry
           target == ShiftTarget(e, call[s].shift)
<1>a. /\ TypeOK /\ rows \in [Entry -> Ticket] /\ s \in Slot /\ JoinsDiffer
      /\ pc[s] = "batch" => call[s] \in Call
  BY DEF PlaceInvariant, SingleInvariant, ExclusiveInvariant, TypeOK, StoreTypeOK, RequestTypeOK,
     JoinsAreStamped, JoinsDiffer, Active, Created, IsWaiting
<1>1. /\ rows' = Batched(plan[s]) /\ call'[s] = call[s] /\ pc[s] = "batch"
  BY <1>a, StepsOfOne DEF Rests, Starts, Ends, Registers, Transits, Saves, Passes, AfterLoad
<1>2. /\ e \in Active
      /\ plan[s] = [f \in Entry |-> IF f \in Active THEN ShiftedRank(e, target, f) ELSE NoPosition]
  BY <1>1 DEF PlaceInvariant, PlansAreRanks
<1> HIDE DEF target
<1>3. ASSUME NEW f \in Entry
      PROVE  /\ rows'[f].joinedAt = rows[f].joinedAt
             /\ rows'[f].status = rows[f].status
  BY <1>a, <1>1 DEF Batched, Ticket
<1>4. Active' = Active
  BY <1>3 DEF Active, IsWaiting
<1>5. ASSUME NEW f \in Active PROVE rows'[f].position = Slid(Rank(e), target, Rank(f))
  <2>1. ShiftedRank(e, target, f) = Slid(Rank(e), target, Rank(f))
    <3>1. Rank(f) = Rank(e) => f = e
      BY <1>a, <1>2, RanksOrder
    <3> QED
      BY <3>1 DEF ShiftedRank, Slid
  <2>2. f \in Entry /\ plan[s][f] = ShiftedRank(e, target, f)
    BY <1>2 DEF Active
  <2>3. plan[s][f] # NoPosition
    <3>1. Rank(f) \in 1..QueueDepth /\ Rank(e) \in 1..QueueDepth /\ QueueDepth \in Nat
      BY <1>a, <1>2, RanksOrder, CountsAreNatural
    <3>2. target \in Rank(e)..QueueDepth
      BY <1>a, <1>1, <3>1 DEF target, ShiftTarget, Call
    <3> QED
      BY <2>1, <2>2, <3>1, <3>2 DEF Slid, NoPosition
  <2> QED
    BY <1>a, <1>1, <2>1, <2>2, <2>3 DEF Batched, Ticket
<1> QED
  BY <1>a, <1>1, <1>2, <1>3, <1>4, <1>5 DEF target, Active

(* A shift moves one ticket and nobody else, with one request at a time and  *)
(* whatever failed before: the others keep their order, and the ticket falls *)
(* behind exactly as many as the staff asked for, or behind all of them.     *)
THEOREM ShiftIsLocalHolds ==
    ASSUME NEW s, Slot = {s} PROVE SerialSpec => ShiftIsLocal
<1> DEFINE Local ==
        \A r \in Slot : pc[r] = "batch" /\ pc'[r] = "commit" =>
            LET e == call[r].entry IN
            /\ \A f, g \in Active \ {e} : Before(f, g) <=> Before(f, g)'
            /\ Ahead(e) \subseteq Ahead(e)'
            /\ \/ Cardinality(Ahead(e)' \ Ahead(e)) = call[r].shift
               \/ Behind(e)' = {} /\ Cardinality(Behind(e)) < call[r].shift
<1>1. PlaceInvariant /\ [Next]_vars => [Local]_vars
  <2> DEFINE e == call[s].entry
             n == call[s].shift
             a == Rank(e)
             b == ShiftTarget(e, n)
  <2> SUFFICES ASSUME PlaceInvariant, [Next]_vars, Passes(s, "batch", "commit")
               PROVE  /\ \A f, g \in Active \ {e} : Before(f, g) <=> Before(f, g)'
                      /\ Ahead(e) \subseteq Ahead(e)'
                      /\ \/ Cardinality(Ahead(e)' \ Ahead(e)) = n
                         \/ Behind(e)' = {} /\ Cardinality(Behind(e)) < n
    BY DEF Passes
  <2>1. /\ call'[s] = call[s] /\ e \in Active /\ n \in Nat /\ Active' = Active
        /\ \A f \in Active : /\ rows'[f].joinedAt = rows[f].joinedAt
                             /\ rows'[f].position = Slid(a, b, Rank(f))
    BY ShiftSlides DEF Call
  <2>2. /\ TypeOK /\ JoinsDiffer
        /\ \A f \in Active : rows[f].joinedAt \in Nat
    BY DEF PlaceInvariant, SingleInvariant, ExclusiveInvariant, TypeOK, StoreTypeOK,
       JoinsAreStamped, JoinsDiffer, Active, Created, IsWaiting, Ticket
  <2>3. /\ QueueDepth \in Nat
        /\ \A f \in Active : Rank(f) \in 1..QueueDepth
        /\ \A f, g \in Active : Before(f, g) <=> Rank(f) < Rank(g)
        /\ \A f, g \in Active : Rank(f) = Rank(g) => f = g
    BY <2>2, RanksOrder, CountsAreNatural
  <2>4. /\ a \in 1..QueueDepth /\ b \in a..QueueDepth
        /\ b = a + n \/ (b = QueueDepth /\ QueueDepth - a < n)
    <3>1. a \in 1..QueueDepth
      BY <2>1, <2>3
    <3>2. b = IF a + n < QueueDepth THEN a + n ELSE QueueDepth
      BY DEF ShiftTarget
    <3> HIDE DEF a, b, n
    <3> QED
      BY <2>1, <2>3, <3>1, <3>2
  <2> HIDE DEF a, b, n
  <2>5. \A f \in Active \ {e} : Rank(f) # a
    BY <2>1, <2>3 DEF a
  <2>6. ASSUME NEW f \in Active \ {e}, NEW g \in Active \ {e} PROVE Before(f, g) <=> Before(f, g)'
    <3>1. /\ Slid(a, b, Rank(f)) < Slid(a, b, Rank(g)) <=> Rank(f) < Rank(g)
          /\ Slid(a, b, Rank(f)) = Slid(a, b, Rank(g)) => Rank(f) = Rank(g)
      <4>1. /\ Rank(f) \in Nat /\ Rank(g) \in Nat /\ Rank(f) # a /\ Rank(g) # a
            /\ a \in Nat /\ b \in Nat /\ a <= b
        BY <2>3, <2>4, <2>5
      <4> QED
        BY <4>1, SlidOrder
    <3>2. ~(rows'[f].joinedAt < rows'[f].joinedAt)
      BY <2>1, <2>2
    <3>3. Before(f, g) <=> Rank(f) < Rank(g)
      BY <2>3
    <3>4. Before(f, g)' <=> Slid(a, b, Rank(f)) < Slid(a, b, Rank(g))
                            \/ (Slid(a, b, Rank(f)) = Slid(a, b, Rank(g))
                                /\ rows'[f].joinedAt < rows'[g].joinedAt)
      BY <2>1 DEF Before
    <3>5. Rank(f) = Rank(g) => f = g
      BY <2>3
    <3> QED
      BY <3>1, <3>2, <3>3, <3>4, <3>5
  <2>7. ASSUME NEW f \in Active
        PROVE  /\ Before(f, e)' <=> f # e /\ Rank(f) <= b
               /\ Before(e, f)' <=> b < Rank(f)
    <3>1. rows'[e].position = b /\ rows'[e].joinedAt \in Nat /\ e' = e
      BY <2>1, <2>2 DEF Slid, a
    <3>2. CASE f = e
      <4>1. Rank(f) <= b /\ Rank(f) \in Nat /\ b \in Nat
        BY <2>3, <2>4, <3>2 DEF a
      <4> HIDE DEF e
      <4> QED
        BY <3>1, <3>2, <4>1 DEF Before
    <3>3. CASE f # e
      <4>1. /\ Rank(f) \in Nat /\ Rank(f) # a /\ a \in Nat /\ b \in Nat /\ a <= b
        BY <2>3, <2>4, <2>5, <3>3
      <4>2. /\ Slid(a, b, Rank(f)) \in Nat /\ Slid(a, b, Rank(f)) # b
            /\ Slid(a, b, Rank(f)) < b <=> Rank(f) <= b
        BY <4>1, SlidOrder
      <4>3. rows'[f].position = Slid(a, b, Rank(f))
        BY <2>1
      <4> HIDE DEF e
      <4>4. Before(f, e)' <=> Slid(a, b, Rank(f)) < b
        BY <3>1, <4>2, <4>3 DEF Before
      <4>5. Before(e, f)' <=> b < Slid(a, b, Rank(f))
        BY <3>1, <4>2, <4>3 DEF Before
      <4> QED
        BY <3>3, <4>1, <4>2, <4>4, <4>5
    <3> QED
      BY <3>2, <3>3
  <2>8. /\ Ahead(e)' = {f \in Active : f # e /\ Rank(f) <= b}
        /\ Behind(e)' = {f \in Active : b < Rank(f)}
        /\ Ahead(e) = {f \in Active : Rank(f) < a}
        /\ Behind(e) = {f \in Active : a < Rank(f)}
    <3>1. e' = e
      BY <2>1
    <3>2. \A f \in Active : (Before(f, e) <=> Rank(f) < a) /\ (Before(e, f) <=> a < Rank(f))
      BY <2>1, <2>3 DEF a
    <3> HIDE DEF e
    <3>3. /\ Ahead(e)' = {f \in Active : f # e /\ Rank(f) <= b}
          /\ Behind(e)' = {f \in Active : b < Rank(f)}
      BY <2>1, <2>7, <3>1 DEF Ahead, Behind
    <3> QED
      BY <3>2, <3>3 DEF Ahead, Behind
  <2>9. Ahead(e)' \ Ahead(e) = {f \in Active : a < Rank(f) /\ Rank(f) <= b}
    <3>1. \A f \in Active : f # e <=> Rank(f) # a
      BY <2>1, <2>3 DEF a
    <3>2. \A f \in Active : Rank(f) \in Nat /\ a \in Nat
      BY <2>3, <2>4
    <3> HIDE DEF e
    <3> QED
      BY <2>8, <3>1, <3>2
  <2>10. Ahead(e) \subseteq Ahead(e)'
    <3>1. \A f \in Active : Rank(f) < a => f # e /\ Rank(f) <= b
      BY <2>3, <2>4 DEF a
    <3> QED
      BY <2>8, <3>1
  <2>11. CASE b = a + n
    <3>1. Cardinality({f \in Active : a < Rank(f) /\ Rank(f) <= b}) = b - a
      BY <2>2, <2>4, RanksAreCounted, <2>3
    <3>2. b - a = n
      BY <2>1, <2>4, <2>11
    <3> QED
      BY <2>6, <2>9, <2>10, <3>1, <3>2
  <2>12. CASE b = QueueDepth /\ QueueDepth - a < n
    <3>1. Behind(e)' = {}
      BY <2>3, <2>8, <2>12
    <3>2. Behind(e) = {f \in Active : a < Rank(f) /\ Rank(f) <= QueueDepth}
      BY <2>3, <2>8
    <3>3. Cardinality({f \in Active : a < Rank(f) /\ Rank(f) <= QueueDepth}) = QueueDepth - a
      BY <2>2, <2>3, <2>4, RanksAreCounted
    <3> QED
      BY <2>6, <2>10, <2>12, <3>1, <3>2, <3>3
  <2> QED
    BY <2>4, <2>11, <2>12
<1>2. SerialSpec => [][Local]_vars
  <2>1. SerialSpec => Spec
    BY SerialImplementsSpec
  <2> HIDE DEF Local
  <2> QED
    BY <1>1, <2>1, PlaceInvariantHolds, PTL DEF Spec
<1> QED
  BY <1>2 DEF ShiftIsLocal

=============================================================================
