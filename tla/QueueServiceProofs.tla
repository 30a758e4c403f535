-------------------------- MODULE QueueServiceProofs --------------------------
(***************************************************************************)
(* Proofs about QueueService and QueueEvents, for every set of tickets,    *)
(* tables, guests and slots, and every bound on requests and failures.     *)
(*                                                                         *)
(* The first half is about clients of any kind.  The second is about those *)
(* that never overlap two requests on one ticket, while requests on other  *)
(* tickets interleave and fail: the copy a request holds is then as good   *)
(* as the row, except for its position, and what it announces is true.     *)
(***************************************************************************)
EXTENDS QueueEvents, FiniteSetTheorems, SequenceTheorems, TLAPS

-----------------------------------------------------------------------------
(* Counting active or created tickets gives a natural number. *)
LEMMA CountsAreNatural ==
    /\ QueueDepth \in Nat
    /\ CountToday \in Nat
    /\ \A e \in Entry : Rank(e) \in Nat /\ Rank(e) >= 1
<1>1. \A S \in SUBSET Entry : Cardinality(S) \in Nat
  BY EntryAssumption, FS_Subset, FS_CardinalityType
<1>2. Active \in SUBSET Entry
  BY DEF Active
<1>3. {e \in Entry : rows[e].status # "ABSENT"} \in SUBSET Entry
  OBVIOUS
<1>4. \A e \in Entry : {f \in Active : Before(f, e)} \in SUBSET Entry
  BY <1>2
<1>5. \A e \in Entry : Cardinality({f \in Active : Before(f, e)}) \in Nat
  BY <1>1, <1>4
<1> QED
  BY <1>1, <1>2, <1>3, <1>5 DEF QueueDepth, CountToday, Rank

(* Every request a client can send is a well-formed call. *)
LEMMA RequestsAreCalls ==
    ASSUME NEW c \in Requests
    PROVE  /\ c \in Call
           /\ c.op = "register" => c.entry \in Fresh
           /\ c.op # "register" => c.entry \in Created
           /\ c.op = "cancel" => c.status \in {"CANCELLED", "NO_SHOW"}
<1> DEFINE Goal == /\ c \in Call
                   /\ c.op = "register" => c.entry \in Fresh
                   /\ c.op # "register" => c.entry \in Created
                   /\ c.op = "cancel" => c.status \in {"CANCELLED", "NO_SHOW"}
<1> USE ServiceAssumption DEF Request, Call, Endpoints, Status, Terminal
<1>0. Fresh \subseteq Entry /\ Created \subseteq Entry
  BY DEF Fresh, Created
<1>1. CASE c \in Request("register", Fresh, Guest, {{}}, {0}, {"WAITING"})
  BY <1>0, <1>1
<1>2. CASE c \in Request("seat", Created, {NoGuest}, (SUBSET Table) \ {{}}, {0}, {"SEATED"})
  BY <1>0, <1>2
<1>3. CASE c \in Request("assign", Created, {NoGuest}, (SUBSET Table) \ {{}}, {0}, {"SEATED"})
  BY <1>0, <1>3
<1>4. CASE c \in Request("skip", Created, {NoGuest}, {{}}, {0}, {"SKIPPED"})
  BY <1>0, <1>4
<1>5. CASE c \in Request("shift", Created, {NoGuest}, {{}}, 1..MaxShift, {"WAITING"})
  BY <1>0, <1>5
<1>6. CASE c \in Request("cancel", Created, {NoGuest}, {{}}, {0}, CancelStatus)
  <2>1. CancelStatus \subseteq {"CANCELLED", "NO_SHOW"}
    OBVIOUS
  <2>2. /\ c.op = "cancel" /\ c.entry \in Created /\ c.status \in CancelStatus
        /\ c \in [op : {"cancel"}, entry : Entry, guest : {NoGuest}, tables : {{}},
                  shift : {0}, status : CancelStatus]
    BY <1>0, <1>6
  <2>3. c.status \in {"CANCELLED", "NO_SHOW"} /\ c.status \in Status /\ c.status \in Terminal
    BY <2>1, <2>2
  <2>4. c \in Call
    BY <2>2, <2>3
  <2> QED
    BY <2>2, <2>3, <2>4
<1>7. CASE c \in Request("ring", Created, {NoGuest}, {{}}, {0}, {"WAITING"})
  BY <1>0, <1>7
<1> QED
  BY <1>1, <1>2, <1>3, <1>4, <1>5, <1>6, <1>7, Zenon DEF Requests

-----------------------------------------------------------------------------
(* Type correctness. *)

(* The database and the requests start well typed. *)
LEMMA TypeInit == Init => TypeOK
<1> SUFFICES ASSUME Init PROVE TypeOK
  OBVIOUS
<1>1. PICK ids \in [DOMAIN InitialQueue -> Entry] :
        /\ LET Place(e) == CHOOSE i \in DOMAIN InitialQueue : ids[i] = e
               queued   == {ids[i] : i \in DOMAIN InitialQueue}
           IN /\ rows = [e \in Entry |->
                    IF e \in queued
                    THEN CreateTicket(InitialQueue[Place(e)], Place(e), Place(e), Place(e))
                    ELSE AbsentRow]
              /\ history = [e \in Entry |->
                    IF e \in queued
                    THEN <<[previous |-> "NONE", current |-> "WAITING"]>>
                    ELSE <<>>]
              /\ cache = [e \in Entry |-> IF e \in queued THEN Place(e) ELSE NoPosition]
  BY DEF Init
<1> DEFINE Place(e) == CHOOSE i \in DOMAIN InitialQueue : ids[i] = e
           queued   == {ids[i] : i \in DOMAIN InitialQueue}
<1>2. /\ DOMAIN InitialQueue = 1..Len(InitialQueue)
      /\ Len(InitialQueue) \in Nat
      /\ \A i \in DOMAIN InitialQueue : i \in Nat /\ InitialQueue[i] \in Guest
  BY ServiceAssumption
<1>3. ASSUME NEW e \in queued
      PROVE  Place(e) \in Nat /\ InitialQueue[Place(e)] \in Guest
  BY <1>2
<1>4. rows \in [Entry -> Ticket]
  <2>1. AbsentRow \in Ticket
    BY DEF AbsentRow, Ticket, NoPosition
  <2>2. ASSUME NEW e \in queued
        PROVE  CreateTicket(InitialQueue[Place(e)], Place(e), Place(e), Place(e)) \in Ticket
    BY <1>3 DEF CreateTicket, Ticket, Status
  <2> QED
    BY <1>1, <2>1, <2>2
<1>5. history \in [Entry -> Seq(Transition)]
  <2>1. [previous |-> "NONE", current |-> "WAITING"] \in Transition
    BY DEF Transition, Status
  <2> QED
    BY <1>1, <2>1
<1>6. cache \in [Entry -> Nat]
  BY <1>1, <1>3 DEF NoPosition
<1>7. NoSeatings \in [Table -> Nat] /\ NoSeatings \in [Table -> Int]
      /\ NoUpdate \in [Entry -> Nat] /\ AbsentRow \in Ticket
  BY DEF NoSeatings, NoUpdate, NoPosition, AbsentRow, Ticket
<1>8. /\ seatings \in [Entry -> [Table -> Nat]]
      /\ upstream \in [Table -> Int]
      /\ clock \in Nat
      /\ pc \in [Slot -> Await]
      /\ \A r \in Slot : pc[r] = "idle"
      /\ call \in [Slot -> Call \union {NoCall}]
      /\ loaded \in [Slot -> Ticket]
      /\ previous \in [Slot -> Status \union {"NONE"}]
      /\ plan \in [Slot -> [Entry -> Nat]]
      /\ found \in [Slot -> [Table -> Nat]]
      /\ served \in 0..MaxRequests
      /\ faults \in 0..MaxFaults
  BY <1>2, <1>7, ServiceAssumption DEF Init, Await
<1> QED
  BY <1>4, <1>5, <1>6, <1>8 DEF TypeOK, StoreTypeOK, RequestTypeOK

(* The entity's operators map tickets to tickets. *)
LEMMA TicketOperators ==
    ASSUME NEW ticket \in Ticket
    PROVE  /\ SeatTicket(ticket) \in Ticket
           /\ SkipTicket(ticket) \in Ticket
           /\ RingTicket(ticket) \in Ticket
           /\ \A status \in Status : CancelTicket(ticket, status) \in Ticket
           /\ \A n \in Nat : UpdatePosition(ticket, n) \in Ticket
           /\ \A n \in Nat : [ticket EXCEPT !.position = n] \in Ticket
           /\ \A n \in Nat : [ticket EXCEPT !.number = n] \in Ticket
           /\ \A c \in Call : Transform(c, ticket) \in Ticket
<1> USE DEF Ticket, Status, Terminal, NoPosition
<1>1. SeatTicket(ticket) \in Ticket /\ SkipTicket(ticket) \in Ticket
  BY DEF SeatTicket, SkipTicket
<1>2. RingTicket(ticket) \in Ticket
  BY DEF RingTicket
<1>3. \A status \in Status : CancelTicket(ticket, status) \in Ticket
  BY DEF CancelTicket
<1>4. \A n \in Nat : [ticket EXCEPT !.position = n] \in Ticket
  OBVIOUS
<1>5. \A n \in Nat : [ticket EXCEPT !.number = n] \in Ticket
  OBVIOUS
<1>6. \A n \in Nat : UpdatePosition(ticket, n) \in Ticket
  BY <1>4 DEF UpdatePosition
<1>7. \A c \in Call : Transform(c, ticket) \in Ticket
  BY <1>1, <1>2, <1>3 DEF Transform, Call
<1> QED
  BY <1>1, <1>2, <1>3, <1>4, <1>5, <1>6, <1>7

(* A request may be moved to any await, and any local variable kept. *)
LEMMA GotoType ==
    ASSUME RequestTypeOK, NEW r \in Slot, NEW await \in Await,
           Goto(r, await), call' = call, await = "idle" \/ call[r] \in Call
    PROVE  /\ pc' \in [Slot -> Await]
           /\ call' \in [Slot -> Call \union {NoCall}]
           /\ \A q \in Slot : pc'[q] # "idle" => call'[q] \in Call
BY DEF RequestTypeOK, Goto

(* A request that ends leaves its slot empty. *)
LEMMA FinishType ==
    ASSUME RequestTypeOK, NEW r \in Slot, Finish(r)
    PROVE  RequestTypeOK'
<1>1. /\ AbsentRow \in Ticket /\ NoUpdate \in [Entry -> Nat]
      /\ NoSeatings \in [Table -> Nat] /\ "idle" \in Await
  BY DEF AbsentRow, Ticket, NoUpdate, NoSeatings, NoPosition, Await
<1>2. /\ pc' \in [Slot -> Await]
      /\ call' \in [Slot -> Call \union {NoCall}]
      /\ \A q \in Slot : pc'[q] # "idle" => call'[q] \in Call
  BY <1>1 DEF RequestTypeOK, Finish, Goto
<1>3. /\ loaded' \in [Slot -> Ticket]
      /\ previous' \in [Slot -> Status \union {"NONE"}]
      /\ plan' \in [Slot -> [Entry -> Nat]]
      /\ found' \in [Slot -> [Table -> Nat]]
  BY <1>1 DEF RequestTypeOK, Finish
<1> QED
  BY <1>2, <1>3 DEF RequestTypeOK

(* The transactions keep the tables well typed. *)
LEMMA TransactionType ==
    ASSUME StoreTypeOK, NEW e \in Entry, NEW ticket \in Ticket, NEW tables \in SUBSET Table,
           NEW before \in Status \union {"NONE"}, ticket.status \in Status,
           \/ CreateWithHistory(e, ticket)
           \/ AssignTablesWithHistory(e, ticket, tables, before)
           \/ UpdateStatusWithHistory(e, ticket, before)
           \/ SaveEntry(e, ticket)
           \/ ReleaseTableAssignments(e)
    PROVE  /\ rows' \in [Entry -> Ticket]
           /\ history' \in [Entry -> Seq(Transition)]
           /\ seatings' \in [Entry -> [Table -> Nat]]
<1> USE DEF StoreTypeOK
<1>0. history[e] \in Seq(Transition)
  OBVIOUS
<1>1. ASSUME NEW p \in Status \union {"NONE"}
      PROVE  Append(history[e], [previous |-> p, current |-> ticket.status]) \in Seq(Transition)
  <2>1. [previous |-> p, current |-> ticket.status] \in Transition
    BY DEF Transition
  <2> QED
    BY <1>0, <2>1
<1>2. \A p \in Status \union {"NONE"} : LogTransition(e, p, ticket.status)
                                     => history' \in [Entry -> Seq(Transition)]
  BY <1>1 DEF LogTransition
<1>3. [t \in Table |-> seatings[e][t] + (IF t \in tables THEN 1 ELSE 0)] \in [Table -> Nat]
  OBVIOUS
<1>4. [t \in Table |-> 0] \in [Table -> Nat]
  OBVIOUS
<1>5. CASE CreateWithHistory(e, ticket)
  BY <1>2, <1>5 DEF CreateWithHistory
<1>6. CASE AssignTablesWithHistory(e, ticket, tables, before)
  BY <1>2, <1>3, <1>6 DEF AssignTablesWithHistory
<1>7. CASE UpdateStatusWithHistory(e, ticket, before)
  BY <1>2, <1>7 DEF UpdateStatusWithHistory
<1>8. CASE SaveEntry(e, ticket)
  BY <1>8 DEF SaveEntry
<1>9. CASE ReleaseTableAssignments(e)
  BY <1>4, <1>9 DEF ReleaseTableAssignments
<1> QED
  BY <1>5, <1>6, <1>7, <1>8, <1>9

(* updatePositions changes positions, and nothing else. *)
LEMMA BatchType ==
    ASSUME StoreTypeOK, NEW updates \in [Entry -> Nat], BatchUpdatePositions(updates)
    PROVE  /\ rows' \in [Entry -> Ticket]
           /\ \A e \in Entry : rows'[e].status = rows[e].status
           /\ UNCHANGED <<history, seatings>>
<1>1. \A e \in Entry : [rows[e] EXCEPT !.position = updates[e]] \in Ticket
  BY DEF StoreTypeOK, Ticket
<1>2. rows' = [e \in Entry |-> IF updates[e] = NoPosition THEN rows[e]
                               ELSE [rows[e] EXCEPT !.position = updates[e]]]
  BY DEF BatchUpdatePositions
<1>3. \A e \in Entry : rows[e] \in Ticket
  BY DEF StoreTypeOK
<1>4. rows' \in [Entry -> Ticket]
  BY <1>1, <1>2, <1>3
<1>5. ASSUME NEW e \in Entry PROVE rows'[e].status = rows[e].status
  BY <1>2, <1>3 DEF Ticket
<1> QED
  BY <1>4, <1>5 DEF BatchUpdatePositions

(* Every action keeps the types. *)
LEMMA TypeStep == TypeOK /\ CopyWasWaiting /\ [Next]_vars => TypeOK'
<1> SUFFICES ASSUME TypeOK, CopyWasWaiting, [Next]_vars PROVE TypeOK'
  OBVIOUS
<1>a. StoreTypeOK /\ RequestTypeOK
  BY DEF TypeOK
<1>b. /\ clock \in Nat /\ clock + 1 \in Nat
      /\ served \in 0..MaxRequests /\ faults \in 0..MaxFaults
      /\ served < MaxRequests => served + 1 \in 0..MaxRequests
      /\ faults < MaxFaults => faults + 1 \in 0..MaxFaults
  BY ServiceAssumption DEF TypeOK
<1>c. SpendFault => faults' \in 0..MaxFaults
  BY <1>b DEF SpendFault
<1>d. \A r \in Slot : call[r] \in Call => call[r].entry \in Entry /\ call[r].tables \in SUBSET Table
  BY DEF Call
<1>e. ASSUME NEW r \in Slot, pc[r] # "idle"
      PROVE  call[r] \in Call /\ call[r].entry \in Entry /\ call[r].tables \in SUBSET Table
  BY <1>a, <1>d, <1>e DEF RequestTypeOK
<1>f. ASSUME UNCHANGED storeVars PROVE StoreTypeOK'
  BY <1>a, <1>f DEF storeVars, StoreTypeOK
<1>g. ASSUME NEW r \in Slot, NEW await \in Await, pc[r] # "idle",
             Goto(r, await), UNCHANGED localVars
      PROVE  RequestTypeOK'
  BY <1>a, <1>e, <1>g, GotoType DEF localVars, RequestTypeOK
<1>1. ASSUME NEW r \in Slot, Accept(r) PROVE TypeOK'
  <2>1. PICK c \in Requests : call' = [call EXCEPT ![r] = c]
                           /\ Goto(r, IF c.op = "register" THEN "check" ELSE "load")
    BY <1>1 DEF Accept
  <2>2. c \in Call
    BY RequestsAreCalls
  <2>3. RequestTypeOK'
    BY <1>a, <1>1, <2>1, <2>2 DEF RequestTypeOK, Accept, Goto, Await
  <2> QED
    BY <1>b, <1>f, <1>1, <2>3 DEF TypeOK, Accept
<1>2. ASSUME NEW r \in Slot, Refuse(r) PROVE TypeOK'
  BY <1>a, <1>b, <1>f, <1>2, FinishType DEF TypeOK, Refuse, ReadsOnly
<1>3. ASSUME NEW r \in Slot, Fail(r) PROVE TypeOK'
  BY <1>a, <1>b, <1>c, <1>f, <1>3, FinishType DEF TypeOK, Fail
<1>4. CASE Expire
  <2>1. StoreTypeOK'
    BY <1>a, <1>4 DEF Expire, RemoveLiveEntry, StoreTypeOK, NoPosition, dbVars
  <2>2. RequestTypeOK'
    BY <1>a, <1>4 DEF Expire, RequestTypeOK, localVars
  <2> QED
    BY <1>b, <1>c, <1>4, <2>1, <2>2 DEF TypeOK, Expire
<1>5. ASSUME NEW r \in Slot, Advance(r) PROVE TypeOK'
  <2>0. pc[r] # "idle" /\ call[r] \in Call /\ call[r].entry \in Entry
        /\ call[r].tables \in SUBSET Table
    <3>1. pc[r] # "idle"
      BY <1>5 DEF Advance, At, RegisterCheck, RegisterDepth, RegisterCount, RegisterCreate,
           RegisterVerify, RegisterInsert, RegisterStore, Load, RingSave, RingEnqueue, Occupy,
           CancelAssignments, CancelRelease, CancelUnlink, ShiftRank, ShiftBatch, Commit,
           Evict, Recalculate, RecalculateWrite, RecalculatePublish
    <3> QED
      BY <1>e, <3>1
  <2>a. /\ loaded[r] \in Ticket /\ previous[r] \in Status \union {"NONE"}
        /\ plan[r] \in [Entry -> Nat] /\ found[r] \in [Table -> Nat]
    BY <1>a DEF RequestTypeOK
  <2>1. CASE RegisterCheck(r)
    BY <1>a, <1>b, <1>f, <1>g, <2>0, <2>1, FinishType DEF TypeOK, RegisterCheck, ReadsOnly, Await
  <2>2. CASE RegisterDepth(r)
    <3>1. [loaded[r] EXCEPT !.position = QueueDepth + 1] \in Ticket
      BY <2>a, CountsAreNatural, TicketOperators
    <3>2. loaded' \in [Slot -> Ticket]
      BY <1>a, <2>2, <3>1 DEF RegisterDepth, RequestTypeOK
    <3>3. RequestTypeOK'
      BY <1>a, <2>0, <2>2, <3>2, GotoType DEF RegisterDepth, RequestTypeOK, Await
    <3> QED
      BY <1>b, <1>f, <2>2, <3>3 DEF TypeOK, RegisterDepth, ReadsOnly
  <2>3. CASE RegisterCount(r)
    <3>1. [loaded[r] EXCEPT !.number = CountToday + 1] \in Ticket
      BY <2>a, CountsAreNatural, TicketOperators
    <3>2. loaded' \in [Slot -> Ticket]
      BY <1>a, <2>3, <3>1 DEF RegisterCount, RequestTypeOK
    <3>3. RequestTypeOK'
      BY <1>a, <2>0, <2>3, <3>2, GotoType DEF RegisterCount, RequestTypeOK, Await
    <3> QED
      BY <1>b, <1>f, <2>3, <3>3 DEF TypeOK, RegisterCount, ReadsOnly
  <2>4. CASE RegisterCreate(r)
    <3>1. CreateTicket(call[r].guest, loaded[r].position, loaded[r].number, clock + 1) \in Ticket
      BY <1>b, <2>0, <2>a DEF CreateTicket, Ticket, Call, Status
    <3>2. loaded' \in [Slot -> Ticket]
      BY <1>a, <2>4, <3>1 DEF RegisterCreate, RequestTypeOK
    <3>3. RequestTypeOK'
      BY <1>a, <2>0, <2>4, <3>2, GotoType DEF RegisterCreate, RequestTypeOK, Await
    <3> QED
      BY <1>b, <1>f, <2>4, <3>3 DEF TypeOK, RegisterCreate
  <2>5. CASE RegisterVerify(r)
    BY <1>a, <1>b, <1>f, <1>g, <2>0, <2>5, FinishType DEF TypeOK, RegisterVerify, ReadsOnly, Await
  <2>6. CASE RegisterInsert(r)
    <3>1. RequestTypeOK'
      BY <1>g, <2>0, <2>6 DEF RegisterInsert, Await
    <3>0. loaded[r].status \in Status
      BY <2>6 DEF CopyWasWaiting, RegisterInsert, At, Status
    <3>2. /\ rows' \in [Entry -> Ticket]
          /\ history' \in [Entry -> Seq(Transition)]
          /\ seatings' \in [Entry -> [Table -> Nat]]
      BY <1>a, <2>0, <2>a, <2>6, <3>0, TransactionType DEF RegisterInsert
    <3> QED
      BY <1>a, <1>b, <2>6, <3>1, <3>2 DEF TypeOK, StoreTypeOK, RegisterInsert
  <2>7. CASE RegisterStore(r)
    <3>1. cache' \in [Entry -> Nat]
      BY <1>a, <2>a, <2>7 DEF RegisterStore, StoreTypeOK, Ticket
    <3> QED
      BY <1>a, <1>b, <1>c, <2>7, <3>1, FinishType
      DEF TypeOK, StoreTypeOK, RegisterStore, dbVars
  <2>8. CASE Load(r)
    <3>1. CASE Finish(r)
      BY <1>a, <1>b, <1>f, <2>8, <3>1, FinishType DEF TypeOK, Load, ReadsOnly
    <3>2. CASE /\ loaded' = [loaded EXCEPT ![r] = Transform(call[r], rows[call[r].entry])]
               /\ previous' = [previous EXCEPT ![r] = rows[call[r].entry].status]
               /\ Goto(r, AfterLoad(call[r].op))
               /\ UNCHANGED <<call, plan, found>>
               /\ Permitted(call[r], rows[call[r].entry])
      <4>1. rows[call[r].entry] \in Ticket
        BY <1>a, <2>0 DEF StoreTypeOK
      <4>2. Transform(call[r], rows[call[r].entry]) \in Ticket
        BY <2>0, <4>1, TicketOperators
      <4>3. rows[call[r].entry].status \in Status
        BY <3>2 DEF Permitted, CanRing, IsWaiting, Status
      <4>4. AfterLoad(call[r].op) \in Await
        BY DEF AfterLoad, Await
      <4>5. loaded' \in [Slot -> Ticket] /\ previous' \in [Slot -> Status \union {"NONE"}]
        BY <1>a, <3>2, <4>2, <4>3 DEF RequestTypeOK
      <4>6. RequestTypeOK'
        BY <1>a, <2>0, <3>2, <4>4, <4>5, GotoType DEF RequestTypeOK
      <4> QED
        BY <1>b, <1>f, <2>8, <4>6 DEF TypeOK, Load, ReadsOnly
    <3> QED
      BY <2>8, <3>1, <3>2 DEF Load
  <2>9. CASE RingSave(r)
    <3>1. rows' \in [Entry -> Ticket] /\ UNCHANGED <<history, seatings>>
      BY <1>a, <2>0, <2>a, <2>9 DEF RingSave, SaveEntry, StoreTypeOK
    <3> QED
      BY <1>a, <1>b, <1>g, <2>0, <2>9, <3>1, FinishType DEF TypeOK, StoreTypeOK, RingSave, Await
  <2>21. CASE RingEnqueue(r)
    BY <1>a, <1>b, <1>f, <2>0, <2>21, FinishType DEF TypeOK, RingEnqueue, ReadsOnly
  <2>10. CASE Occupy(r)
    <3>1. upstream' \in [Table -> Int]
      BY <1>a, <2>10 DEF Occupy, AssignUpstream, StoreTypeOK
    <3>2. RequestTypeOK'
      BY <1>g, <2>0, <2>10 DEF Occupy, Await
    <3> QED
      BY <1>a, <1>b, <2>10, <3>1, <3>2 DEF TypeOK, StoreTypeOK, Occupy, dbVars
  <2>11. CASE CancelAssignments(r)
    <3>1. seatings[call[r].entry] \in [Table -> Nat]
      BY <1>a, <2>0 DEF StoreTypeOK
    <3>2. found' \in [Slot -> [Table -> Nat]]
      BY <1>a, <2>11, <3>1 DEF CancelAssignments, RequestTypeOK
    <3>3. RequestTypeOK'
      BY <1>a, <2>0, <2>11, <3>2, GotoType DEF CancelAssignments, RequestTypeOK, Await
    <3> QED
      BY <1>b, <1>f, <2>11, <3>3 DEF TypeOK, CancelAssignments, ReadsOnly
  <2>12. CASE CancelRelease(r)
    <3>1. upstream' \in [Table -> Int]
      BY <1>a, <2>a, <2>12 DEF CancelRelease, ReleaseUpstream, StoreTypeOK
    <3>2. RequestTypeOK'
      BY <1>g, <2>0, <2>12 DEF CancelRelease, Await
    <3> QED
      BY <1>a, <1>b, <2>12, <3>1, <3>2 DEF TypeOK, StoreTypeOK, CancelRelease, dbVars
  <2>13. CASE CancelUnlink(r)
    <3>1. seatings' \in [Entry -> [Table -> Nat]] /\ UNCHANGED <<rows, history>>
      BY <1>a, <2>0, <2>13 DEF CancelUnlink, ReleaseTableAssignments, StoreTypeOK
    <3>2. RequestTypeOK'
      BY <1>g, <2>0, <2>13 DEF CancelUnlink, Await
    <3> QED
      BY <1>a, <1>b, <2>13, <3>1, <3>2 DEF TypeOK, StoreTypeOK, CancelUnlink
  <2>14. CASE ShiftRank(r)
    <3>1. ShiftTarget(call[r].entry, call[r].shift) \in Nat
      BY <2>0, CountsAreNatural DEF ShiftTarget, Call
    <3>2. ASSUME NEW f \in Entry
          PROVE  ShiftedRank(call[r].entry, ShiftTarget(call[r].entry, call[r].shift), f) \in Nat
      BY <3>1, CountsAreNatural DEF ShiftedRank
    <3>3. plan' \in [Slot -> [Entry -> Nat]]
      BY <1>a, <2>14, <3>2 DEF ShiftRank, RequestTypeOK, NoPosition
    <3>4. UpdatePosition(loaded[r], ShiftTarget(call[r].entry, call[r].shift)) \in Ticket
          /\ SkipTicket(loaded[r]) \in Ticket
      BY <2>a, <3>1, TicketOperators
    <3>5. loaded' \in [Slot -> Ticket]
      BY <1>a, <2>14, <3>4 DEF ShiftRank, RequestTypeOK
    <3>6. RequestTypeOK'
      BY <1>a, <2>0, <2>14, <3>3, <3>5, GotoType DEF ShiftRank, RequestTypeOK, Await
    <3> QED
      BY <1>b, <1>f, <2>14, <3>6 DEF TypeOK, ShiftRank, ReadsOnly
  <2>15. CASE ShiftBatch(r)
    <3>1. rows' \in [Entry -> Ticket] /\ UNCHANGED <<history, seatings>>
      BY <1>a, <2>a, <2>15, BatchType DEF ShiftBatch
    <3>2. plan' \in [Slot -> [Entry -> Nat]]
      BY <1>a, <2>15 DEF ShiftBatch, RequestTypeOK, NoUpdate, NoPosition
    <3>3. RequestTypeOK'
      BY <1>a, <2>0, <2>15, <3>2, GotoType DEF ShiftBatch, RequestTypeOK, Await
    <3> QED
      BY <1>a, <1>b, <2>15, <3>1, <3>3 DEF TypeOK, StoreTypeOK, ShiftBatch
  <2>16. CASE Commit(r)
    <3>0. loaded[r].status \in Status
      BY <2>16 DEF CopyWasWaiting, Commit, At, Acting
    <3>1. RequestTypeOK'
      <4>1. (IF IsWaiting(loaded[r]) THEN "recalc" ELSE "evict") \in Await
        BY DEF Await
      <4>2. /\ Goto(r, IF IsWaiting(loaded[r]) THEN "recalc" ELSE "evict")
            /\ UNCHANGED localVars
        BY <2>16 DEF Commit
      <4> HIDE DEF Goto
      <4> QED
        BY <1>g, <2>0, <4>1, <4>2
    <3>2. /\ rows' \in [Entry -> Ticket]
          /\ history' \in [Entry -> Seq(Transition)]
          /\ seatings' \in [Entry -> [Table -> Nat]]
      BY <1>a, <2>0, <2>a, <2>16, <3>0, TransactionType DEF Commit
    <3> QED
      BY <1>a, <1>b, <2>16, <3>1, <3>2 DEF TypeOK, StoreTypeOK, Commit
  <2>17. CASE Evict(r)
    <3>1. cache' \in [Entry -> Nat]
      BY <1>a, <2>17 DEF Evict, RemoveLiveEntry, StoreTypeOK, NoPosition
    <3>2. RequestTypeOK'
      BY <1>a, <1>g, <2>0, <2>17, FinishType DEF Evict, Await
    <3>3. faults' \in 0..MaxFaults
      BY <1>b, <1>c, <2>17 DEF Evict
    <3> QED
      BY <1>a, <1>b, <2>17, <3>1, <3>2, <3>3 DEF TypeOK, StoreTypeOK, Evict, dbVars
  <2>18. CASE Recalculate(r)
    <3>1. \A S \in SUBSET Active : Renumbering(S) \in [Entry -> Nat]
      BY CountsAreNatural DEF Renumbering, NoPosition
    <3>2. CASE Finish(r)
      BY <1>a, <1>b, <1>f, <2>18, <3>2, FinishType DEF TypeOK, Recalculate, ReadsOnly
    <3>3. CASE \E S \in SUBSET Active : /\ plan' = [plan EXCEPT ![r] = Renumbering(S)]
                                       /\ Goto(r, "write")
                                       /\ UNCHANGED <<call, loaded, previous, found>>
      <4>1. plan' \in [Slot -> [Entry -> Nat]]
        BY <1>a, <3>1, <3>3 DEF RequestTypeOK
      <4>2. RequestTypeOK'
        BY <1>a, <2>0, <3>3, <4>1, GotoType DEF RequestTypeOK, Await
      <4> QED
        BY <1>b, <1>f, <2>18, <4>2 DEF TypeOK, Recalculate, ReadsOnly
    <3> QED
      BY <2>18, <3>2, <3>3 DEF Recalculate
  <2>19. CASE RecalculateWrite(r)
    <3>1. rows' \in [Entry -> Ticket] /\ UNCHANGED <<history, seatings>>
      BY <1>a, <2>a, <2>19, BatchType DEF RecalculateWrite
    <3>2. RequestTypeOK'
      BY <1>g, <2>0, <2>19 DEF RecalculateWrite, Await
    <3> QED
      BY <1>a, <1>b, <2>19, <3>1, <3>2 DEF TypeOK, StoreTypeOK, RecalculateWrite
  <2>20. CASE RecalculatePublish(r)
    <3>1. cache' \in [Entry -> Nat] /\ faults' \in 0..MaxFaults
      BY <1>a, <1>b, <1>c, <2>a, <2>20 DEF RecalculatePublish, SaveLiveEntries, StoreTypeOK
    <3> QED
      BY <1>a, <1>b, <2>20, <3>1, FinishType DEF TypeOK, StoreTypeOK, RecalculatePublish, dbVars
  <2> QED
    BY <1>5, <2>1, <2>2, <2>3, <2>4, <2>5, <2>6, <2>7, <2>8, <2>9, <2>10, <2>11, <2>12,
       <2>13, <2>14, <2>15, <2>16, <2>17, <2>18, <2>19, <2>20, <2>21 DEF Advance
<1>6. CASE UNCHANGED vars
  BY <1>a, <1>b, <1>6 DEF vars, TypeOK, StoreTypeOK, RequestTypeOK
<1> QED
  BY <1>1, <1>2, <1>3, <1>4, <1>5, <1>6 DEF Next, Quiet

-----------------------------------------------------------------------------
(* What a request holds was waiting: a fact about one request, whatever the *)
(* others do.                                                               *)

(* What one step does to the copy of one request: nothing that matters any   *)
(* more, nothing at all, or one of the five steps that make the copy.        *)
LEMMA CopiesChange ==
    ASSUME TypeOK, [Next]_vars, NEW q \in Slot
    PROVE  \/ pc'[q] \notin Acting \union {"count", "create", "verify", "insert"}
           \/ /\ loaded'[q] = loaded[q] /\ previous'[q] = previous[q]
              /\ \/ pc'[q] = pc[q]
                 \/ pc[q] = "verify" /\ pc'[q] = "insert"
                 \/ pc[q] \in Acting /\ pc'[q] \in Acting \ {"save"}
           \/ RegisterDepth(q) \/ RegisterCount(q) \/ RegisterCreate(q)
           \/ Load(q) \/ ShiftRank(q)
<1>a. /\ pc \in [Slot -> Await] /\ loaded \in [Slot -> Ticket]
      /\ previous \in [Slot -> Status \union {"NONE"}]
  BY DEF TypeOK, RequestTypeOK
<1> DEFINE Kept   == loaded'[q] = loaded[q] /\ previous'[q] = previous[q]
           Spent  == pc'[q] \notin Acting \union {"count", "create", "verify", "insert"}
           Altered == \/ pc'[q] = pc[q]
                      \/ pc[q] = "verify" /\ pc'[q] = "insert"
                      \/ pc[q] \in Acting /\ pc'[q] \in Acting \ {"save"}
           Made(r) == \/ RegisterDepth(r) \/ RegisterCount(r) \/ RegisterCreate(r)
                      \/ Load(r) \/ ShiftRank(r)
<1> USE DEF Acting
<1>1. ASSUME NEW r \in Slot, Accept(r) PROVE Spent \/ (Kept /\ Altered)
  BY <1>a, <1>1 DEF Accept, Goto
<1>2. ASSUME NEW r \in Slot, Finish(r) PROVE Spent \/ (Kept /\ Altered)
  BY <1>a, <1>2 DEF Finish, Goto
<1>3. ASSUME NEW r \in Slot, Refuse(r) \/ Fail(r) PROVE Spent \/ (Kept /\ Altered)
  BY <1>2, <1>3 DEF Refuse, Fail
<1>4. ASSUME Expire \/ UNCHANGED vars PROVE Spent \/ (Kept /\ Altered)
  BY <1>4 DEF Expire, vars, localVars
<1>5. ASSUME NEW r \in Slot, Made(r) PROVE Spent \/ (Kept /\ Altered) \/ Made(q)
  <2>1. CASE q = r
    BY <1>5, <2>1
  <2>2. CASE q # r
    BY <1>a, <1>5, <2>2 DEF RegisterDepth, RegisterCount, RegisterCreate, Load, ShiftRank,
       Finish, Goto
  <2> QED
    BY <2>1, <2>2
<1>6. ASSUME NEW r \in Slot, NEW await, Goto(r, await), UNCHANGED <<loaded, previous>>,
             \/ await \in {"depth", "store", "enqueue", "recalc", "evict", "write", "publish"}
             \/ pc[r] = "verify" /\ await = "insert"
             \/ pc[r] \in Acting /\ await \in Acting \ {"save"}
      PROVE  Spent \/ (Kept /\ Altered)
  BY <1>a, <1>6 DEF Goto
<1>7. ASSUME NEW r \in Slot, Advance(r) PROVE Spent \/ (Kept /\ Altered) \/ Made(q)
  <2> HIDE DEF Spent, Kept, Altered
  <2>1. CASE Made(r)
    BY <1>5, <2>1
  <2>2. CASE RegisterCheck(r) \/ RegisterVerify(r)
    BY <1>2, <1>6, <2>2 DEF RegisterCheck, RegisterVerify, At, localVars
  <2>3. CASE RegisterInsert(r) \/ Occupy(r) \/ CancelRelease(r) \/ CancelUnlink(r)
             \/ RecalculateWrite(r)
    BY <1>6, <2>3 DEF RegisterInsert, Occupy, CancelRelease, CancelUnlink, RecalculateWrite,
       At, localVars
  <2>4. CASE RegisterStore(r) \/ RingSave(r) \/ RingEnqueue(r) \/ RecalculatePublish(r)
    BY <1>2, <1>6, <2>4 DEF RegisterStore, RingSave, RingEnqueue, RecalculatePublish, At, localVars
  <2>5. CASE CancelAssignments(r)
    <3>1. PICK await \in {"commit", "release"} : Goto(r, await)
      BY <2>5 DEF CancelAssignments
    <3> QED
      BY <1>6, <2>5, <3>1 DEF CancelAssignments, At
  <2>6. CASE ShiftBatch(r)
    BY <1>6, <2>6 DEF ShiftBatch, At
  <2>7. CASE Commit(r)
    <3>1. PICK await \in {"recalc", "evict"} : Goto(r, await)
      BY <2>7 DEF Commit
    <3> QED
      BY <1>6, <2>7, <3>1 DEF Commit, localVars
  <2>8. CASE Evict(r) \/ Recalculate(r)
    BY <1>2, <1>6, <2>8 DEF Evict, Recalculate, localVars
  <2> QED
    BY <1>7, <2>1, <2>2, <2>3, <2>4, <2>5, <2>6, <2>7, <2>8 DEF Advance
<1>8. Spent \/ (Kept /\ Altered) \/ Made(q)
  <2>1. \/ Expire \/ UNCHANGED vars
        \/ \E r \in Slot : Accept(r) \/ Refuse(r) \/ Fail(r) \/ Advance(r)
    BY DEF Next, Quiet
  <2> HIDE DEF Spent, Kept, Altered, Made
  <2> QED
    BY <1>1, <1>3, <1>4, <1>7, <2>1
<1> QED
  BY <1>8

(* A use case acts on a ticket it has read as waiting. *)
LEMMA CopyWasWaitingStep == TypeOK /\ CopyWasWaiting /\ [Next]_vars => CopyWasWaiting'
<1> SUFFICES ASSUME TypeOK, CopyWasWaiting, [Next]_vars, NEW q \in Slot
             PROVE  /\ pc'[q] \in {"verify", "insert", "save"} => loaded'[q].status = "WAITING"
                    /\ pc'[q] \in Acting => /\ previous'[q] = "WAITING"
                                            /\ loaded'[q].status \in Status
  BY DEF CopyWasWaiting
<1>a. /\ pc \in [Slot -> Await] /\ loaded \in [Slot -> Ticket]
      /\ previous \in [Slot -> Status \union {"NONE"}] /\ rows \in [Entry -> Ticket]
      /\ pc[q] # "idle" => call[q] \in Call
  BY DEF TypeOK, RequestTypeOK, StoreTypeOK
<1>b. /\ pc[q] \in {"verify", "insert", "save"} => loaded[q].status = "WAITING"
      /\ pc[q] \in Acting => previous[q] = "WAITING" /\ loaded[q].status \in Status
  BY DEF CopyWasWaiting
<1>1. CASE pc'[q] \notin Acting \union {"count", "create", "verify", "insert"}
  BY <1>1 DEF Acting
<1>2. CASE /\ loaded'[q] = loaded[q] /\ previous'[q] = previous[q]
           /\ \/ pc'[q] = pc[q]
              \/ pc[q] = "verify" /\ pc'[q] = "insert"
              \/ pc[q] \in Acting /\ pc'[q] \in Acting \ {"save"}
  BY <1>b, <1>2 DEF Acting
<1>3. CASE RegisterDepth(q) \/ RegisterCount(q)
  BY <1>a, <1>3 DEF RegisterDepth, RegisterCount, Goto, Acting
<1>4. CASE RegisterCreate(q)
  BY <1>a, <1>4 DEF RegisterCreate, Goto, Acting, CreateTicket
<1>5. CASE Load(q)
  <2> DEFINE ticket == rows[call[q].entry]
  <2>1. CASE Finish(q)
    BY <1>a, <2>1 DEF Finish, Goto, Acting
  <2>2. CASE /\ Permitted(call[q], ticket)
             /\ loaded' = [loaded EXCEPT ![q] = Transform(call[q], ticket)]
             /\ previous' = [previous EXCEPT ![q] = ticket.status]
             /\ Goto(q, AfterLoad(call[q].op))
    <3>1. call[q] \in Call /\ ticket \in Ticket
      BY <1>a, <1>5 DEF Load, At, Call
    <3>2. ticket.status = "WAITING"
      BY <2>2 DEF Permitted, CanRing, IsWaiting
    <3>3. Transform(call[q], ticket).status \in Status
      BY <3>1, <3>2 DEF Transform, SeatTicket, SkipTicket, CancelTicket, RingTicket,
         Ticket, Call, Status, Terminal
    <3>4. call[q].op \in {"register", "ring"} => Transform(call[q], ticket).status = "WAITING"
      BY <3>1, <3>2 DEF Transform, RingTicket, Ticket
    <3>5. AfterLoad(call[q].op) = "save" => call[q].op \in {"register", "ring"}
      BY <3>1 DEF AfterLoad, Call, Endpoints
    <3>6. AfterLoad(call[q].op) \notin {"verify", "insert"}
      BY DEF AfterLoad
    <3>7. /\ pc'[q] = AfterLoad(call[q].op)
          /\ loaded'[q] = Transform(call[q], ticket)
          /\ previous'[q] = ticket.status
      BY <1>a, <2>2 DEF Goto
    <3> QED
      BY <3>2, <3>3, <3>4, <3>5, <3>6, <3>7
  <2> QED
    BY <1>5, <2>1, <2>2 DEF Load
<1>6. CASE ShiftRank(q)
  <2>1. PICK await \in {"batch", "commit"},
             copy \in {SkipTicket(loaded[q]),
                       UpdatePosition(loaded[q], ShiftTarget(call[q].entry, call[q].shift))} :
           /\ Goto(q, await)
           /\ loaded' = [loaded EXCEPT ![q] = copy]
    BY <1>6 DEF ShiftRank
  <2>2. previous[q] = "WAITING" /\ loaded[q].status \in Status /\ loaded[q] \in Ticket
    BY <1>a, <1>b, <1>6 DEF ShiftRank, At, Acting
  <2>3. copy.status \in Status
    BY <2>1, <2>2 DEF SkipTicket, UpdatePosition, Ticket, Status, Terminal
  <2>4. pc'[q] = await /\ loaded'[q] = copy /\ previous' = previous
    BY <1>a, <1>6, <2>1 DEF Goto, ShiftRank
  <2> QED
    BY <2>2, <2>3, <2>4
<1> QED
  BY <1>1, <1>2, <1>3, <1>4, <1>5, <1>6, CopiesChange

(* Every variable of the service keeps its type: in particular positions    *)
(* and counters never leave the natural numbers, whatever interleaves.      *)
THEOREM TypeCorrect == Spec => []TypeOK
<1>1. Init => TypeOK /\ CopyWasWaiting
  BY TypeInit DEF Init, CopyWasWaiting, Acting
<1>2. TypeOK /\ CopyWasWaiting /\ [Next]_vars => TypeOK' /\ CopyWasWaiting'
  BY TypeStep, CopyWasWaitingStep
<1> QED
  BY <1>1, <1>2, PTL DEF Spec

-----------------------------------------------------------------------------
(***************************************************************************)
(* What holds whatever requests overlap and whatever fails: the audit log   *)
(* and the stored status agree, no request acts on a ticket it read as      *)
(* gone, every waiting ticket has a rank, and only stored tickets are       *)
(* cached.                                                                  *)
(***************************************************************************)

(* The only steps that change the status or the log of a ticket are the     *)
(* insert of register, the commit of a transition and the save of ring.     *)
LEMMA WhatChangesRows ==
    ASSUME TypeOK, [Next]_vars
    PROVE  \/ /\ \A e \in Entry : rows'[e].status = rows[e].status
              /\ history' = history
              /\ rows' = rows \/ \E r \in Slot : BatchUpdatePositions(plan[r])
           \/ \E r \in Slot :
                /\ pc[r] = "insert" /\ pc'[r] = "store"
                /\ rows' = [rows EXCEPT ![call[r].entry] = loaded[r]]
                /\ LogTransition(call[r].entry, "NONE", loaded[r].status)
           \/ \E r \in Slot :
                /\ pc[r] = "commit" /\ pc'[r] \in {"recalc", "evict"}
                /\ rows' = [rows EXCEPT ![call[r].entry] = loaded[r]]
                /\ LogTransition(call[r].entry, previous[r], loaded[r].status)
           \/ \E r \in Slot :
                /\ pc[r] = "save" /\ pc'[r] \in {"idle", "enqueue"}
                /\ rows' = [rows EXCEPT ![call[r].entry] = loaded[r]]
                /\ history' = history
<1>a. StoreTypeOK /\ pc \in [Slot -> Await] /\ plan \in [Slot -> [Entry -> Nat]]
  BY DEF TypeOK, RequestTypeOK
<1> DEFINE Same == /\ \A e \in Entry : rows'[e].status = rows[e].status
                   /\ history' = history
                   /\ rows' = rows \/ \E r \in Slot : BatchUpdatePositions(plan[r])
<1>1. ASSUME NEW r \in Slot, Accept(r) \/ Refuse(r) \/ Fail(r) PROVE Same
  BY <1>1 DEF Accept, Refuse, Fail, ReadsOnly, storeVars
<1>2. ASSUME Expire \/ UNCHANGED vars PROVE Same
  BY <1>2 DEF Expire, dbVars, vars
<1>3. ASSUME NEW r \in Slot, ShiftBatch(r) \/ RecalculateWrite(r) PROVE Same
  BY <1>a, <1>3, BatchType DEF ShiftBatch, RecalculateWrite
<1>4. ASSUME NEW r \in Slot,
             \/ RegisterCheck(r) \/ RegisterDepth(r) \/ RegisterCount(r) \/ RegisterVerify(r)
             \/ Load(r) \/ RingEnqueue(r) \/ CancelAssignments(r) \/ ShiftRank(r)
             \/ Recalculate(r)
      PROVE  Same
  BY <1>4 DEF RegisterCheck, RegisterDepth, RegisterCount, RegisterVerify, Load, RingEnqueue,
     CancelAssignments, ShiftRank, Recalculate, ReadsOnly, storeVars
<1>5. ASSUME NEW r \in Slot,
             \/ RegisterCreate(r) \/ RegisterStore(r) \/ Occupy(r) \/ CancelRelease(r)
             \/ CancelUnlink(r) \/ Evict(r) \/ RecalculatePublish(r)
      PROVE  Same
  BY <1>5 DEF RegisterCreate, RegisterStore, Occupy, CancelRelease, CancelUnlink, Evict,
     RecalculatePublish, ReleaseTableAssignments, storeVars, dbVars
<1>6. ASSUME NEW r \in Slot, RegisterInsert(r)
      PROVE  /\ pc[r] = "insert" /\ pc'[r] = "store"
             /\ rows' = [rows EXCEPT ![call[r].entry] = loaded[r]]
             /\ LogTransition(call[r].entry, "NONE", loaded[r].status)
  BY <1>a, <1>6 DEF RegisterInsert, CreateWithHistory, At, Goto
<1>7. ASSUME NEW r \in Slot, Commit(r)
      PROVE  /\ pc[r] = "commit" /\ pc'[r] \in {"recalc", "evict"}
             /\ rows' = [rows EXCEPT ![call[r].entry] = loaded[r]]
             /\ LogTransition(call[r].entry, previous[r], loaded[r].status)
  <2>1. pc'[r] \in {"recalc", "evict"}
    BY <1>a, <1>7 DEF Commit, Goto
  <2> QED
    BY <1>7, <2>1 DEF Commit, AssignTablesWithHistory, UpdateStatusWithHistory, At
<1>8. ASSUME NEW r \in Slot, RingSave(r)
      PROVE  /\ pc[r] = "save" /\ pc'[r] \in {"idle", "enqueue"}
             /\ rows' = [rows EXCEPT ![call[r].entry] = loaded[r]]
             /\ history' = history
  BY <1>a, <1>8 DEF RingSave, SaveEntry, At, Finish, Goto
<1> HIDE DEF Same
<1>9. \/ Same
      \/ \E r \in Slot : RegisterInsert(r)
      \/ \E r \in Slot : Commit(r)
      \/ \E r \in Slot : RingSave(r)
  <2>1. \/ Expire \/ UNCHANGED vars
        \/ \E r \in Slot : Accept(r) \/ Refuse(r) \/ Fail(r) \/ Advance(r)
    BY DEF Next, Quiet
  <2>2. ASSUME NEW r \in Slot, Advance(r)
        PROVE  Same \/ RegisterInsert(r) \/ Commit(r) \/ RingSave(r)
    BY <1>3, <1>4, <1>5, <2>2, Zenon DEF Advance
  <2> QED
    BY <1>1, <1>2, <2>1, <2>2, Zenon
<1> QED
  BY <1>6, <1>7, <1>8, <1>9 DEF Same

(* A running request keeps its call, and stops joining when it inserts. *)
LEMMA RequestsMove ==
    ASSUME TypeOK, [Next]_vars
    PROVE  \/ \E r \in Slot : Accept(r)
           \/ \A q \in Slot : pc'[q] # "idle" =>
                /\ pc[q] # "idle" /\ call'[q] = call[q]
                /\ pc'[q] \in Joining => pc[q] \in Joining
                /\ pc[q] \in Joining => pc'[q] \in Joining \/ RegisterInsert(q)
<1>a. pc \in [Slot -> Await] /\ call \in [Slot -> Call \union {NoCall}]
  BY DEF TypeOK, RequestTypeOK
<1> DEFINE Kept(q) == pc'[q] # "idle" =>
                /\ pc[q] # "idle" /\ call'[q] = call[q]
                /\ pc'[q] \in Joining => pc[q] \in Joining
                /\ pc[q] \in Joining => pc'[q] \in Joining \/ RegisterInsert(q)
<1>1. ASSUME Expire \/ UNCHANGED vars PROVE \A q \in Slot : Kept(q)
  BY <1>1 DEF Expire, vars, localVars
<1>2. ASSUME NEW r \in Slot, Finish(r) PROVE \A q \in Slot : Kept(q)
  BY <1>a, <1>2 DEF Finish, Goto
<1>3. ASSUME NEW r \in Slot, NEW await, Goto(r, await), call' = call, pc[r] # "idle",
             await \in Joining => pc[r] \in Joining,
             pc[r] \in Joining => await \in Joining \/ RegisterInsert(r)
      PROVE  \A q \in Slot : Kept(q)
  BY <1>a, <1>3 DEF Goto
<1> HIDE DEF Kept
<1>4. ASSUME NEW r \in Slot, Refuse(r) \/ Fail(r) PROVE \A q \in Slot : Kept(q)
  BY <1>2, <1>4 DEF Refuse, Fail
<1>5. ASSUME NEW r \in Slot, Advance(r) PROVE \A q \in Slot : Kept(q)
  <2> USE DEF At, Joining
  <2>1. CASE RegisterCheck(r) \/ RegisterVerify(r)
    BY <1>2, <1>3, <2>1 DEF RegisterCheck, RegisterVerify, localVars
  <2>2. CASE RegisterDepth(r) \/ RegisterCount(r) \/ RegisterCreate(r)
    BY <1>3, <2>2 DEF RegisterDepth, RegisterCount, RegisterCreate
  <2>3. CASE RegisterInsert(r)
    <3>1. Goto(r, "store") /\ call' = call /\ pc[r] = "insert"
      BY <2>3 DEF RegisterInsert, localVars
    <3> HIDE DEF At
    <3> QED
      BY <1>3, <2>3, <3>1
  <2>4. CASE Occupy(r) \/ CancelRelease(r) \/ CancelUnlink(r) \/ RecalculateWrite(r) \/ ShiftBatch(r)
    BY <1>3, <2>4 DEF Occupy, CancelRelease, CancelUnlink, RecalculateWrite, ShiftBatch, localVars
  <2>5. CASE RegisterStore(r) \/ RingSave(r) \/ RingEnqueue(r) \/ RecalculatePublish(r)
    BY <1>2, <1>3, <2>5 DEF RegisterStore, RingSave, RingEnqueue, RecalculatePublish, localVars
  <2>6. CASE Load(r)
    <3>1. AfterLoad(call[r].op) \notin Joining
      BY DEF AfterLoad
    <3>2. pc[r] = "load" /\ (Finish(r) \/ (Goto(r, AfterLoad(call[r].op)) /\ call' = call))
      BY <2>6 DEF Load
    <3> QED
      BY <1>2, <1>3, <3>1, <3>2
  <2>7. CASE CancelAssignments(r) \/ Commit(r) \/ ShiftRank(r)
    <3>1. PICK await \in {"commit", "release", "recalc", "evict", "batch"} :
             Goto(r, await) /\ call' = call /\ pc[r] \in {"assignments", "commit", "rank"}
      BY <2>7 DEF CancelAssignments, Commit, ShiftRank, localVars
    <3> QED
      BY <1>3, <3>1
  <2>8. CASE Evict(r) \/ Recalculate(r)
    BY <1>2, <1>3, <2>8 DEF Evict, Recalculate, localVars
  <2> QED
    BY <1>5, <2>1, <2>2, <2>3, <2>4, <2>5, <2>6, <2>7, <2>8 DEF Advance
<1>6. ASSUME ~ \E r \in Slot : Accept(r) PROVE \A q \in Slot : Kept(q)
  <2>1. \/ Expire \/ UNCHANGED vars
        \/ \E r \in Slot : Accept(r) \/ Refuse(r) \/ Fail(r) \/ Advance(r)
    BY DEF Next, Quiet
  <2> QED
    BY <1>1, <1>4, <1>5, <1>6, <2>1, Zenon
<1> QED
  BY <1>6 DEF Kept

-----------------------------------------------------------------------------
(* What a step may do to one ticket: nothing, join, a transition that starts *)
(* from WAITING, or a ring that brings the status WAITING back.              *)
LEMMA TicketStep ==
    ASSUME TypeOK, CopyWasWaiting, RowsHaveLogs, [Next]_vars, NEW e \in Entry
    PROVE  \/ rows'[e].status = rows[e].status /\ history'[e] = history[e]
           \/ /\ history[e] = <<>>
              /\ rows'[e].status = "WAITING"
              /\ history'[e] = Append(history[e], [previous |-> "NONE", current |-> "WAITING"])
           \/ /\ history[e] # <<>>
              /\ rows'[e].status \in Status
              /\ history'[e] = Append(history[e], [previous |-> "WAITING",
                                                  current |-> rows'[e].status])
           \/ /\ history[e] # <<>>
              /\ rows'[e].status = "WAITING" /\ history'[e] = history[e]
<1>a. /\ rows \in [Entry -> Ticket] /\ history \in [Entry -> Seq(Transition)]
      /\ \A r \in Slot : pc[r] # "idle" => call[r].entry \in Entry
  BY DEF TypeOK, StoreTypeOK, RequestTypeOK, Call
<1>b. \A f \in Entry : rows[f].status = "ABSENT" <=> history[f] = <<>>
  BY DEF RowsHaveLogs
<1>1. CASE /\ \A f \in Entry : rows'[f].status = rows[f].status
           /\ history' = history
  BY <1>1
<1>2. ASSUME NEW r \in Slot, pc[r] = "insert",
             rows' = [rows EXCEPT ![call[r].entry] = loaded[r]],
             LogTransition(call[r].entry, "NONE", loaded[r].status)
      PROVE  \/ rows'[e].status = rows[e].status /\ history'[e] = history[e]
             \/ /\ history[e] = <<>>
                /\ rows'[e].status = "WAITING"
                /\ history'[e] = Append(history[e], [previous |-> "NONE", current |-> "WAITING"])
  <2>1. loaded[r].status = "WAITING"
    BY <1>2 DEF CopyWasWaiting
  <2>2. call[r].entry \in Entry /\ history[call[r].entry] = <<>>
    BY <1>a, <1>b, <1>2 DEF RowsHaveLogs, Joining, Created
  <2>3. CASE e = call[r].entry
    BY <1>a, <1>2, <2>1, <2>2, <2>3 DEF LogTransition
  <2>4. CASE e # call[r].entry
    BY <1>a, <1>2, <2>4 DEF LogTransition
  <2> QED
    BY <2>3, <2>4
<1>3. ASSUME NEW r \in Slot, pc[r] = "commit",
             rows' = [rows EXCEPT ![call[r].entry] = loaded[r]],
             LogTransition(call[r].entry, previous[r], loaded[r].status)
      PROVE  \/ rows'[e].status = rows[e].status /\ history'[e] = history[e]
             \/ /\ history[e] # <<>>
                /\ rows'[e].status \in Status
                /\ history'[e] = Append(history[e], [previous |-> "WAITING",
                                                    current |-> rows'[e].status])
  <2>1. loaded[r].status \in Status /\ previous[r] = "WAITING"
    BY <1>3 DEF CopyWasWaiting, Acting
  <2>2. call[r].entry \in Entry /\ history[call[r].entry] # <<>>
    BY <1>a, <1>b, <1>3 DEF RowsHaveLogs, Joining, Created
  <2>3. CASE e = call[r].entry
    BY <1>a, <1>3, <2>1, <2>2, <2>3 DEF LogTransition
  <2>4. CASE e # call[r].entry
    BY <1>a, <1>3, <2>4 DEF LogTransition
  <2> QED
    BY <2>3, <2>4
<1>4. ASSUME NEW r \in Slot, pc[r] = "save",
             rows' = [rows EXCEPT ![call[r].entry] = loaded[r]],
             history' = history
      PROVE  \/ rows'[e].status = rows[e].status /\ history'[e] = history[e]
             \/ /\ history[e] # <<>>
                /\ rows'[e].status = "WAITING" /\ history'[e] = history[e]
  <2>1. loaded[r].status = "WAITING"
    BY <1>4 DEF CopyWasWaiting
  <2>2. call[r].entry \in Entry /\ history[call[r].entry] # <<>>
    BY <1>a, <1>b, <1>4 DEF RowsHaveLogs, Joining, Created
  <2> QED
    BY <1>a, <1>4, <2>1, <2>2
<1> QED
  BY <1>1, <1>2, <1>3, <1>4, WhatChangesRows

(* A row is never deleted. *)
LEMMA CreatedGrows ==
    ASSUME TypeOK, CopyWasWaiting, RowsHaveLogs, [Next]_vars
    PROVE  Created \subseteq Created'
<1> SUFFICES ASSUME NEW e \in Entry, rows[e].status # "ABSENT" PROVE rows'[e].status # "ABSENT"
  BY DEF Created
<1>1. rows[e].status = "ABSENT" <=> history[e] = <<>>
  BY DEF RowsHaveLogs
<1> QED
  BY <1>1, TicketStep DEF Status, Terminal

(* Rows and logs appear together, and a ticket that is joining is nobody     *)
(* else's business.                                                          *)
LEMMA RowsHaveLogsStep ==
    TypeOK /\ CopyWasWaiting /\ RowsHaveLogs /\ [Next]_vars => RowsHaveLogs'
<1> SUFFICES ASSUME TypeOK, CopyWasWaiting, RowsHaveLogs, [Next]_vars PROVE RowsHaveLogs'
  OBVIOUS
<1>a. /\ rows \in [Entry -> Ticket] /\ history \in [Entry -> Seq(Transition)]
      /\ pc \in [Slot -> Await] /\ call \in [Slot -> Call \union {NoCall}]
      /\ \A r \in Slot : pc[r] # "idle" => call[r].entry \in Entry
  BY DEF TypeOK, StoreTypeOK, RequestTypeOK, Call
<1>b. \A f \in Entry : rows[f].status = "ABSENT" <=> history[f] = <<>>
  BY DEF RowsHaveLogs
<1> DEFINE Own(q) == IF pc[q] \in Joining
                     THEN /\ call[q].entry \notin Created
                          /\ \A s \in Running : call[s].entry = call[q].entry => s = q
                     ELSE call[q].entry \in Created
<1>c. \A q \in Running : Own(q)
  BY DEF RowsHaveLogs, Running
<1>1. \A e \in Entry : rows'[e].status = "ABSENT" <=> history'[e] = <<>>
  <2> SUFFICES ASSUME NEW e \in Entry PROVE rows'[e].status = "ABSENT" <=> history'[e] = <<>>
    OBVIOUS
  <2>1. \A x \in Transition : Append(history[e], x) # <<>>
    BY <1>a, AppendProperties
  <2>2. \A s \in Status : /\ [previous |-> "WAITING", current |-> s] \in Transition
                         /\ s # "ABSENT"
    BY DEF Transition, Status, Terminal
  <2>3. [previous |-> "NONE", current |-> "WAITING"] \in Transition
    BY DEF Transition, Status
  <2> QED
    BY <1>b, <2>1, <2>2, <2>3, TicketStep
<1>2. Created \subseteq Created'
  BY CreatedGrows
<1>3. ASSUME NEW e \in Created', e \notin Created
      PROVE  \E r \in Slot : pc[r] = "insert" /\ pc'[r] = "store" /\ call[r].entry = e
  <2>1. e \in Entry /\ rows[e].status = "ABSENT" /\ rows'[e].status # "ABSENT"
    BY <1>3 DEF Created
  <2>2. ASSUME NEW r \in Slot, pc[r] \in {"commit", "save"} PROVE call[r].entry # e
    BY <1>c, <1>3, <2>2 DEF Running, Joining
  <2> QED
    BY <1>a, <2>1, <2>2, WhatChangesRows
<1>4. ASSUME NEW r \in Slot, Accept(r) PROVE \A q \in Running' : Own(q)'
  <2>1. PICK c \in Requests : /\ call' = [call EXCEPT ![r] = c]
                             /\ Goto(r, IF c.op = "register" THEN "check" ELSE "load")
    BY <1>4 DEF Accept
  <2>2. Created' = Created /\ pc[r] = "idle"
    BY <1>4 DEF Accept, Created, storeVars, At
  <2>3. \A q \in Slot \ {r} : pc'[q] = pc[q] /\ call'[q] = call[q]
    BY <1>a, <2>1 DEF Goto
  <2>4. call'[r] = c /\ pc'[r] = IF c.op = "register" THEN "check" ELSE "load"
    BY <1>a, <2>1 DEF Goto
  <2>5. Running' = Running \union {r}
    BY <2>3, <2>4 DEF Running
  <2>6. CASE c.op = "register"
    <3>1. c.entry \notin Created /\ \A q \in Running : call[q].entry # c.entry
      BY <2>6, RequestsAreCalls DEF Fresh, Created
    <3>2. Own(r)'
      BY <2>2, <2>3, <2>4, <2>5, <2>6, <3>1 DEF Joining, Running
    <3>3. \A q \in Running : Own(q)'
      BY <1>c, <2>2, <2>3, <2>4, <2>5, <3>1 DEF Running
    <3> QED
      BY <2>5, <3>2, <3>3
  <2>7. CASE c.op # "register"
    <3>1. c.entry \in Created
      BY <2>7, RequestsAreCalls
    <3>2. Own(r)'
      BY <2>2, <2>4, <2>7, <3>1 DEF Joining
    <3>3. \A q \in Running : Own(q)'
      BY <1>c, <2>2, <2>3, <2>4, <2>5, <3>1 DEF Running
    <3> QED
      BY <2>5, <3>2, <3>3
  <2> QED
    BY <2>6, <2>7
<1>5. ASSUME \A q \in Slot : pc'[q] # "idle" =>
                /\ pc[q] # "idle" /\ call'[q] = call[q]
                /\ pc'[q] \in Joining => pc[q] \in Joining
                /\ pc[q] \in Joining => pc'[q] \in Joining \/ RegisterInsert(q)
      PROVE  \A q \in Running' : Own(q)'
  <2> SUFFICES ASSUME NEW q \in Slot, pc'[q] # "idle" PROVE Own(q)'
    BY DEF Running
  <2>1. Running' \subseteq Running /\ q \in Running /\ call'[q] = call[q] /\ Own(q)
    BY <1>c, <1>5 DEF Running
  <2>2. CASE pc'[q] \in Joining
    <3>1. pc[q] \in Joining
      BY <1>5, <2>2
    <3>2. call[q].entry \notin Created'
      BY <1>3, <2>1, <2>2, <3>1 DEF Joining, Running
    <3>3. \A s \in Running' : call'[s].entry = call'[q].entry => s = q
      BY <1>5, <2>1, <3>1 DEF Running
    <3> QED
      BY <2>1, <2>2, <3>2, <3>3
  <2>3. CASE pc'[q] \notin Joining /\ pc[q] \in Joining
    <3>1. RegisterInsert(q)
      BY <1>5, <2>3
    <3>2. rows'[call[q].entry] = loaded[q] /\ loaded[q].status = "WAITING"
          /\ call[q].entry \in Entry
      BY <1>a, <3>1 DEF RegisterInsert, CreateWithHistory, CopyWasWaiting, At
    <3> QED
      BY <2>1, <2>3, <3>2 DEF Created
  <2>4. CASE pc'[q] \notin Joining /\ pc[q] \notin Joining
    BY <1>2, <2>1, <2>4
  <2> QED
    BY <2>2, <2>3, <2>4
<1>6. \A q \in Running' : Own(q)'
  BY <1>4, <1>5, RequestsMove
<1> QED
  BY <1>1, <1>6 DEF RowsHaveLogs, Running

-----------------------------------------------------------------------------
(* The audit log and the status it explains. *)

(* A status changes in the transaction that writes its transition. *)
LEMMA AuditStep ==
    /\ TypeOK /\ CopyWasWaiting /\ RowsHaveLogs
    /\ AuditStartsWaiting /\ StatusIsAudited
    /\ [Next]_vars
    => AuditStartsWaiting' /\ StatusIsAudited'
<1> SUFFICES ASSUME TypeOK, CopyWasWaiting, RowsHaveLogs, AuditStartsWaiting, StatusIsAudited,
                    [Next]_vars, NEW e \in Entry
             PROVE  /\ \A i \in DOMAIN history'[e] :
                        /\ i = 1 <=> history'[e][i].previous = "NONE"
                        /\ i = 1 => history'[e][i].current = "WAITING"
                        /\ i > 1 => history'[e][i].previous = "WAITING"
                    /\ \/ rows'[e].status = "ABSENT" /\ history'[e] = <<>>
                       \/ \E i \in DOMAIN history'[e] :
                            history'[e][i].current = rows'[e].status
  BY DEF AuditStartsWaiting, StatusIsAudited
<1>1. /\ history[e] \in Seq(Transition) /\ DOMAIN history[e] = 1..Len(history[e])
      /\ Len(history[e]) \in Nat /\ history[e] # <<>> => Len(history[e]) >= 1
  BY DEF TypeOK, StoreTypeOK
<1>2. /\ \A i \in DOMAIN history[e] :
            /\ i = 1 <=> history[e][i].previous = "NONE"
            /\ i = 1 => history[e][i].current = "WAITING"
            /\ i > 1 => history[e][i].previous = "WAITING"
      /\ \/ rows[e].status = "ABSENT" /\ history[e] = <<>>
         \/ \E i \in DOMAIN history[e] : history[e][i].current = rows[e].status
  BY DEF AuditStartsWaiting, StatusIsAudited
<1>3. CASE rows'[e].status = rows[e].status /\ history'[e] = history[e]
  BY <1>2, <1>3
<1>4. ASSUME NEW x \in Transition, history'[e] = Append(history[e], x)
      PROVE  /\ DOMAIN history'[e] = 1..(Len(history[e]) + 1)
             /\ \A i \in 1..Len(history[e]) : history'[e][i] = history[e][i]
             /\ history'[e][Len(history[e]) + 1] = x
  BY <1>1, <1>4, AppendProperties
<1>5. CASE /\ history[e] = <<>>
           /\ rows'[e].status = "WAITING"
           /\ history'[e] = Append(history[e], [previous |-> "NONE", current |-> "WAITING"])
  <2>1. [previous |-> "NONE", current |-> "WAITING"] \in Transition
    BY DEF Transition, Status
  <2>2. DOMAIN history'[e] = {1}
        /\ history'[e][1] = [previous |-> "NONE", current |-> "WAITING"]
    BY <1>4, <1>5, <2>1
  <2> QED
    BY <1>5, <2>2
<1>6. CASE /\ history[e] # <<>>
           /\ rows'[e].status \in Status
           /\ history'[e] = Append(history[e], [previous |-> "WAITING",
                                               current |-> rows'[e].status])
  <2>1. [previous |-> "WAITING", current |-> rows'[e].status] \in Transition
    BY <1>6 DEF Transition, Status
  <2>2. /\ DOMAIN history'[e] = 1..(Len(history[e]) + 1)
        /\ \A i \in 1..Len(history[e]) : history'[e][i] = history[e][i]
        /\ history'[e][Len(history[e]) + 1].previous = "WAITING"
        /\ history'[e][Len(history[e]) + 1].current = rows'[e].status
    BY <1>4, <1>6, <2>1
  <2>3. \A i \in DOMAIN history'[e] :
            /\ i = 1 <=> history'[e][i].previous = "NONE"
            /\ i = 1 => history'[e][i].current = "WAITING"
            /\ i > 1 => history'[e][i].previous = "WAITING"
    BY <1>1, <1>2, <1>6, <2>2
  <2>4. \E i \in DOMAIN history'[e] : history'[e][i].current = rows'[e].status
    BY <1>1, <2>2
  <2> QED
    BY <2>3, <2>4
<1>7. CASE /\ history[e] # <<>>
           /\ rows'[e].status = "WAITING" /\ history'[e] = history[e]
  <2>1. 1 \in DOMAIN history'[e] /\ history'[e][1].current = "WAITING"
    BY <1>1, <1>2, <1>7
  <2> QED
    BY <1>2, <1>7, <2>1
<1> QED
  BY <1>3, <1>5, <1>6, <1>7, TicketStep

(* Initially a ticket waits with a rank, or does not exist. *)
LEMMA InitTickets ==
    ASSUME Init, NEW e \in Entry
    PROVE  \/ /\ rows[e].status = "WAITING" /\ rows[e].position # NoPosition
              /\ history[e] = <<[previous |-> "NONE", current |-> "WAITING"]>>
           \/ /\ rows[e] = AbsentRow /\ history[e] = <<>> /\ cache[e] = NoPosition
<1>1. PICK ids \in [DOMAIN InitialQueue -> Entry] :
        LET Place(f) == CHOOSE i \in DOMAIN InitialQueue : ids[i] = f
            queued   == {ids[i] : i \in DOMAIN InitialQueue}
        IN /\ rows = [f \in Entry |->
                 IF f \in queued
                 THEN CreateTicket(InitialQueue[Place(f)], Place(f), Place(f), Place(f))
                 ELSE AbsentRow]
           /\ history = [f \in Entry |->
                 IF f \in queued
                 THEN <<[previous |-> "NONE", current |-> "WAITING"]>>
                 ELSE <<>>]
           /\ cache = [f \in Entry |-> IF f \in queued THEN Place(f) ELSE NoPosition]
  BY DEF Init
<1> DEFINE Place(f) == CHOOSE i \in DOMAIN InitialQueue : ids[i] = f
           queued   == {ids[i] : i \in DOMAIN InitialQueue}
<1>2. CASE e \in queued
  <2>1. Place(e) \in DOMAIN InitialQueue
    BY <1>2
  <2>2. Place(e) # NoPosition
    <3>1. DOMAIN InitialQueue = 1..Len(InitialQueue)
      BY ServiceAssumption
    <3> HIDE DEF Place
    <3> QED
      BY <2>1, <3>1 DEF NoPosition
  <2>3. /\ rows[e] = CreateTicket(InitialQueue[Place(e)], Place(e), Place(e), Place(e))
        /\ history[e] = <<[previous |-> "NONE", current |-> "WAITING"]>>
    BY <1>1, <1>2
  <2> QED
    BY <2>2, <2>3 DEF CreateTicket
<1>3. CASE e \notin queued
  BY <1>1, <1>3
<1> QED
  BY <1>2, <1>3

(* The logs agree with the tickets in the beginning. *)
LEMMA AuditInit == Init => RowsHaveLogs /\ AuditStartsWaiting /\ StatusIsAudited
<1> SUFFICES ASSUME Init PROVE RowsHaveLogs /\ AuditStartsWaiting /\ StatusIsAudited
  OBVIOUS
<1> DEFINE created == [previous |-> "NONE", current |-> "WAITING"]
<1>1. \A e \in Entry : \/ rows[e].status = "WAITING" /\ history[e] = <<created>>
                       \/ rows[e].status = "ABSENT" /\ history[e] = <<>>
  BY InitTickets DEF AbsentRow
<1>2. /\ DOMAIN <<created>> = {1} /\ <<created>>[1].current = "WAITING"
      /\ <<created>>[1].previous = "NONE" /\ <<created>> # <<>>
  OBVIOUS
<1>3. AuditStartsWaiting
  BY <1>1, <1>2 DEF AuditStartsWaiting
<1>4. StatusIsAudited
  BY <1>1, <1>2 DEF StatusIsAudited
<1>5. RowsHaveLogs
  <2>1. \A r \in Slot : pc[r] = "idle"
    BY DEF Init
  <2> QED
    BY <1>1, <1>2, <2>1 DEF RowsHaveLogs
<1> QED
  BY <1>3, <1>4, <1>5

(* The invariant behind the audit properties. *)
AuditInvariant ==
    /\ TypeOK /\ CopyWasWaiting /\ RowsHaveLogs
    /\ AuditStartsWaiting /\ StatusIsAudited

(* The audit log explains every status. *)
LEMMA AuditInvariantHolds == Spec => []AuditInvariant
<1>1. Init => AuditInvariant
  BY TypeInit, AuditInit DEF AuditInvariant, Init, CopyWasWaiting, Acting
<1>2. AuditInvariant /\ [Next]_vars => AuditInvariant'
  BY TypeStep, CopyWasWaitingStep, RowsHaveLogsStep, AuditStep DEF AuditInvariant
<1> QED
  BY <1>1, <1>2, PTL DEF Spec

(* Even requests that lost a race to another one, or wrote back a copy that  *)
(* was stale, log transitions that start from WAITING: the guard of every    *)
(* use case reads the row it later overwrites, before it logs.               *)
THEOREM AuditStartsWaitingHolds == Spec => []AuditStartsWaiting
  BY AuditInvariantHolds, PTL DEF AuditInvariant

(* No interleaving leaves a stored status that the audit log does not        *)
(* report: ring and the position batches, which write no log, bring back     *)
(* only WAITING, which registering logged.                                   *)
THEOREM StatusIsAuditedHolds == Spec => []StatusIsAudited
  BY AuditInvariantHolds, PTL DEF AuditInvariant

-----------------------------------------------------------------------------
(* Ranks and the cache. *)

(* The rank of a waiting ticket and the depth of the queue it is in start    *)
(* at one, and so does the place it is shifted to.                           *)
LEMMA RanksArePositive ==
    /\ QueueDepth + 1 # NoPosition
    /\ \A e \in Entry : Rank(e) # NoPosition
    /\ \A e \in Active : \A n \in Nat : ShiftTarget(e, n) # NoPosition
<1>1. Active \subseteq Entry
  BY DEF Active
<1>2. IsFiniteSet(Active)
  BY <1>1, EntryAssumption, FS_Subset
<1>3. ASSUME NEW e \in Active PROVE QueueDepth # 0
  BY <1>2, FS_EmptySet DEF QueueDepth
<1> QED
  BY <1>1, <1>3, CountsAreNatural DEF NoPosition, ShiftTarget

(* Nothing leaves a waiting ticket without a position. *)
LEMMA WaitingIsRankedStep ==
    TypeOK /\ WaitingIsRanked /\ CopyIsRanked /\ [Next]_vars => WaitingIsRanked'
<1> SUFFICES ASSUME TypeOK, WaitingIsRanked, CopyIsRanked, [Next]_vars,
                    NEW e \in Entry, rows'[e].status = "WAITING"
             PROVE  rows'[e].position # NoPosition
  BY DEF WaitingIsRanked, Active, IsWaiting
<1>a. /\ rows \in [Entry -> Ticket] /\ loaded \in [Slot -> Ticket]
      /\ plan \in [Slot -> [Entry -> Nat]]
  BY DEF TypeOK, StoreTypeOK, RequestTypeOK
<1>b. rows[e].status = "WAITING" => rows[e].position # NoPosition
  BY DEF WaitingIsRanked, Active, IsWaiting
<1>1. CASE rows' = rows
  BY <1>b, <1>1
<1>2. ASSUME NEW r \in Slot, BatchUpdatePositions(plan[r]),
             rows'[e].status = rows[e].status
      PROVE  rows'[e].position # NoPosition
  <2>1. rows'[e] = IF plan[r][e] = NoPosition THEN rows[e]
                   ELSE [rows[e] EXCEPT !.position = plan[r][e]]
    BY <1>2 DEF BatchUpdatePositions
  <2>2. rows[e] \in Ticket
    BY <1>a
  <2>3. CASE plan[r][e] = NoPosition
    BY <1>b, <2>1, <2>3
  <2>4. CASE plan[r][e] # NoPosition
    BY <2>1, <2>2, <2>4 DEF Ticket
  <2> QED
    BY <2>3, <2>4
<1>3. ASSUME NEW r \in Slot, pc[r] \in {"insert", "commit", "save"},
             rows' = [rows EXCEPT ![call[r].entry] = loaded[r]]
      PROVE  rows'[e].position # NoPosition
  <2>1. loaded[r].status = "WAITING" => loaded[r].position # NoPosition
    BY <1>3 DEF CopyIsRanked, Acting, IsWaiting
  <2> QED
    BY <1>a, <1>b, <1>3, <2>1
<1> QED
  BY <1>1, <1>2, <1>3, WhatChangesRows

(* Nor a copy of one that will be saved. *)
LEMMA CopyIsRankedStep ==
    TypeOK /\ WaitingIsRanked /\ CopyIsRanked /\ [Next]_vars => CopyIsRanked'
<1> SUFFICES ASSUME TypeOK, WaitingIsRanked, CopyIsRanked, [Next]_vars, NEW q \in Slot
             PROVE  /\ pc'[q] \in {"count", "create", "verify", "insert"} =>
                           loaded'[q].position # NoPosition
                    /\ pc'[q] \in Acting /\ loaded'[q].status = "WAITING" =>
                           loaded'[q].position # NoPosition
  BY DEF CopyIsRanked, IsWaiting
<1>a. /\ pc \in [Slot -> Await] /\ loaded \in [Slot -> Ticket]
      /\ previous \in [Slot -> Status \union {"NONE"}] /\ rows \in [Entry -> Ticket]
      /\ pc[q] # "idle" => call[q] \in Call
  BY DEF TypeOK, RequestTypeOK, StoreTypeOK
<1>b. /\ pc[q] \in {"count", "create", "verify", "insert"} => loaded[q].position # NoPosition
      /\ pc[q] \in Acting /\ loaded[q].status = "WAITING" => loaded[q].position # NoPosition
  BY DEF CopyIsRanked, IsWaiting
<1>1. CASE pc'[q] \notin Acting \union {"count", "create", "verify", "insert"}
  BY <1>1
<1>2. CASE /\ loaded'[q] = loaded[q] /\ previous'[q] = previous[q]
           /\ \/ pc'[q] = pc[q]
              \/ pc[q] = "verify" /\ pc'[q] = "insert"
              \/ pc[q] \in Acting /\ pc'[q] \in Acting \ {"save"}
  BY <1>b, <1>2 DEF Acting
<1>3. CASE RegisterDepth(q)
  BY <1>a, <1>3, RanksArePositive DEF RegisterDepth, Goto, Acting, Ticket
<1>4. CASE RegisterCount(q)
  BY <1>a, <1>b, <1>4 DEF RegisterCount, At, Goto, Acting, Ticket
<1>5. CASE RegisterCreate(q)
  BY <1>a, <1>b, <1>5 DEF RegisterCreate, At, Goto, Acting, CreateTicket
<1>6. CASE Load(q)
  <2> DEFINE ticket == rows[call[q].entry]
  <2>1. CASE Finish(q)
    BY <1>a, <2>1 DEF Finish, Goto, Acting
  <2>2. CASE /\ Permitted(call[q], ticket)
             /\ loaded' = [loaded EXCEPT ![q] = Transform(call[q], ticket)]
             /\ Goto(q, AfterLoad(call[q].op))
    <3>1. call[q] \in Call /\ call[q].entry \in Entry /\ ticket \in Ticket
      BY <1>a, <1>6 DEF Load, At, Call
    <3>2. ticket.status = "WAITING" /\ ticket.position # NoPosition
      BY <2>2, <3>1 DEF Permitted, CanRing, IsWaiting, WaitingIsRanked, Active
    <3>3. CASE call[q].op \in {"seat", "assign"}
      BY <1>a, <2>2, <3>1, <3>3 DEF Transform, SeatTicket, Goto, Ticket, AfterLoad
    <3>4. CASE call[q].op = "skip"
      BY <1>a, <2>2, <3>1, <3>4 DEF Transform, SkipTicket, Goto, Ticket, AfterLoad
    <3>5. CASE call[q].op \notin {"seat", "assign", "skip", "cancel"}
      <4>1. Transform(call[q], ticket).position = ticket.position
        BY <3>1, <3>5 DEF Transform, RingTicket, Ticket
      <4>2. AfterLoad(call[q].op) \notin {"count", "create", "verify", "insert"}
        BY DEF AfterLoad
      <4> QED
        BY <1>a, <2>2, <3>2, <4>1, <4>2 DEF Goto
    <3>6. CASE call[q].op = "cancel"
      <4>1. call[q].status # "WAITING"
        BY <3>1, <3>6 DEF Call, Terminal
      <4>2. Transform(call[q], ticket).status = call[q].status
        BY <3>1, <3>6 DEF Transform, CancelTicket, Ticket
      <4>3. AfterLoad(call[q].op) \notin {"count", "create", "verify", "insert"}
        BY DEF AfterLoad
      <4> QED
        BY <1>a, <2>2, <4>1, <4>2, <4>3 DEF Goto
    <3> QED
      BY <3>3, <3>4, <3>5, <3>6
  <2> QED
    BY <1>6, <2>1, <2>2 DEF Load
<1>7. CASE ShiftRank(q)
  <2> DEFINE target == ShiftTarget(call[q].entry, call[q].shift)
  <2>1. loaded[q] \in Ticket /\ call[q].shift \in Nat /\ pc'[q] \in {"batch", "commit"}
    BY <1>a, <1>7 DEF ShiftRank, At, Call, Goto
  <2>2. CASE call[q].entry \in Active /\ loaded' = [loaded EXCEPT ![q] = UpdatePosition(@, target)]
    <3>1. target # NoPosition
      BY <2>1, <2>2, RanksArePositive
    <3> HIDE DEF target
    <3>2. loaded'[q] = IF loaded[q].status = "WAITING" THEN [loaded[q] EXCEPT !.position = target]
                       ELSE loaded[q]
      BY <1>a, <2>2 DEF UpdatePosition, IsWaiting
    <3> QED
      BY <2>1, <3>1, <3>2 DEF Ticket
  <2>3. CASE loaded' = [loaded EXCEPT ![q] = SkipTicket(@)]
    <3>1. loaded'[q].status = "SKIPPED"
      BY <1>a, <2>1, <2>3 DEF SkipTicket, Ticket
    <3> QED
      BY <2>1, <3>1
  <2> QED
    BY <1>7, <2>2, <2>3 DEF ShiftRank
<1> QED
  BY <1>1, <1>2, <1>3, <1>4, <1>5, <1>6, <1>7, CopiesChange

(* A plan made in this step is about active tickets. *)
LEMMA PlansAreStoredStep ==
    ASSUME TypeOK, CopyWasWaiting, RowsHaveLogs, PlansAreStored, [Next]_vars
    PROVE  PlansAreStored'
<1> SUFFICES ASSUME NEW q \in Slot, NEW e \in Entry, plan'[q][e] # NoPosition,
                    e \notin Created'
             PROVE  FALSE
  BY DEF PlansAreStored
<1>a. plan \in [Slot -> [Entry -> Nat]] /\ e \notin Created
  BY CreatedGrows DEF TypeOK, RequestTypeOK
<1>b. plan[q][e] = NoPosition
  BY <1>a DEF PlansAreStored
<1>c. e \notin Active
  BY <1>a DEF Active, Created, IsWaiting
<1> DEFINE Nothing(r) == \/ plan' = plan
                         \/ plan' = [plan EXCEPT ![r] = NoUpdate]
<1>1. ASSUME NEW r \in Slot, Nothing(r) PROVE FALSE
  BY <1>a, <1>b, <1>1 DEF NoUpdate
<1>2. ASSUME NEW r \in Slot, ShiftRank(r) PROVE FALSE
  <2>1. \/ plan' = plan
        \/ plan' = [plan EXCEPT ![r] =
                [f \in Entry |-> IF f \in Active
                    THEN ShiftedRank(call[r].entry,
                                     ShiftTarget(call[r].entry, call[r].shift), f)
                    ELSE NoPosition]]
    BY <1>2 DEF ShiftRank
  <2> QED
    BY <1>a, <1>b, <1>c, <2>1
<1>3. ASSUME NEW r \in Slot, Recalculate(r) PROVE FALSE
  <2>1. CASE Finish(r)
    BY <1>1, <2>1 DEF Finish
  <2>2. CASE \E S \in SUBSET Active : plan' = [plan EXCEPT ![r] = Renumbering(S)]
    <3>1. PICK S \in SUBSET Active : plan' = [plan EXCEPT ![r] = Renumbering(S)]
      BY <2>2
    <3>2. Renumbering(S)[e] = NoPosition
      BY <1>c DEF Renumbering
    <3> QED
      BY <1>a, <1>b, <3>1, <3>2
  <2> QED
    BY <1>3, <2>1, <2>2 DEF Recalculate
<1>4. ASSUME NEW r \in Slot, Advance(r), ~ShiftRank(r), ~Recalculate(r) PROVE Nothing(r)
  BY <1>4 DEF Advance, RegisterCheck, RegisterDepth, RegisterCount, RegisterCreate,
     RegisterVerify, RegisterInsert, RegisterStore, Load, RingSave, RingEnqueue, Occupy,
     CancelAssignments, CancelRelease, CancelUnlink, ShiftBatch, Commit, Evict, RecalculateWrite,
     RecalculatePublish, Finish, localVars
<1>5. ASSUME NEW r \in Slot, Accept(r) \/ Refuse(r) \/ Fail(r) PROVE Nothing(r)
  BY <1>5 DEF Accept, Refuse, Fail, Finish
<1>6. ASSUME Expire \/ UNCHANGED vars PROVE FALSE
  BY <1>a, <1>b, <1>6 DEF Expire, vars, localVars
<1>7. \/ Expire \/ UNCHANGED vars
      \/ \E r \in Slot : Accept(r) \/ Refuse(r) \/ Fail(r) \/ Advance(r)
  BY DEF Next, Quiet
<1> HIDE DEF Nothing
<1> QED
  BY <1>1, <1>2, <1>3, <1>4, <1>5, <1>6, <1>7

(* Only the position of a ticket that exists is cached. *)
LEMMA CachedIsStoredStep ==
    ASSUME TypeOK, CopyWasWaiting, RowsHaveLogs, PlansAreStored, CachedIsStored, [Next]_vars
    PROVE  CachedIsStored'
<1> SUFFICES ASSUME NEW e \in Entry, cache'[e] # NoPosition, e \notin Created'
             PROVE  FALSE
  BY DEF CachedIsStored
<1>a. /\ cache \in [Entry -> Nat] /\ e \notin Created /\ cache[e] = NoPosition
  BY CreatedGrows DEF TypeOK, StoreTypeOK, CachedIsStored
<1>1. ASSUME NEW f \in Entry, cache' = [cache EXCEPT ![f] = NoPosition] PROVE FALSE
  BY <1>a, <1>1
<1>2. CASE Expire
  BY <1>1, <1>2 DEF Expire, RemoveLiveEntry
<1>3. ASSUME NEW r \in Slot, RegisterStore(r) PROVE FALSE
  <2>1. call[r].entry \in Created
    BY <1>3 DEF RegisterStore, At, RowsHaveLogs, Joining
  <2> QED
    BY <1>a, <1>3, <2>1 DEF RegisterStore
<1>4. ASSUME NEW r \in Slot, Evict(r) PROVE FALSE
  BY <1>a, <1>4 DEF Evict, RemoveLiveEntry
<1>5. ASSUME NEW r \in Slot, RecalculatePublish(r) PROVE FALSE
  <2>1. plan[r][e] = NoPosition
    BY <1>a DEF PlansAreStored
  <2> QED
    BY <1>a, <1>5, <2>1 DEF RecalculatePublish, SaveLiveEntries
<1>6. ASSUME NEW r \in Slot, Advance(r), ~RegisterStore(r), ~Evict(r), ~RecalculatePublish(r)
      PROVE  cache' = cache
  BY <1>6 DEF Advance, RegisterCheck, RegisterDepth, RegisterCount, RegisterCreate,
     RegisterVerify, RegisterInsert, Load, RingSave, RingEnqueue, Occupy, CancelAssignments,
     CancelRelease, CancelUnlink, ShiftRank, ShiftBatch, Commit, Recalculate,
     RecalculateWrite, ReadsOnly, storeVars
<1>7. ASSUME NEW r \in Slot, Accept(r) \/ Refuse(r) \/ Fail(r) PROVE cache' = cache
  BY <1>7 DEF Accept, Refuse, Fail, ReadsOnly, storeVars
<1>8. CASE UNCHANGED vars
  BY <1>a, <1>8 DEF vars
<1>9. \/ Expire \/ UNCHANGED vars
      \/ \E r \in Slot : Accept(r) \/ Refuse(r) \/ Fail(r) \/ Advance(r)
  BY DEF Next, Quiet
<1> QED
  BY <1>a, <1>2, <1>3, <1>4, <1>5, <1>6, <1>7, <1>8, <1>9

(* The invariant behind ranks and cache. *)
RankInvariant ==
    /\ TypeOK /\ CopyWasWaiting /\ RowsHaveLogs
    /\ WaitingIsRanked /\ CopyIsRanked
    /\ PlansAreStored /\ CachedIsStored

(* Ranks, copies and the cache keep each other. *)
LEMMA RankInvariantHolds == Spec => []RankInvariant
<1>1. Init => RankInvariant
  <2> SUFFICES ASSUME Init PROVE RankInvariant
    OBVIOUS
  <2>1. \A r \in Slot : pc[r] = "idle" /\ plan[r] = NoUpdate
    BY DEF Init
  <2>2. CopyWasWaiting /\ CopyIsRanked
    BY <2>1 DEF CopyWasWaiting, CopyIsRanked, Acting
  <2>3. PlansAreStored
    BY <2>1 DEF PlansAreStored, NoUpdate
  <2>4. WaitingIsRanked /\ CachedIsStored
    BY InitTickets DEF WaitingIsRanked, CachedIsStored, Active, Created, IsWaiting, AbsentRow
  <2> QED
    BY <2>2, <2>3, <2>4, TypeInit, AuditInit DEF RankInvariant
<1>2. RankInvariant /\ [Next]_vars => RankInvariant'
  BY TypeStep, CopyWasWaitingStep, RowsHaveLogsStep, WaitingIsRankedStep, CopyIsRankedStep,
     PlansAreStoredStep, CachedIsStoredStep DEF RankInvariant
<1> QED
  BY <1>1, <1>2, PTL DEF Spec

(* No race of full-row writes with position batches leaves a waiting party   *)
(* without a rank, at the end of every list PostgreSQL sorts by position.    *)
THEOREM WaitingIsRankedHolds == Spec => []WaitingIsRanked
  BY RankInvariantHolds, PTL DEF RankInvariant

(* No failure or race caches a ticket that the database does not hold.       *)
THEOREM CachedIsStoredHolds == Spec => []CachedIsStored
  BY RankInvariantHolds, PTL DEF RankInvariant

-----------------------------------------------------------------------------
(* Clients that keep apart: they wait for the answer about a ticket before  *)
(* they ask again, or the service has a single slot, so that they have to.  *)
Apart == Exclusive \/ \A q, r \in Slot : q = r

(* Exclusive clients keep to one request for a ticket. *)
LEMMA AloneStep ==
    ASSUME Apart, TypeOK, Alone, [Next]_vars
    PROVE  Alone'
<1>a. pc \in [Slot -> Await] /\ call \in [Slot -> Call \union {NoCall}]
  BY DEF TypeOK, RequestTypeOK
<1>1. ASSUME NEW r \in Slot, Accept(r) PROVE Alone'
  <2>1. PICK c \in Requests :
           /\ \A q \in Running : c.entry # call[q].entry
           /\ call' = [call EXCEPT ![r] = c]
           /\ pc'[r] # "idle"
    BY <1>a, <1>1 DEF Apart, Accept, Disjoint, Goto, Running, At
  <2>2. \A q \in Slot \ {r} : pc'[q] = pc[q] /\ call'[q] = call[q]
    BY <1>a, <1>1, <2>1 DEF Accept, Goto
  <2>3. call'[r] = c /\ Running' = Running \union {r}
    BY <1>a, <2>1, <2>2 DEF Running
  <2> QED
    BY <2>1, <2>2, <2>3 DEF Alone, Running
<1>2. CASE \A q \in Slot : pc'[q] # "idle" => pc[q] # "idle" /\ call'[q] = call[q]
  BY <1>2 DEF Alone, Running
<1> QED
  BY <1>1, <1>2, RequestsMove

(* Who acts alone on a ticket finds it waiting until it commits. *)
LEMMA ActingOnWaitingStep ==
    ASSUME TypeOK, CopyWasWaiting, RowsHaveLogs, Alone, ActingOnWaiting, [Next]_vars
    PROVE  ActingOnWaiting'
<1> SUFFICES ASSUME NEW q \in Slot, pc'[q] \in Acting
             PROVE  rows'[call'[q].entry].status = "WAITING"
  BY DEF ActingOnWaiting
<1>a. /\ pc \in [Slot -> Await] /\ call \in [Slot -> Call \union {NoCall}]
      /\ rows \in [Entry -> Ticket]
      /\ \A r \in Slot : pc[r] # "idle" => call[r].entry \in Entry
  BY DEF TypeOK, StoreTypeOK, RequestTypeOK, Call
<1>1. /\ pc[q] # "idle" /\ call'[q] = call[q]
      /\ pc[q] \notin Joining
  <2>1. CASE \E r \in Slot : Accept(r)
    <3>1. PICK r \in Slot : Accept(r)
      BY <2>1
    <3>2. q # r
      BY <1>a, <3>1 DEF Accept, Goto, Acting
    <3>3. pc'[q] = pc[q] /\ call'[q] = call[q]
      BY <1>a, <3>1, <3>2 DEF Accept, Goto
    <3> QED
      BY <3>3 DEF Acting, Joining
  <2>2. CASE \A s \in Slot : pc'[s] # "idle" =>
                /\ pc[s] # "idle" /\ call'[s] = call[s]
                /\ pc'[s] \in Joining => pc[s] \in Joining
                /\ pc[s] \in Joining => pc'[s] \in Joining \/ RegisterInsert(s)
    <3>1. pc'[q] \notin Joining /\ pc'[q] # "idle" /\ pc'[q] # "store"
      BY DEF Acting, Joining
    <3>2. ~RegisterInsert(q)
      BY <1>a, <3>1 DEF RegisterInsert, Goto
    <3> QED
      BY <2>2, <3>1, <3>2
  <2> QED
    BY <2>1, <2>2, RequestsMove
<1>2. rows[call[q].entry].status = "WAITING"
  <2>1. CASE pc[q] \in Acting
    BY <2>1 DEF ActingOnWaiting
  <2>2. CASE Load(q)
    BY <1>a, <2>2 DEF Load, Finish, Goto, Acting, Permitted, CanRing, IsWaiting
  <2>3. pc[q] \in Acting \/ Load(q)
    BY <1>1, CopiesChange DEF RegisterDepth, RegisterCount, RegisterCreate, ShiftRank, At,
       Joining, Acting
  <2> QED
    BY <2>1, <2>2, <2>3
<1>3. ASSUME NEW r \in Slot, pc[r] # "idle", pc'[r] \notin Acting,
             rows' = [rows EXCEPT ![call[r].entry] = loaded[r]]
      PROVE  rows'[call[q].entry].status = "WAITING"
  <2>1. call[r].entry # call[q].entry
    BY <1>1, <1>3 DEF Alone, Running
  <2> QED
    BY <1>a, <1>1, <1>2, <1>3, <2>1
<1>4. rows'[call[q].entry].status = "WAITING"
  BY <1>a, <1>1, <1>2, <1>3, WhatChangesRows DEF Acting
<1> QED
  BY <1>1, <1>4

-----------------------------------------------------------------------------
(* One request, step by step.                                               *)

(* A step of one request changes nothing that another holds. *)
LEMMA OneActor ==
    ASSUME TypeOK, NEW r \in Slot, Accept(r) \/ Refuse(r) \/ Fail(r) \/ Advance(r),
           NEW q \in Slot, q # r
    PROVE  pc'[q] = pc[q] /\ call'[q] = call[q] /\ loaded'[q] = loaded[q]
<1>a. /\ pc \in [Slot -> Await] /\ call \in [Slot -> Call \union {NoCall}]
      /\ loaded \in [Slot -> Ticket]
  BY DEF TypeOK, RequestTypeOK
<1> DEFINE Untouched == pc'[q] = pc[q] /\ call'[q] = call[q] /\ loaded'[q] = loaded[q]
<1> SUFFICES Untouched
  OBVIOUS
<1>1. ASSUME Finish(r) PROVE Untouched
  BY <1>a, <1>1 DEF Finish, Goto
<1>2. ASSUME NEW await, Goto(r, await), call' = call, loaded' = loaded PROVE Untouched
  BY <1>a, <1>2 DEF Goto
<1>3. CASE Accept(r)
  BY <1>a, <1>3 DEF Accept, Goto
<1>4. CASE RegisterDepth(r) \/ RegisterCount(r) \/ RegisterCreate(r)
  BY <1>a, <1>4 DEF RegisterDepth, RegisterCount, RegisterCreate, Goto
<1>5. CASE Load(r) /\ ~Finish(r)
  BY <1>a, <1>5 DEF Load, Goto
<1>6. CASE ShiftRank(r)
  BY <1>a, <1>6 DEF ShiftRank, Goto
<1> HIDE DEF Untouched
<1>7. CASE Refuse(r) \/ Fail(r) \/ Finish(r)
  BY <1>1, <1>7 DEF Refuse, Fail
<1>8. CASE RegisterCheck(r) \/ RegisterVerify(r) \/ Evict(r) \/ Recalculate(r)
  BY <1>1, <1>2, <1>8 DEF RegisterCheck, RegisterVerify, Evict, Recalculate, localVars
<1>9. CASE RegisterStore(r) \/ RingSave(r) \/ RingEnqueue(r) \/ RecalculatePublish(r)
  BY <1>1, <1>2, <1>9 DEF RegisterStore, RingSave, RingEnqueue, RecalculatePublish, localVars
<1>10. CASE \/ RegisterInsert(r) \/ Occupy(r) \/ CancelRelease(r) \/ CancelUnlink(r)
            \/ RecalculateWrite(r) \/ ShiftBatch(r) \/ CancelAssignments(r) \/ Commit(r)
  BY <1>2, <1>10 DEF RegisterInsert, Occupy, CancelRelease, CancelUnlink,
     RecalculateWrite, ShiftBatch, CancelAssignments, Commit, localVars
<1> QED
  BY <1>3, <1>4, <1>5, <1>6, <1>7, <1>8, <1>9, <1>10 DEF Advance

(* So a request is left alone, ends, arrives or moves on. *)
LEMMA OwnStep ==
    ASSUME TypeOK, [Next]_vars, NEW q \in Slot
    PROVE  \/ pc'[q] = pc[q] /\ call'[q] = call[q] /\ loaded'[q] = loaded[q]
           \/ pc'[q] = "idle"
           \/ Accept(q)
           \/ Advance(q)
<1>1. CASE Expire \/ UNCHANGED vars
  BY <1>1 DEF Expire, vars, localVars
<1>2. CASE Refuse(q) \/ Fail(q)
  BY <1>2 DEF Refuse, Fail, Finish, Goto, TypeOK, RequestTypeOK
<1>3. \/ Expire \/ UNCHANGED vars
      \/ \E r \in Slot : Accept(r) \/ Refuse(r) \/ Fail(r) \/ Advance(r)
  BY DEF Next, Quiet
<1> QED
  BY <1>1, <1>2, <1>3, OneActor

(* Where a request that has written may come from, and who is at the awaits *)
(* of one use case.                                                         *)
LEMMA WhereFrom ==
    ASSUME TypeOK, [Next]_vars, NEW q \in Slot
    PROVE  /\ pc'[q] \in Settling =>
                /\ call'[q] = call[q] /\ loaded'[q] = loaded[q]
                /\ pc[q] \in Settling \/ RegisterInsert(q) \/ Commit(q)
           /\ pc'[q] = "rank" => pc[q] = "rank" \/ Load(q)
           /\ pc'[q] = "store" => pc[q] = "store" \/ RegisterInsert(q)
           /\ pc'[q] = "insert" => pc[q] = "insert" \/ RegisterVerify(q)
           /\ pc'[q] \in {"release", "unlink"} =>
                pc[q] \in {"release", "unlink"} \/ CancelAssignments(q)
<1>a. pc \in [Slot -> Await]
  BY DEF TypeOK, RequestTypeOK
<1> DEFINE Fine == /\ pc'[q] \in Settling =>
                        /\ call'[q] = call[q] /\ loaded'[q] = loaded[q]
                        /\ pc[q] \in Settling \/ RegisterInsert(q) \/ Commit(q)
                   /\ pc'[q] = "rank" => pc[q] = "rank" \/ Load(q)
                   /\ pc'[q] = "store" => pc[q] = "store" \/ RegisterInsert(q)
                   /\ pc'[q] = "insert" => pc[q] = "insert" \/ RegisterVerify(q)
                   /\ pc'[q] \in {"release", "unlink"} =>
                        pc[q] \in {"release", "unlink"} \/ CancelAssignments(q)
<1> SUFFICES Fine
  OBVIOUS
<1>1. CASE pc'[q] = pc[q] /\ call'[q] = call[q] /\ loaded'[q] = loaded[q]
  BY <1>1
<1>2. CASE pc'[q] = "idle"
  BY <1>2 DEF Settling
<1>3. CASE Accept(q)
  <2>1. pc'[q] \in {"check", "load"}
    BY <1>a, <1>3 DEF Accept, Goto
  <2> QED
    BY <2>1 DEF Settling
<1>4. ASSUME NEW await, Goto(q, await) PROVE pc'[q] = await
  BY <1>a, <1>4 DEF Goto
<1>5. ASSUME Finish(q) PROVE pc'[q] = "idle"
  BY <1>4, <1>5 DEF Finish
<1>6. CASE Advance(q)
  <2>1. CASE RegisterDepth(q) \/ RegisterCount(q) \/ RegisterCreate(q)
    <3>1. pc'[q] \in {"count", "create", "verify"}
      BY <1>4, <2>1 DEF RegisterDepth, RegisterCount, RegisterCreate
    <3> QED
      BY <3>1 DEF Settling
  <2>2. CASE Load(q)
    <3>1. AfterLoad(call[q].op) \notin Settling \union {"insert", "store", "release", "unlink"}
      BY DEF AfterLoad, Settling
    <3>2. pc'[q] = "idle" \/ pc'[q] = AfterLoad(call[q].op)
      BY <1>4, <1>5, <2>2 DEF Load
    <3> QED
      BY <2>2, <3>1, <3>2 DEF Settling
  <2>3. CASE \/ RegisterCheck(q) \/ RegisterStore(q) \/ RingSave(q) \/ RingEnqueue(q)
             \/ RecalculatePublish(q)
    <3>1. pc'[q] \in {"idle", "depth", "enqueue"}
      BY <1>4, <1>5, <2>3 DEF RegisterCheck, RegisterStore, RingSave, RingEnqueue,
         RecalculatePublish
    <3> QED
      BY <3>1 DEF Settling
  <2>4. CASE RegisterVerify(q)
    <3>1. pc'[q] \in {"idle", "insert"}
      BY <1>4, <1>5, <2>4 DEF RegisterVerify
    <3> QED
      BY <2>4, <3>1 DEF Settling
  <2>5. CASE Evict(q) \/ Recalculate(q) \/ RecalculateWrite(q)
    <3>1. pc[q] \in Settling
      BY <2>5 DEF Evict, Recalculate, RecalculateWrite, At, Settling
    <3>2. \/ pc'[q] = "idle"
          \/ /\ call' = call /\ loaded' = loaded
             /\ pc'[q] \in {"recalc", "write", "publish"}
      BY <1>4, <1>5, <2>5 DEF Evict, Recalculate, RecalculateWrite, localVars
    <3> QED
      BY <3>1, <3>2 DEF Settling
  <2>6. CASE RegisterInsert(q) \/ Commit(q)
    <3>1. /\ call' = call /\ loaded' = loaded
          /\ RegisterInsert(q) \/ pc'[q] \in {"recalc", "evict"}
          /\ pc'[q] \in {"store", "recalc", "evict"}
      BY <1>4, <2>6 DEF RegisterInsert, Commit, localVars
    <3> QED
      BY <2>6, <3>1
  <2>7. CASE Occupy(q) \/ CancelUnlink(q) \/ ShiftRank(q) \/ ShiftBatch(q)
    <3>1. pc'[q] \in {"commit", "batch"}
      BY <1>4, <2>7 DEF Occupy, CancelUnlink, ShiftRank, ShiftBatch
    <3> QED
      BY <3>1 DEF Settling
  <2>8. CASE CancelAssignments(q)
    <3>1. pc'[q] \in {"commit", "release"}
      BY <1>4, <2>8 DEF CancelAssignments
    <3> QED
      BY <2>8, <3>1 DEF Settling
  <2>9. CASE CancelRelease(q)
    <3>1. pc'[q] = "unlink" /\ pc[q] = "release"
      BY <1>4, <2>9 DEF CancelRelease, At
    <3> QED
      BY <3>1 DEF Settling
  <2> HIDE DEF Fine
  <2> QED
    BY <1>6, <2>1, <2>2, <2>3, <2>4, <2>5, <2>6, <2>7, <2>8, <2>9 DEF Advance
<1> HIDE DEF Fine
<1> QED
  BY <1>1, <1>2, <1>3, <1>6, OwnStep

(* The steps that write a status, a guest, a log or an assignment. *)
LEMMA StoreStep ==
    ASSUME TypeOK, [Next]_vars
    PROVE  \/ /\ \A e \in Entry : /\ rows'[e].status = rows[e].status
                                  /\ rows'[e].guest = rows[e].guest
              /\ history' = history /\ seatings' = seatings
           \/ \E r \in Slot : RegisterInsert(r) \/ Commit(r) \/ RingSave(r) \/ CancelUnlink(r)
<1>a. StoreTypeOK /\ plan \in [Slot -> [Entry -> Nat]]
  BY DEF TypeOK, RequestTypeOK
<1> DEFINE Same == /\ \A e \in Entry : /\ rows'[e].status = rows[e].status
                                       /\ rows'[e].guest = rows[e].guest
                   /\ history' = history /\ seatings' = seatings
<1>1. ASSUME NEW r \in Slot, Accept(r) \/ Refuse(r) \/ Fail(r) PROVE Same
  BY <1>1 DEF Accept, Refuse, Fail, ReadsOnly, storeVars
<1>2. ASSUME Expire \/ UNCHANGED vars PROVE Same
  BY <1>2 DEF Expire, dbVars, vars
<1>3. ASSUME NEW r \in Slot, ShiftBatch(r) \/ RecalculateWrite(r) PROVE Same
  <2>1. /\ rows' = [e \in Entry |-> IF plan[r][e] = NoPosition THEN rows[e]
                                    ELSE [rows[e] EXCEPT !.position = plan[r][e]]]
        /\ UNCHANGED <<history, seatings>>
    BY <1>3 DEF ShiftBatch, RecalculateWrite, BatchUpdatePositions
  <2>2. ASSUME NEW e \in Entry
        PROVE  rows'[e].status = rows[e].status /\ rows'[e].guest = rows[e].guest
    <3>1. rows[e] \in Ticket
      BY <1>a DEF StoreTypeOK
    <3>2. rows'[e] = rows[e] \/ rows'[e] = [rows[e] EXCEPT !.position = plan[r][e]]
      BY <2>1
    <3> QED
      BY <3>1, <3>2 DEF Ticket
  <2> QED
    BY <2>1, <2>2
<1>4. ASSUME NEW r \in Slot,
             \/ RegisterCheck(r) \/ RegisterDepth(r) \/ RegisterCount(r) \/ RegisterVerify(r)
             \/ Load(r) \/ RingEnqueue(r) \/ CancelAssignments(r) \/ ShiftRank(r)
             \/ Recalculate(r)
      PROVE  Same
  BY <1>4 DEF RegisterCheck, RegisterDepth, RegisterCount, RegisterVerify, Load, RingEnqueue,
     CancelAssignments, ShiftRank, Recalculate, ReadsOnly, storeVars
<1>5. ASSUME NEW r \in Slot,
             \/ RegisterCreate(r) \/ RegisterStore(r) \/ Occupy(r) \/ CancelRelease(r)
             \/ Evict(r) \/ RecalculatePublish(r)
      PROVE  Same
  BY <1>5 DEF RegisterCreate, RegisterStore, Occupy, CancelRelease, Evict,
     RecalculatePublish, storeVars, dbVars
<1> HIDE DEF Same
<1>6. \/ Expire \/ UNCHANGED vars
      \/ \E r \in Slot : Accept(r) \/ Refuse(r) \/ Fail(r) \/ Advance(r)
  BY DEF Next, Quiet
<1>7. ASSUME NEW r \in Slot, Advance(r)
      PROVE  Same \/ RegisterInsert(r) \/ Commit(r) \/ RingSave(r) \/ CancelUnlink(r)
  BY <1>3, <1>4, <1>5, <1>7, Zenon DEF Advance
<1>8. Same \/ \E r \in Slot : RegisterInsert(r) \/ Commit(r) \/ RingSave(r) \/ CancelUnlink(r)
  BY <1>1, <1>2, <1>6, <1>7, Zenon
<1> QED
  BY <1>8 DEF Same

(* What those steps do to the row and the log, whoever takes them. *)
LEMMA Writes ==
    ASSUME TypeOK, NEW r \in Slot
    PROVE  /\ RegisterInsert(r) =>
                /\ pc[r] = "insert" /\ pc'[r] = "store"
                /\ rows' = [rows EXCEPT ![call[r].entry] = loaded[r]]
                /\ LogTransition(call[r].entry, "NONE", loaded[r].status)
                /\ seatings' = seatings
           /\ Commit(r) =>
                /\ pc[r] = "commit" /\ pc'[r] \in {"recalc", "evict"}
                /\ rows' = [rows EXCEPT ![call[r].entry] = loaded[r]]
                /\ LogTransition(call[r].entry, previous[r], loaded[r].status)
           /\ RingSave(r) =>
                /\ pc[r] = "save" /\ pc'[r] \in {"idle", "enqueue"}
                /\ rows' = [rows EXCEPT ![call[r].entry] = loaded[r]]
                /\ history' = history /\ seatings' = seatings
           /\ CancelUnlink(r) =>
                /\ pc[r] = "unlink" /\ pc'[r] = "commit"
                /\ rows' = rows /\ history' = history
<1>a. pc \in [Slot -> Await]
  BY DEF TypeOK, RequestTypeOK
<1>1. ASSUME NEW await, Goto(r, await) PROVE pc'[r] = await
  BY <1>a, <1>1 DEF Goto
<1>2. ASSUME RegisterInsert(r)
      PROVE  /\ pc[r] = "insert" /\ pc'[r] = "store"
             /\ rows' = [rows EXCEPT ![call[r].entry] = loaded[r]]
             /\ LogTransition(call[r].entry, "NONE", loaded[r].status)
             /\ seatings' = seatings
  BY <1>1, <1>2 DEF RegisterInsert, CreateWithHistory, At
<1>3. ASSUME Commit(r)
      PROVE  /\ pc[r] = "commit" /\ pc'[r] \in {"recalc", "evict"}
             /\ rows' = [rows EXCEPT ![call[r].entry] = loaded[r]]
             /\ LogTransition(call[r].entry, previous[r], loaded[r].status)
  <2>1. pc'[r] \in {"recalc", "evict"}
    BY <1>1, <1>3 DEF Commit
  <2> QED
    BY <1>3, <2>1 DEF Commit, AssignTablesWithHistory, UpdateStatusWithHistory, At
<1>4. ASSUME RingSave(r)
      PROVE  /\ pc[r] = "save" /\ pc'[r] \in {"idle", "enqueue"}
             /\ rows' = [rows EXCEPT ![call[r].entry] = loaded[r]]
             /\ history' = history /\ seatings' = seatings
  BY <1>1, <1>4 DEF RingSave, SaveEntry, At, Finish
<1>5. ASSUME CancelUnlink(r)
      PROVE  pc[r] = "unlink" /\ pc'[r] = "commit" /\ rows' = rows /\ history' = history
  BY <1>1, <1>5 DEF CancelUnlink, ReleaseTableAssignments, At
<1> QED
  BY <1>2, <1>3, <1>4, <1>5

-----------------------------------------------------------------------------
(* What is validated on arrival stays true of a call, and each use case is  *)
(* at its own awaits.                                                       *)

(* What the validation of the requests lets through. *)
LEMMA RequestsAreValid ==
    ASSUME NEW c \in Requests
    PROVE  /\ c.tables # {} <=> c.op \in {"seat", "assign"}
           /\ c.op = "cancel" => c.status \in {"CANCELLED", "NO_SHOW"}
<1> DEFINE Valid == c.tables # {} <=> c.op \in {"seat", "assign"}
<1> USE DEF Request
<1>1. CASE c \in Request("register", Fresh, Guest, {{}}, {0}, {"WAITING"})
  BY <1>1
<1>2. CASE c \in Request("seat", Created, {NoGuest}, (SUBSET Table) \ {{}}, {0}, {"SEATED"})
  BY <1>2
<1>3. CASE c \in Request("assign", Created, {NoGuest}, (SUBSET Table) \ {{}}, {0}, {"SEATED"})
  BY <1>3
<1>4. CASE c \in Request("skip", Created, {NoGuest}, {{}}, {0}, {"SKIPPED"})
  BY <1>4
<1>5. CASE c \in Request("shift", Created, {NoGuest}, {{}}, 1..MaxShift, {"WAITING"})
  BY <1>5
<1>6. CASE c \in Request("cancel", Created, {NoGuest}, {{}}, {0}, CancelStatus)
  BY <1>6, RequestsAreCalls
<1>7. CASE c \in Request("ring", Created, {NoGuest}, {{}}, {0}, {"WAITING"})
  BY <1>7
<1> QED
  BY <1>1, <1>2, <1>3, <1>4, <1>5, <1>6, <1>7, Zenon DEF Requests

(* A call does not change under way, and stays at awaits of its use case. *)
LEMMA CallsAreValidStep == TypeOK /\ CallsAreValid /\ [Next]_vars => CallsAreValid'
<1> SUFFICES ASSUME TypeOK, CallsAreValid, [Next]_vars, NEW q \in Slot, pc'[q] # "idle"
             PROVE  /\ call'[q].tables # {} <=> call'[q].op \in {"seat", "assign"}
                    /\ call'[q].op = "cancel" => call'[q].status \in {"CANCELLED", "NO_SHOW"}
                    /\ pc'[q] \in Joining \union {"store"} => call'[q].op = "register"
                    /\ pc'[q] = "rank" => call'[q].op = "shift"
  BY DEF CallsAreValid, Running
<1>a. pc \in [Slot -> Await] /\ call \in [Slot -> Call \union {NoCall}]
  BY DEF TypeOK, RequestTypeOK
<1>b. ASSUME NEW await, Goto(q, await) PROVE pc'[q] = await
  BY <1>a, <1>b DEF Goto
<1>1. CASE Accept(q)
  <2>1. PICK c \in Requests : /\ call' = [call EXCEPT ![q] = c]
                             /\ Goto(q, IF c.op = "register" THEN "check" ELSE "load")
    BY <1>1 DEF Accept
  <2>2. call'[q] = c
    BY <1>a, <2>1
  <2>3. CASE c.op = "register"
    <3>1. pc'[q] = "check"
      BY <1>b, <2>1, <2>3
    <3> QED
      BY <2>2, <2>3, <3>1, RequestsAreValid
  <2>4. CASE c.op # "register"
    <3>1. pc'[q] = "load"
      BY <1>b, <2>1, <2>4
    <3> QED
      BY <2>2, <2>4, <3>1, RequestsAreValid DEF Joining
  <2> QED
    BY <2>3, <2>4
<1>2. CASE /\ pc[q] # "idle" /\ call'[q] = call[q]
           /\ pc'[q] \in Joining => pc[q] \in Joining
  <2>1. /\ call[q].tables # {} <=> call[q].op \in {"seat", "assign"}
        /\ call[q].op = "cancel" => call[q].status \in {"CANCELLED", "NO_SHOW"}
        /\ pc[q] \in Joining \union {"store"} => call[q].op = "register"
        /\ pc[q] = "rank" => call[q].op = "shift"
    BY <1>2 DEF CallsAreValid, Running
  <2>2. pc'[q] = "store" => pc[q] \in Joining \union {"store"}
    BY WhereFrom DEF RegisterInsert, At, Joining
  <2>3. ASSUME pc'[q] = "rank" PROVE call[q].op = "shift"
    <3>1. CASE pc[q] = "rank"
      BY <2>1, <3>1
    <3>2. CASE Load(q)
      <4>1. AfterLoad(call[q].op) = "rank"
        BY <1>b, <2>3, <3>2 DEF Load, Finish
      <4> QED
        BY <4>1 DEF AfterLoad
    <3> QED
      BY <2>3, <3>1, <3>2, WhereFrom
  <2> QED
    BY <1>2, <2>1, <2>2, <2>3
<1>3. CASE \E r \in Slot : Accept(r) /\ r # q
  BY <1>a, <1>2, <1>3 DEF Accept, Goto
<1> QED
  BY <1>1, <1>2, <1>3, RequestsMove

(* An acting request was already acting, or has just loaded its ticket; its *)
(* call is the same.                                                        *)
LEMMA ActingFrom ==
    ASSUME TypeOK, [Next]_vars, NEW q \in Slot, pc'[q] \in Acting
    PROVE  /\ call'[q] = call[q] /\ pc[q] # "idle"
           /\ \/ pc[q] \in Acting /\ loaded'[q] = loaded[q]
              \/ ShiftRank(q)
              \/ /\ Load(q) /\ rows' = rows
                 /\ loaded'[q] = Transform(call[q], rows[call[q].entry])
                 /\ Permitted(call[q], rows[call[q].entry])
<1>a. pc \in [Slot -> Await] /\ call \in [Slot -> Call \union {NoCall}]
      /\ loaded \in [Slot -> Ticket]
  BY DEF TypeOK, RequestTypeOK
<1>1. pc[q] # "idle" /\ call'[q] = call[q]
  <2>1. pc'[q] \notin {"idle", "check", "load"}
    BY DEF Acting
  <2>2. CASE \E r \in Slot : Accept(r)
    <3>1. PICK r \in Slot : Accept(r)
      BY <2>2
    <3>2. r # q
      BY <1>a, <2>1, <3>1 DEF Accept, Goto
    <3> QED
      BY <1>a, <2>1, <3>1, <3>2 DEF Accept, Goto
  <2> QED
    BY <2>1, <2>2, RequestsMove
<1>2. CASE Load(q)
  <2>1. ~Finish(q)
    BY <1>a DEF Finish, Goto, Acting
  <2> QED
    BY <1>a, <1>1, <1>2, <2>1 DEF Load, ReadsOnly, storeVars
<1>3. ~RegisterDepth(q) /\ ~RegisterCount(q) /\ ~RegisterCreate(q)
  BY <1>a DEF RegisterDepth, RegisterCount, RegisterCreate, Goto, Acting
<1>4. pc'[q] # "insert"
  BY DEF Acting
<1> QED
  BY <1>1, <1>2, <1>3, <1>4, CopiesChange

(* The copy a use case saves has a status it may lead to. *)
LEMMA CopyIsOutcomeStep ==
    ASSUME TypeOK, CopyWasWaiting, CallsAreValid, CopyIsOutcome, [Next]_vars
    PROVE  CopyIsOutcome'
<1> SUFFICES ASSUME NEW q \in Slot, pc'[q] \in Acting
             PROVE  loaded'[q].status \in Outcomes(call'[q])
  BY DEF CopyIsOutcome
<1>a. /\ loaded \in [Slot -> Ticket] /\ rows \in [Entry -> Ticket]
      /\ pc[q] # "idle" => call[q] \in Call
  BY DEF TypeOK, RequestTypeOK, StoreTypeOK
<1>b. call'[q] = call[q] /\ call[q] \in Call
  BY <1>a, ActingFrom
<1>1. CASE pc[q] \in Acting /\ loaded'[q] = loaded[q]
  BY <1>b, <1>1 DEF CopyIsOutcome
<1>2. CASE ShiftRank(q)
  <2>1. pc[q] = "rank" /\ call[q].op = "shift" /\ loaded[q].status \in {"WAITING", "SKIPPED"}
    <3>1. pc[q] = "rank" /\ pc[q] # "idle" /\ pc[q] \in Acting
      BY <1>2 DEF ShiftRank, At, Acting
    <3> QED
      BY <3>1 DEF CallsAreValid, Running, CopyIsOutcome, Outcomes
  <2>2. loaded'[q].status \in {loaded[q].status, "SKIPPED"}
    <3>1. PICK target : \/ loaded' = [loaded EXCEPT ![q] = UpdatePosition(loaded[q], target)]
                        \/ loaded' = [loaded EXCEPT ![q] = SkipTicket(loaded[q])]
      BY <1>2 DEF ShiftRank
    <3>2. loaded[q] \in Ticket
      BY <1>a
    <3>3. SkipTicket(loaded[q]).status = "SKIPPED"
      BY <3>2 DEF SkipTicket, Ticket
    <3>4. UpdatePosition(loaded[q], target).status = loaded[q].status
      BY <3>2 DEF UpdatePosition, Ticket
    <3> QED
      BY <1>a, <3>1, <3>3, <3>4
  <2> QED
    BY <1>b, <2>1, <2>2 DEF Outcomes
<1>3. CASE /\ loaded'[q] = Transform(call[q], rows[call[q].entry])
           /\ Permitted(call[q], rows[call[q].entry])
  <2>1. PICK ticket \in Ticket : ticket = rows[call[q].entry]
    BY <1>a, <1>b DEF Call
  <2>2. ticket.status = "WAITING"
    BY <1>3, <2>1 DEF Permitted, CanRing, IsWaiting
  <2>3. Transform(call[q], ticket).status \in Outcomes(call[q])
    <3>1. CASE call[q].op \in {"seat", "assign"}
      BY <3>1 DEF Transform, Outcomes, SeatTicket, Ticket
    <3>2. CASE call[q].op = "skip"
      BY <3>2 DEF Transform, Outcomes, SkipTicket, Ticket
    <3>3. CASE call[q].op = "cancel"
      <4>1. call[q].status \in {"CANCELLED", "NO_SHOW"}
        BY <3>3, ActingFrom DEF CallsAreValid, Running
      <4> QED
        BY <3>3, <4>1 DEF Transform, Outcomes, CancelTicket, Ticket
    <3>4. CASE call[q].op = "ring"
      BY <2>2, <3>4 DEF Transform, Outcomes, RingTicket, Ticket
    <3>5. CASE call[q].op \notin {"seat", "assign", "skip", "cancel", "ring"}
      BY <2>2, <3>5 DEF Transform, Outcomes
    <3> QED
      BY <3>1, <3>2, <3>3, <3>4, <3>5
  <2> QED
    BY <1>3, <1>b, <2>1, <2>3
<1> QED
  BY <1>1, <1>2, <1>3, ActingFrom

-----------------------------------------------------------------------------
(* Exclusive clients: the row of a ticket is its one request's to write.    *)

(* While a request is under way its row changes by its own write only. *)
LEMMA RowOfRequest ==
    ASSUME TypeOK, Alone, [Next]_vars, NEW q \in Slot, pc[q] # "idle"
    PROVE  \/ /\ rows'[call[q].entry].status = rows[call[q].entry].status
              /\ rows'[call[q].entry].guest = rows[call[q].entry].guest
           \/ /\ pc[q] \in {"insert", "commit", "save"}
              /\ pc'[q] \in {"store", "recalc", "evict", "idle", "enqueue"}
              /\ rows'[call[q].entry] = loaded[q]
<1>a. /\ rows \in [Entry -> Ticket]
      /\ \A r \in Slot : pc[r] # "idle" => call[r].entry \in Entry
  BY DEF TypeOK, StoreTypeOK, RequestTypeOK, Call
<1>1. CASE \A e \in Entry : rows'[e].status = rows[e].status /\ rows'[e].guest = rows[e].guest
  BY <1>a, <1>1
<1>2. ASSUME NEW r \in Slot, pc[r] \in {"insert", "commit", "save"},
             pc'[r] \in {"store", "recalc", "evict", "idle", "enqueue"},
             rows' = [rows EXCEPT ![call[r].entry] = loaded[r]]
      PROVE  \/ rows'[call[q].entry] = rows[call[q].entry]
             \/ r = q /\ rows'[call[q].entry] = loaded[q]
  <2>1. call[r].entry = call[q].entry => r = q
    BY <1>2 DEF Alone, Running
  <2> QED
    BY <1>a, <1>2, <2>1
<1>3. ASSUME NEW r \in Slot, RegisterInsert(r) \/ Commit(r) \/ RingSave(r)
      PROVE  /\ pc[r] \in {"insert", "commit", "save"}
             /\ pc'[r] \in {"store", "recalc", "evict", "idle", "enqueue"}
             /\ rows' = [rows EXCEPT ![call[r].entry] = loaded[r]]
  BY <1>3, Writes
<1>4. ASSUME NEW r \in Slot, CancelUnlink(r) PROVE rows' = rows
  BY <1>4, Writes
<1> QED
  BY <1>1, <1>2, <1>3, <1>4, StoreStep

(* What a request has written is there until it is done. *)
LEMMA WrittenStaysStep ==
    ASSUME TypeOK, Alone, WrittenStays, [Next]_vars
    PROVE  WrittenStays'
<1> SUFFICES ASSUME NEW q \in Slot, pc'[q] \in Settling
             PROVE  loaded'[q].status = rows'[call'[q].entry].status
  BY DEF WrittenStays
<1>a. /\ rows \in [Entry -> Ticket]
      /\ \A r \in Slot : pc[r] # "idle" => call[r].entry \in Entry
  BY DEF TypeOK, StoreTypeOK, RequestTypeOK, Call
<1>1. call'[q] = call[q] /\ loaded'[q] = loaded[q]
  BY WhereFrom
<1>2. CASE pc[q] \in Settling
  <2>1. pc[q] # "idle" /\ pc[q] \notin {"insert", "commit", "save"}
    BY <1>2 DEF Settling
  <2>2. rows'[call[q].entry].status = rows[call[q].entry].status
    BY <2>1, RowOfRequest
  <2> QED
    BY <1>1, <1>2, <2>2 DEF WrittenStays
<1>3. CASE RegisterInsert(q) \/ Commit(q)
  <2>1. pc[q] # "idle" /\ rows' = [rows EXCEPT ![call[q].entry] = loaded[q]]
    BY <1>3, Writes
  <2> QED
    BY <1>a, <1>1, <2>1
<1> QED
  BY <1>2, <1>3, WhereFrom

(* No use case changes whose ticket it is. *)
LEMMA TransformKeepsGuest ==
    ASSUME NEW ticket \in Ticket, NEW c
    PROVE  Transform(c, ticket).guest = ticket.guest
<1>1. /\ SeatTicket(ticket).guest = ticket.guest
      /\ SkipTicket(ticket).guest = ticket.guest
      /\ CancelTicket(ticket, c.status).guest = ticket.guest
      /\ RingTicket(ticket).guest = ticket.guest
  BY DEF Ticket, SeatTicket, SkipTicket, CancelTicket, RingTicket
<1> QED
  BY <1>1 DEF Transform

(* Nobody rewrites who a ticket belongs to. *)
LEMMA CopyKeepsGuestStep ==
    ASSUME TypeOK, Alone, CopyKeepsGuest, [Next]_vars
    PROVE  CopyKeepsGuest'
<1>a. /\ rows \in [Entry -> Ticket] /\ loaded \in [Slot -> Ticket] /\ pc \in [Slot -> Await]
      /\ \A r \in Slot : pc[r] # "idle" => call[r].entry \in Entry
  BY DEF TypeOK, StoreTypeOK, RequestTypeOK, Call
<1>1. ASSUME NEW q \in Slot, pc'[q] \in {"verify", "insert"}
      PROVE  loaded'[q].guest = call'[q].guest
  <2>1. CASE pc'[q] = pc[q] /\ call'[q] = call[q] /\ loaded'[q] = loaded[q]
    BY <1>1, <2>1 DEF CopyKeepsGuest
  <2>2. CASE RegisterCreate(q)
    BY <1>a, <2>2 DEF RegisterCreate, CreateTicket
  <2>3. CASE RegisterVerify(q)
    <3>1. pc[q] = "verify" /\ (pc'[q] = "idle" \/ UNCHANGED localVars)
      BY <1>a, <2>3 DEF RegisterVerify, At, Finish, Goto
    <3> QED
      BY <1>1, <3>1 DEF localVars, CopyKeepsGuest
  <2>4. CASE pc'[q] # pc[q] /\ ~RegisterCreate(q) /\ ~RegisterVerify(q)
    <3>1. \/ RegisterDepth(q) \/ RegisterCount(q) \/ Load(q) \/ ShiftRank(q)
      BY <1>1, <2>4, WhereFrom, CopiesChange DEF Acting
    <3>2. pc'[q] \in {"count", "create", "idle", "batch", "commit"}
             \union {"occupy", "commit", "rank", "assignments", "save"}
      <4>1. AfterLoad(call[q].op) \in {"occupy", "commit", "rank", "assignments", "save"}
        BY DEF AfterLoad
      <4> QED
        BY <1>a, <3>1, <4>1 DEF RegisterDepth, RegisterCount, Load, ShiftRank, Finish, Goto
    <3> QED
      BY <1>1, <3>2
  <2>5. CASE pc'[q] = pc[q] /\ (Accept(q) \/ Advance(q))
    <3>1. ~Accept(q)
      BY <1>a, <1>1 DEF Accept, Goto
    <3>2. RegisterVerify(q) \/ RegisterInsert(q)
      BY <1>1, <2>5, <3>1 DEF Advance, At, RegisterCheck, RegisterDepth, RegisterCount,
         RegisterCreate, RegisterStore, Load, RingSave, RingEnqueue, Occupy,
         CancelAssignments, CancelRelease, CancelUnlink, ShiftRank, ShiftBatch, Commit,
         Evict, Recalculate, RecalculateWrite, RecalculatePublish
    <3>3. ~RegisterInsert(q)
      BY <1>1, Writes
    <3> QED
      BY <2>3, <3>2, <3>3
  <2> QED
    BY <1>1, <2>1, <2>2, <2>3, <2>4, <2>5, OwnStep
<1>2. ASSUME NEW q \in Slot, pc'[q] \in Acting
      PROVE  loaded'[q].guest = rows'[call'[q].entry].guest
  <2>1. call'[q] = call[q] /\ pc[q] # "idle"
    BY <1>2, ActingFrom
  <2>2. CASE pc[q] \in Acting
    <3>1. rows'[call[q].entry].guest = rows[call[q].entry].guest
      BY <1>2, <2>1, RowOfRequest DEF Acting
    <3>2. loaded'[q].guest = loaded[q].guest
      <4>1. CASE loaded'[q] = loaded[q]
        BY <4>1
      <4>2. CASE ShiftRank(q)
        <5>1. PICK target : \/ loaded' = [loaded EXCEPT ![q] = UpdatePosition(loaded[q], target)]
                            \/ loaded' = [loaded EXCEPT ![q] = SkipTicket(loaded[q])]
          BY <4>2 DEF ShiftRank
        <5>2. loaded[q] \in Ticket
          BY <1>a
        <5>3. /\ SkipTicket(loaded[q]).guest = loaded[q].guest
              /\ UpdatePosition(loaded[q], target).guest = loaded[q].guest
          BY <5>2 DEF SkipTicket, UpdatePosition, Ticket
        <5> QED
          BY <1>a, <5>1, <5>3
      <4>3. ~Load(q)
        BY <2>2 DEF Load, At, Acting
      <4> QED
        BY <1>2, <4>1, <4>2, <4>3, ActingFrom
    <3> QED
      BY <2>1, <2>2, <3>1, <3>2 DEF CopyKeepsGuest
  <2>3. CASE rows' = rows /\ loaded'[q] = Transform(call[q], rows[call[q].entry])
    BY <1>a, <2>1, <2>3, TransformKeepsGuest
  <2>4. ShiftRank(q) => pc[q] \in Acting
    BY DEF ShiftRank, At, Acting
  <2> QED
    BY <1>2, <2>2, <2>3, <2>4, ActingFrom
<1> QED
  BY <1>1, <1>2 DEF CopyKeepsGuest

-----------------------------------------------------------------------------
(* The invariant behind exclusive clients. *)
ExclusiveInvariant ==
    /\ TypeOK /\ CopyWasWaiting /\ RowsHaveLogs /\ Alone /\ ActingOnWaiting
    /\ CallsAreValid /\ CopyIsOutcome /\ WrittenStays /\ CopyKeepsGuest

(* The parts of the invariant hold together. *)
LEMMA ExclusiveInvariantHolds ==
    ASSUME Apart PROVE Spec => []ExclusiveInvariant
<1>1. Init => ExclusiveInvariant
  <2> SUFFICES ASSUME Init PROVE ExclusiveInvariant
    OBVIOUS
  <2>1. \A r \in Slot : pc[r] = "idle"
    BY DEF Init
  <2>2. CopyWasWaiting /\ Alone /\ ActingOnWaiting
    BY <2>1 DEF CopyWasWaiting, Alone, ActingOnWaiting, Acting, Running
  <2>3. CallsAreValid /\ CopyIsOutcome
    BY <2>1 DEF CallsAreValid, CopyIsOutcome, Running, Acting
  <2>4. WrittenStays /\ CopyKeepsGuest
    BY <2>1 DEF WrittenStays, CopyKeepsGuest, Acting, Settling
  <2> QED
    BY <2>2, <2>3, <2>4, TypeInit, AuditInit DEF ExclusiveInvariant
<1>2. ExclusiveInvariant /\ [Next]_vars => ExclusiveInvariant'
  BY TypeStep, CopyWasWaitingStep, RowsHaveLogsStep, AloneStep, ActingOnWaitingStep,
     CallsAreValidStep, CopyIsOutcomeStep, WrittenStaysStep, CopyKeepsGuestStep
  DEF ExclusiveInvariant
<1> QED
  BY <1>1, <1>2, PTL DEF Spec

(* A ticket that has ended keeps its status. *)
LEMMA TerminalStep ==
    ASSUME ExclusiveInvariant, [Next]_vars, NEW e \in Entry, rows[e].status \in Terminal
    PROVE  rows'[e].status = rows[e].status
<1>1. rows \in [Entry -> Ticket] /\ e \in Created /\ rows[e].status # "WAITING"
  BY DEF ExclusiveInvariant, TypeOK, StoreTypeOK, Created, Terminal
<1>2. ASSUME NEW r \in Slot, pc[r] \in {"insert", "commit", "save"} PROVE call[r].entry # e
  BY <1>1, <1>2 DEF ExclusiveInvariant, RowsHaveLogs, ActingOnWaiting, Joining, Acting
<1> QED
  BY <1>1, <1>2, WhatChangesRows DEF ExclusiveInvariant

(* If clients wait for the answer about a ticket before they ask again, a    *)
(* ticket that was seated, skipped or cancelled never changes its status:    *)
(* neither the position batches and recalculations of other requests nor     *)
(* requests that died half way bring it back into the queue.                 *)
THEOREM TerminalIsFinalHolds ==
    ASSUME Apart PROVE Spec => TerminalIsFinal
<1>1. ExclusiveInvariant /\ [Next]_vars =>
        [\A e \in Entry : rows[e].status \in Terminal => rows'[e].status = rows[e].status]_vars
  BY TerminalStep
<1> QED
  BY <1>1, ExclusiveInvariantHolds, PTL DEF Spec, TerminalIsFinal

-----------------------------------------------------------------------------
(* Exclusive clients: no update is lost.                                    *)

(* Two tickets have the same body when all but their positions agrees. *)
LEMMA BodyIsAllBut ==
    ASSUME NEW a \in Ticket, NEW b \in Ticket
    PROVE  Body(a) = Body(b) <=> /\ a.status = b.status /\ a.ringCount = b.ringCount
                                 /\ a.guest = b.guest /\ a.joinedAt = b.joinedAt
                                 /\ a.number = b.number
<1> DEFINE Known(t) == [status |-> t.status, position |-> NoPosition, ringCount |-> t.ringCount,
                        guest |-> t.guest, joinedAt |-> t.joinedAt, number |-> t.number]
<1>1. Body(a) = Known(a) /\ Body(b) = Known(b)
  BY DEF Body, Ticket
<1> QED
  BY <1>1

(* What a use case makes of a ticket is a ticket, and its position makes no  *)
(* difference to the rest.                                                  *)
LEMMA TransformOfBody ==
    ASSUME NEW c \in Call, NEW a \in Ticket, NEW b \in Ticket, Body(a) = Body(b)
    PROVE  Body(Transform(c, a)) = Body(Transform(c, b))
<1>1. Transform(c, a) \in Ticket /\ Transform(c, b) \in Ticket
  BY TicketOperators
<1>2. /\ a.status = b.status /\ a.ringCount = b.ringCount
      /\ a.guest = b.guest /\ a.joinedAt = b.joinedAt /\ a.number = b.number
  BY BodyIsAllBut
<1>3. \A t \in {a, b} :
        /\ SeatTicket(t).status = "SEATED" /\ SeatTicket(t).ringCount = t.ringCount
        /\ SeatTicket(t).guest = t.guest /\ SeatTicket(t).joinedAt = t.joinedAt
        /\ SeatTicket(t).number = t.number
        /\ SkipTicket(t).status = "SKIPPED" /\ SkipTicket(t).ringCount = t.ringCount
        /\ SkipTicket(t).guest = t.guest /\ SkipTicket(t).joinedAt = t.joinedAt
        /\ SkipTicket(t).number = t.number
  BY DEF SeatTicket, SkipTicket, Ticket
<1>4. \A t \in {a, b} :
        /\ CancelTicket(t, c.status).status = c.status
        /\ CancelTicket(t, c.status).ringCount = t.ringCount
        /\ CancelTicket(t, c.status).guest = t.guest
        /\ CancelTicket(t, c.status).joinedAt = t.joinedAt
        /\ CancelTicket(t, c.status).number = t.number
        /\ RingTicket(t).status = t.status /\ RingTicket(t).ringCount = t.ringCount + 1
        /\ RingTicket(t).guest = t.guest /\ RingTicket(t).joinedAt = t.joinedAt
        /\ RingTicket(t).number = t.number
  BY DEF CancelTicket, RingTicket, Ticket
<1>5. /\ Transform(c, a).status = Transform(c, b).status
      /\ Transform(c, a).ringCount = Transform(c, b).ringCount
      /\ Transform(c, a).guest = Transform(c, b).guest
      /\ Transform(c, a).joinedAt = Transform(c, b).joinedAt
      /\ Transform(c, a).number = Transform(c, b).number
  BY <1>2, <1>3, <1>4 DEF Transform
<1> QED
  BY <1>1, <1>5, BodyIsAllBut

(* All but the position of a row is written by register's insert, the commit *)
(* of a transition and the save of ring, each with the copy it holds.       *)
LEMMA WhoWritesBodies ==
    ASSUME TypeOK, [Next]_vars, NEW e \in Entry
    PROVE  \/ Body(rows'[e]) = Body(rows[e])
           \/ \E r \in Slot : /\ pc[r] \in {"insert", "commit", "save"} /\ call[r].entry = e
                              /\ pc'[r] \in {"store", "recalc", "evict", "idle", "enqueue"}
                              /\ rows'[e] = loaded[r]
<1>a. rows \in [Entry -> Ticket] /\ plan \in [Slot -> [Entry -> Nat]]
  BY DEF TypeOK, StoreTypeOK, RequestTypeOK
<1>1. CASE rows' = rows
  BY <1>1
<1>2. ASSUME NEW r \in Slot, BatchUpdatePositions(plan[r])
      PROVE  Body(rows'[e]) = Body(rows[e])
  <2>1. rows'[e] = rows[e] \/ rows'[e] = [rows[e] EXCEPT !.position = plan[r][e]]
    BY <1>2 DEF BatchUpdatePositions
  <2>2. rows[e] \in Ticket /\ plan[r][e] \in Nat
    BY <1>a
  <2> QED
    BY <2>1, <2>2 DEF Body, Ticket
<1>3. ASSUME NEW r \in Slot, rows' = [rows EXCEPT ![call[r].entry] = loaded[r]]
      PROVE  rows'[e] = rows[e] \/ (call[r].entry = e /\ rows'[e] = loaded[r])
  BY <1>a, <1>3
<1> QED
  BY <1>1, <1>2, <1>3, WhatChangesRows

(* The copy of a request that acts on a ticket is, but for its position,     *)
(* what its use case would make of the row as it is by now.                 *)
CopyIsCurrent ==
    \A r \in Slot : pc[r] \in Acting =>
        Body(loaded[r]) = Body(Transform(call[r], rows[call[r].entry]))

(* Nobody else writes the body of a ticket between its load and its commit. *)
LEMMA CopyIsCurrentStep ==
    ASSUME ExclusiveInvariant, CopyIsCurrent, [Next]_vars
    PROVE  CopyIsCurrent'
<1>a. /\ rows \in [Entry -> Ticket] /\ rows' \in [Entry -> Ticket] /\ loaded \in [Slot -> Ticket]
      /\ \A r \in Slot : pc[r] # "idle" => call[r] \in Call /\ call[r].entry \in Entry
  BY TypeStep DEF ExclusiveInvariant, TypeOK, StoreTypeOK, RequestTypeOK, Call
<1> SUFFICES ASSUME NEW q \in Slot, pc'[q] \in Acting
             PROVE  Body(loaded'[q]) = Body(Transform(call'[q], rows'[call'[q].entry]))
  BY DEF CopyIsCurrent
<1>1. call'[q] = call[q] /\ pc[q] # "idle"
  BY ActingFrom DEF ExclusiveInvariant
<1>2. CASE pc[q] \in Acting
  <2>1. Body(rows'[call[q].entry]) = Body(rows[call[q].entry])
    <3>1. ASSUME NEW r \in Slot, pc[r] \in {"insert", "commit", "save"},
                 call[r].entry = call[q].entry
          PROVE  r = q
      BY <1>1, <3>1 DEF ExclusiveInvariant, Alone, Running
    <3>2. pc'[q] \notin {"store", "recalc", "evict", "idle", "enqueue"}
      BY DEF Acting
    <3> QED
      BY <1>a, <1>1, <3>1, <3>2, WhoWritesBodies DEF ExclusiveInvariant
  <2>2. Body(loaded'[q]) = Body(loaded[q])
    <3>1. CASE loaded'[q] = loaded[q]
      BY <3>1
    <3>2. CASE ShiftRank(q)
      <4>1. rows[call[q].entry].status = "WAITING"
        BY <1>2 DEF ExclusiveInvariant, ActingOnWaiting
      <4>2. call[q].entry \in Active
        BY <1>a, <1>1, <4>1 DEF Active, IsWaiting
      <4>3. PICK target : loaded' = [loaded EXCEPT ![q] = UpdatePosition(loaded[q], target)]
        BY <3>2, <4>2 DEF ShiftRank
      <4>4. loaded[q] \in Ticket /\ loaded'[q] = UpdatePosition(loaded[q], target)
        BY <1>a, <4>3
      <4> QED
        BY <4>4 DEF UpdatePosition, Body, Ticket
    <3>3. ~Load(q)
      BY <1>2 DEF Load, At, Acting
    <3> QED
      BY <3>1, <3>2, <3>3, ActingFrom DEF ExclusiveInvariant
  <2>3. Body(Transform(call[q], rows'[call[q].entry]))
            = Body(Transform(call[q], rows[call[q].entry]))
    BY <1>a, <1>1, <2>1, TransformOfBody
  <2> QED
    BY <1>1, <1>2, <2>2, <2>3 DEF CopyIsCurrent
<1>3. CASE pc[q] \notin Acting
  <2>1. ~ShiftRank(q)
    BY <1>3 DEF ShiftRank, At, Acting
  <2>2. rows' = rows /\ loaded'[q] = Transform(call[q], rows[call[q].entry])
    BY <1>3, <2>1, ActingFrom DEF ExclusiveInvariant
  <2> QED
    BY <1>1, <2>2
<1> QED
  BY <1>2, <1>3

(* If clients wait for the answer about a ticket before they ask again, no   *)
(* use case overwrites with its copy what another request did to a ticket:  *)
(* whatever batches and recalculations of other tickets' requests did to    *)
(* the row since it was loaded, and whatever failed half way.               *)
THEOREM NoLostUpdatesHolds ==
    ASSUME Apart PROVE Spec => NoLostUpdates
<1>1. Init => CopyIsCurrent
  BY DEF Init, CopyIsCurrent, Acting
<1>2. ExclusiveInvariant /\ CopyIsCurrent /\ [Next]_vars => CopyIsCurrent'
  BY CopyIsCurrentStep
<1>3. ASSUME ExclusiveInvariant, CopyIsCurrent, [Next]_vars, NEW e \in Created
      PROVE  NothingIsLost(e)
  <2>1. e \in Entry /\ TypeOK
    BY <1>3 DEF Created, ExclusiveInvariant
  <2>2. CASE Body(rows'[e]) = Body(rows[e])
    BY <2>2 DEF NothingIsLost
  <2>3. ASSUME NEW r \in Slot, pc[r] \in {"insert", "commit", "save"}, call[r].entry = e,
               rows'[e] = loaded[r]
        PROVE  NothingIsLost(e)
    <3>1. pc[r] # "insert"
      BY <1>3, <2>3 DEF ExclusiveInvariant, RowsHaveLogs, Joining
    <3>2. r \in Running /\ pc[r] \in Acting
      BY <2>3, <3>1 DEF Running, Acting
    <3>3. Body(loaded[r]) = Body(Transform(call[r], rows[e]))
      BY <1>3, <2>3, <3>2 DEF CopyIsCurrent
    <3> QED
      BY <2>3, <3>2, <3>3 DEF NothingIsLost
  <2> QED
    BY <1>3, <2>1, <2>2, <2>3, WhoWritesBodies
<1>4. ExclusiveInvariant /\ CopyIsCurrent /\ [Next]_vars =>
        [\A e \in Created : NothingIsLost(e)]_vars
  BY <1>3
<1> QED
  BY <1>1, <1>2, <1>4, ExclusiveInvariantHolds, PTL DEF Spec, NoLostUpdates

-----------------------------------------------------------------------------
(* Exclusive clients: what a step may do to one ticket.  Nothing; it joins;  *)
(* or its use case commits, which found it waiting.                         *)
Untouched(e) ==
    /\ rows'[e].status = rows[e].status /\ rows'[e].guest = rows[e].guest
    /\ history'[e] = history[e] /\ seatings'[e] = seatings[e]

Joins(r, e) ==
    /\ RegisterInsert(r) /\ call[r].entry = e
    /\ rows[e].status = "ABSENT" /\ history[e] = <<>>
    /\ rows'[e] = loaded[r] /\ loaded[r].status = "WAITING"
    /\ history'[e] = Append(<<>>, [previous |-> "NONE", current |-> "WAITING"])
    /\ seatings'[e] = seatings[e]

Commits(r, e) ==
    /\ Commit(r) /\ call[r].entry = e
    /\ rows[e].status = "WAITING" /\ loaded[r].status \in Outcomes(call[r])
    /\ rows'[e] = loaded[r] /\ loaded[r].guest = rows[e].guest
    /\ history'[e] = Append(history[e], [previous |-> "WAITING",
                                         current |-> loaded[r].status])
    /\ seatings'[e] =
           IF call[r].op \in {"seat", "assign"}
           THEN [t \in Table |-> seatings[e][t] + (IF t \in call[r].tables THEN 1 ELSE 0)]
           ELSE seatings[e]

(* A step leaves a ticket alone, inserts it, or commits one outcome. *)
LEMMA TicketMoves ==
    ASSUME ExclusiveInvariant, NothingToRelease, [Next]_vars, NEW e \in Entry
    PROVE  Untouched(e) \/ \E r \in Slot : Joins(r, e) \/ Commits(r, e)
<1>a. /\ rows \in [Entry -> Ticket] /\ history \in [Entry -> Seq(Transition)]
      /\ seatings \in [Entry -> [Table -> Nat]]
      /\ \A r \in Slot : pc[r] # "idle" => call[r].entry \in Entry
  BY DEF ExclusiveInvariant, TypeOK, StoreTypeOK, RequestTypeOK, Call
<1>1. ASSUME NEW r \in Slot, RegisterInsert(r) PROVE Untouched(e) \/ Joins(r, e)
  <2>1. /\ pc[r] = "insert" /\ rows' = [rows EXCEPT ![call[r].entry] = loaded[r]]
        /\ LogTransition(call[r].entry, "NONE", loaded[r].status) /\ seatings' = seatings
    BY <1>1, Writes DEF ExclusiveInvariant
  <2>2. loaded[r].status = "WAITING"
    BY <2>1 DEF ExclusiveInvariant, CopyWasWaiting
  <2>3. /\ call[r].entry \in Entry /\ rows[call[r].entry].status = "ABSENT"
        /\ history[call[r].entry] = <<>>
    BY <1>a, <2>1 DEF ExclusiveInvariant, RowsHaveLogs, Joining, Created
  <2>4. CASE call[r].entry = e
    BY <1>a, <1>1, <2>1, <2>2, <2>3, <2>4 DEF LogTransition, Joins
  <2>5. CASE call[r].entry # e
    BY <1>a, <2>1, <2>5 DEF LogTransition, Untouched
  <2> QED
    BY <2>4, <2>5
<1>2. ASSUME NEW r \in Slot, Commit(r) PROVE Untouched(e) \/ Commits(r, e)
  <2>1. /\ pc[r] = "commit" /\ rows' = [rows EXCEPT ![call[r].entry] = loaded[r]]
        /\ LogTransition(call[r].entry, previous[r], loaded[r].status)
        /\ call[r].entry \in Entry
    BY <1>a, <1>2, Writes DEF ExclusiveInvariant
  <2>2. pc[r] \in Acting
    BY <2>1 DEF Acting
  <2>3. /\ previous[r] = "WAITING" /\ rows[call[r].entry].status = "WAITING"
        /\ loaded[r].status \in Outcomes(call[r])
        /\ loaded[r].guest = rows[call[r].entry].guest
    BY <2>2 DEF ExclusiveInvariant, CopyWasWaiting, ActingOnWaiting, CopyIsOutcome,
       CopyKeepsGuest
  <2>4. seatings' = IF call[r].op \in {"seat", "assign"}
                    THEN [seatings EXCEPT ![call[r].entry] =
                            [t \in Table |-> @[t] + (IF t \in call[r].tables THEN 1 ELSE 0)]]
                    ELSE seatings
    BY <1>2 DEF Commit, AssignTablesWithHistory, UpdateStatusWithHistory
  <2>5. CASE call[r].entry = e
    BY <1>a, <1>2, <2>1, <2>3, <2>4, <2>5 DEF LogTransition, Commits
  <2>6. CASE call[r].entry # e
    BY <1>a, <2>1, <2>4, <2>6 DEF LogTransition, Untouched
  <2> QED
    BY <2>5, <2>6
<1>3. ASSUME NEW r \in Slot, RingSave(r) PROVE Untouched(e)
  <2>1. /\ pc[r] = "save" /\ rows' = [rows EXCEPT ![call[r].entry] = loaded[r]]
        /\ history' = history /\ seatings' = seatings /\ call[r].entry \in Entry
    BY <1>a, <1>3, Writes DEF ExclusiveInvariant
  <2>2. /\ loaded[r].status = "WAITING" /\ rows[call[r].entry].status = "WAITING"
        /\ loaded[r].guest = rows[call[r].entry].guest
    BY <2>1 DEF ExclusiveInvariant, CopyWasWaiting, ActingOnWaiting, CopyKeepsGuest, Acting
  <2> QED
    BY <1>a, <2>1, <2>2 DEF Untouched
<1>4. ASSUME NEW r \in Slot PROVE ~CancelUnlink(r)
  BY Writes DEF ExclusiveInvariant, NothingToRelease
<1>5. ASSUME \A f \in Entry : rows'[f].status = rows[f].status /\ rows'[f].guest = rows[f].guest,
             history' = history, seatings' = seatings
      PROVE  Untouched(e)
  BY <1>5 DEF Untouched
<1>6. TypeOK
  BY DEF ExclusiveInvariant
<1>7. Untouched(e) \/ \E r \in Slot : RegisterInsert(r) \/ Commit(r) \/ RingSave(r)
  BY <1>4, <1>5, <1>6, StoreStep
<1> QED
  BY <1>1, <1>2, <1>3, <1>7

-----------------------------------------------------------------------------
(* Tables in the database. *)

(* The tables of a ticket are booked with the commit that seats it. *)
LEMMA SeatedHoldsTablesStep ==
    ASSUME ExclusiveInvariant, NothingToRelease, SeatedHoldsTables, [Next]_vars
    PROVE  SeatedHoldsTables'
<1> SUFFICES ASSUME NEW e \in Entry
             PROVE  rows'[e].status = "SEATED" <=> seatings'[e] # NoSeatings
  BY DEF SeatedHoldsTables, NoSeatings
<1>a. /\ rows[e].status = "SEATED" <=> seatings[e] # NoSeatings
      /\ seatings \in [Entry -> [Table -> Nat]]
  BY DEF SeatedHoldsTables, ExclusiveInvariant, TypeOK, StoreTypeOK
<1>1. CASE rows'[e].status = rows[e].status /\ seatings'[e] = seatings[e]
  BY <1>a, <1>1
<1>2. CASE /\ rows[e].status = "ABSENT" /\ rows'[e].status = "WAITING"
           /\ seatings'[e] = seatings[e]
  BY <1>a, <1>2
<1>3. ASSUME NEW r \in Slot, Commit(r), call[r].entry = e, rows[e].status = "WAITING",
             loaded[r].status \in Outcomes(call[r]), rows'[e] = loaded[r],
             seatings'[e] = IF call[r].op \in {"seat", "assign"}
                            THEN [t \in Table |-> seatings[e][t]
                                                  + (IF t \in call[r].tables THEN 1 ELSE 0)]
                            ELSE seatings[e]
      PROVE  rows'[e].status = "SEATED" <=> seatings'[e] # NoSeatings
  <2>1. call[r].tables # {} <=> call[r].op \in {"seat", "assign"}
    BY <1>3 DEF ExclusiveInvariant, CallsAreValid, Running, Commit, At
  <2>2. call[r].tables \subseteq Table
    BY <1>3 DEF ExclusiveInvariant, TypeOK, RequestTypeOK, Call, Commit, At
  <2>3. CASE call[r].op \in {"seat", "assign"}
    <3>1. rows'[e].status = "SEATED"
      BY <1>3, <2>3 DEF Outcomes
    <3>2. PICK t \in Table : t \in call[r].tables
      BY <2>1, <2>2, <2>3
    <3>3. seatings[e][t] \in Nat
      BY <1>a
    <3>4. seatings'[e][t] = seatings[e][t] + 1
      BY <1>3, <2>3, <3>2
    <3>5. NoSeatings[t] = 0
      BY DEF NoSeatings
    <3> QED
      BY <3>1, <3>3, <3>4, <3>5
  <2>4. CASE call[r].op \notin {"seat", "assign"}
    <3>1. rows'[e].status # "SEATED"
      BY <1>3, <2>4 DEF Outcomes
    <3> QED
      BY <1>3, <1>a, <2>4, <3>1
  <2> QED
    BY <2>3, <2>4
<1>4. CASE Untouched(e)
  BY <1>1, <1>4 DEF Untouched
<1>5. ASSUME NEW r \in Slot, Joins(r, e)
      PROVE  rows'[e].status = "SEATED" <=> seatings'[e] # NoSeatings
  BY <1>2, <1>5 DEF Joins
<1>6. ASSUME NEW r \in Slot, Commits(r, e)
      PROVE  rows'[e].status = "SEATED" <=> seatings'[e] # NoSeatings
  BY <1>3, <1>6 DEF Commits
<1> QED
  BY <1>4, <1>5, <1>6, TicketMoves

(* A cancel reads the assignments of a ticket that waits, and finds none. *)
LEMMA NothingToReleaseStep ==
    ASSUME ExclusiveInvariant, NothingToRelease, SeatedHoldsTables, [Next]_vars
    PROVE  NothingToRelease'
<1> SUFFICES ASSUME NEW q \in Slot, pc'[q] \in {"release", "unlink"} PROVE FALSE
  BY DEF NothingToRelease
<1>a. pc \in [Slot -> Await] /\ TypeOK
  BY DEF ExclusiveInvariant, TypeOK, RequestTypeOK
<1>1. CancelAssignments(q)
  BY <1>a, WhereFrom DEF NothingToRelease
<1>2. pc[q] = "assignments" /\ call[q].entry \in Entry
  BY <1>1 DEF CancelAssignments, At, ExclusiveInvariant, TypeOK, RequestTypeOK, Call
<1>3. rows[call[q].entry].status = "WAITING"
  BY <1>2 DEF ExclusiveInvariant, ActingOnWaiting, Acting
<1>4. seatings[call[q].entry] = NoSeatings
  BY <1>2, <1>3 DEF SeatedHoldsTables
<1>5. pc'[q] = "commit"
  BY <1>a, <1>1, <1>4 DEF CancelAssignments, Goto
<1> QED
  BY <1>5

-----------------------------------------------------------------------------
(* The audit log.  A use case commits on a ticket that waits, so that the    *)
(* transition it logs starts where the log ended.                           *)
LEMMA AuditIsChainStep ==
    ASSUME ExclusiveInvariant, NothingToRelease, AuditIsChain, [Next]_vars
    PROVE  AuditIsChain'
<1> SUFFICES ASSUME NEW e \in Entry, rows'[e].status # "ABSENT"
             PROVE  /\ history'[e] # <<>>
                    /\ Last(history'[e]).current = rows'[e].status
                    /\ \A i \in 2..Len(history'[e]) :
                          history'[e][i].previous = history'[e][i-1].current
  BY DEF AuditIsChain, Created
<1>a. /\ history[e] \in Seq(Transition) /\ Len(history[e]) \in Nat
      /\ history[e] # <<>> => Len(history[e]) >= 1
      /\ rows[e].status = "ABSENT" <=> history[e] = <<>>
  BY DEF ExclusiveInvariant, TypeOK, StoreTypeOK, RowsHaveLogs
<1>b. rows[e].status # "ABSENT" =>
        /\ history[e] # <<>>
        /\ history[e][Len(history[e])].current = rows[e].status
        /\ \A i \in 2..Len(history[e]) : history[e][i].previous = history[e][i-1].current
  BY DEF AuditIsChain, Created, Last
<1>1. CASE rows'[e].status = rows[e].status /\ history'[e] = history[e]
  BY <1>b, <1>1 DEF Last
<1>2. CASE /\ rows'[e].status = "WAITING"
           /\ history'[e] = Append(<<>>, [previous |-> "NONE", current |-> "WAITING"])
  <2>1. /\ Len(history'[e]) = 1
        /\ history'[e][1] = [previous |-> "NONE", current |-> "WAITING"]
    BY <1>2
  <2> QED
    BY <1>2, <2>1 DEF Last
<1>3. ASSUME NEW r \in Slot, rows[e].status = "WAITING", rows'[e] = loaded[r],
             loaded[r].status \in Outcomes(call[r]),
             history'[e] = Append(history[e], [previous |-> "WAITING",
                                               current |-> loaded[r].status])
      PROVE  /\ history'[e] # <<>>
             /\ Last(history'[e]).current = rows'[e].status
             /\ \A i \in 2..Len(history'[e]) :
                   history'[e][i].previous = history'[e][i-1].current
  <2> DEFINE n == Len(history[e])
             x == [previous |-> "WAITING", current |-> loaded[r].status]
  <2>1. x \in Transition
    BY <1>3 DEF Outcomes, Transition, Status, Terminal
  <2>2. /\ Len(history'[e]) = n + 1
        /\ \A i \in 1..n : history'[e][i] = history[e][i]
        /\ history'[e][n + 1] = x
    BY <1>3, <1>a, <2>1, AppendProperties
  <2>3. n >= 1 /\ n \in Nat /\ history[e][n].current = "WAITING"
    BY <1>3, <1>a, <1>b
  <2>4. x.previous = "WAITING" /\ x.current = rows'[e].status
    BY <1>3
  <2>5. \A i \in 2..n : history[e][i].previous = history[e][i-1].current
    BY <1>3, <1>b
  <2> HIDE DEF n, x
  <2>6. ASSUME NEW i \in 2..(n + 1)
        PROVE  history'[e][i].previous = history'[e][i-1].current
    <3>1. CASE i = n + 1
      <4>1. i - 1 = n /\ i - 1 \in 1..n
        BY <2>3, <3>1
      <4> QED
        BY <2>2, <2>3, <2>4, <3>1, <4>1
    <3>2. CASE i # n + 1
      <4>1. i \in 2..n /\ i \in 1..n /\ i - 1 \in 1..n
        BY <2>3, <3>2
      <4> QED
        BY <2>2, <2>5, <4>1
    <3> QED
      BY <3>1, <3>2
  <2>7. history'[e] # <<>>
    BY <2>2, <2>3
  <2> QED
    BY <2>2, <2>4, <2>6, <2>7 DEF Last
<1> QED
  <2> DEFINE Goal == /\ history'[e] # <<>>
                     /\ Last(history'[e]).current = rows'[e].status
                     /\ \A i \in 2..Len(history'[e]) :
                           history'[e][i].previous = history'[e][i-1].current
  <2>1. CASE Untouched(e)
    BY <1>1, <2>1 DEF Untouched
  <2>2. ASSUME NEW r \in Slot, Joins(r, e) PROVE Goal
    BY <1>2, <2>2 DEF Joins
  <2>3. ASSUME NEW r \in Slot, Commits(r, e) PROVE Goal
    BY <1>3, <2>3 DEF Commits
  <2> QED
    BY <2>1, <2>2, <2>3, TicketMoves

(* Everything that concerns one ticket. *)
TicketInvariant ==
    ExclusiveInvariant /\ NothingToRelease /\ SeatedHoldsTables /\ AuditIsChain

(* The invariants about single tickets hold together. *)
LEMMA TicketInvariantHolds ==
    ASSUME Apart PROVE Spec => []TicketInvariant
<1>1. Init => NothingToRelease /\ SeatedHoldsTables /\ AuditIsChain
  <2> SUFFICES ASSUME Init PROVE NothingToRelease /\ SeatedHoldsTables /\ AuditIsChain
    OBVIOUS
  <2>1. /\ \A r \in Slot : pc[r] = "idle"
        /\ \A e \in Entry : seatings[e] = NoSeatings
    BY DEF Init
  <2>2. \A e \in Entry :
          \/ /\ rows[e].status = "WAITING"
             /\ history[e] = <<[previous |-> "NONE", current |-> "WAITING"]>>
          \/ rows[e].status = "ABSENT"
    BY InitTickets DEF AbsentRow
  <2>3. NothingToRelease /\ SeatedHoldsTables
    BY <2>1, <2>2 DEF NothingToRelease, SeatedHoldsTables
  <2>4. AuditIsChain
    BY <2>2 DEF AuditIsChain, Created, Last
  <2> QED
    BY <2>3, <2>4
<1>2. ExclusiveInvariant /\ NothingToRelease /\ SeatedHoldsTables /\ AuditIsChain /\ [Next]_vars
        => NothingToRelease' /\ SeatedHoldsTables' /\ AuditIsChain'
  BY NothingToReleaseStep, SeatedHoldsTablesStep, AuditIsChainStep
<1> QED
  BY <1>1, <1>2, ExclusiveInvariantHolds, PTL DEF Spec, TicketInvariant

(* With exclusive clients the audit log of a ticket is one story: every      *)
(* transition starts where the one before ended, and the last one ends at    *)
(* the stored status, whatever interleaves on other tickets and fails.       *)
THEOREM AuditIsChainHolds ==
    ASSUME Apart PROVE Spec => []AuditIsChain
  BY TicketInvariantHolds, PTL DEF TicketInvariant

(* With exclusive clients no failure between the restaurant service and the  *)
(* transaction leaves a seated party without tables in the database, or      *)
(* tables with a party that waits or left.                                   *)
THEOREM SeatedHoldsTablesHolds ==
    ASSUME Apart PROVE Spec => []SeatedHoldsTables
  BY TicketInvariantHolds, PTL DEF TicketInvariant

-----------------------------------------------------------------------------
(* The service implements the lifecycle of a ticket. *)

(* Who joins or commits touches one ticket. *)
LEMMA ElsewhereStill ==
    ASSUME TypeOK, NEW r \in Slot, RegisterInsert(r) \/ Commit(r),
           NEW f \in Entry, f # call[r].entry
    PROVE  rows'[f] = rows[f] /\ seatings'[f] = seatings[f]
<1>a. /\ rows \in [Entry -> Ticket] /\ seatings \in [Entry -> [Table -> Nat]]
      /\ rows' = [rows EXCEPT ![call[r].entry] = loaded[r]]
  BY Writes DEF TypeOK, StoreTypeOK
<1>1. \/ seatings' = seatings
      \/ seatings' = [seatings EXCEPT ![call[r].entry] =
                         [t \in Table |-> @[t] + (IF t \in call[r].tables THEN 1 ELSE 0)]]
  BY DEF RegisterInsert, Commit, CreateWithHistory, AssignTablesWithHistory,
     UpdateStatusWithHistory
<1> QED
  BY <1>a, <1>1

(* What a ticket that is not seated holds. *)
LEMMA NoTables ==
    ASSUME TypeOK, NEW e \in Entry
    PROVE  seatings[e] = NoSeatings <=> \A t \in Table : ~(seatings[e][t] > 0)
<1>1. seatings[e] \in [Table -> Nat]
  BY DEF TypeOK, StoreTypeOK
<1>2. NoSeatings \in [Table -> Nat] /\ \A t \in Table : NoSeatings[t] = 0
  BY DEF NoSeatings
<1>3. ASSUME \A t \in Table : ~(seatings[e][t] > 0) PROVE seatings[e] = NoSeatings
  <2>1. \A t \in Table : seatings[e][t] = NoSeatings[t]
    BY <1>1, <1>2, <1>3
  <2> QED
    BY <1>1, <1>2, <2>1
<1> QED
  BY <1>2, <1>3

(* Every step maps to a step of TicketLifecycle, or to a stutter. *)
LEMMA LifecycleStep ==
    ASSUME TicketInvariant, [Next]_vars
    PROVE  [Lifecycle!Next]_<<[e \in Entry |-> rows[e].status],
                             [e \in Entry |-> {t \in Table : seatings[e][t] > 0}]>>
<1> DEFINE ticket == [e \in Entry |-> rows[e].status]
           holds  == [e \in Entry |-> {t \in Table : seatings[e][t] > 0}]
<1>a. /\ ExclusiveInvariant /\ NothingToRelease /\ SeatedHoldsTables /\ TypeOK
      /\ rows \in [Entry -> Ticket] /\ seatings \in [Entry -> [Table -> Nat]]
  BY DEF TicketInvariant, ExclusiveInvariant, TypeOK, StoreTypeOK
<1>1. ASSUME NEW e \in Entry, \A f \in Entry \ {e} : rows'[f] = rows[f] /\ seatings'[f] = seatings[f]
      PROVE  /\ ticket' = [ticket EXCEPT ![e] = rows'[e].status]
             /\ holds' = [holds EXCEPT ![e] = {t \in Table : seatings'[e][t] > 0}]
  BY <1>1
<1>2. ASSUME NEW r \in Slot, NEW e \in Entry, RegisterInsert(r), call[r].entry = e,
             rows[e].status = "ABSENT", rows'[e].status = "WAITING", seatings'[e] = seatings[e]
      PROVE  Lifecycle!Next
  <2>1. /\ ticket' = [ticket EXCEPT ![e] = "WAITING"]
        /\ holds' = [holds EXCEPT ![e] = holds[e]]
    <3>1. \A f \in Entry \ {e} : rows'[f] = rows[f] /\ seatings'[f] = seatings[f]
      BY <1>a, <1>2, ElsewhereStill
    <3>2. holds[e] = {t \in Table : seatings[e][t] > 0}
      OBVIOUS
    <3> HIDE DEF holds, ticket
    <3> QED
      BY <1>1, <1>2, <3>1, <3>2
  <2>2. ticket[e] = "ABSENT" /\ holds' = holds
    BY <1>2, <2>1
  <2>3. Lifecycle!Join(e)
    BY <2>1, <2>2 DEF Lifecycle!Join
  <2> QED
    BY <2>3 DEF Lifecycle!Next
<1>3. ASSUME NEW r \in Slot, NEW e \in Entry, Commit(r), call[r].entry = e,
             rows[e].status = "WAITING", rows'[e] = loaded[r],
             loaded[r].status \in Outcomes(call[r]),
             seatings'[e] = IF call[r].op \in {"seat", "assign"}
                            THEN [t \in Table |-> seatings[e][t]
                                                  + (IF t \in call[r].tables THEN 1 ELSE 0)]
                            ELSE seatings[e]
      PROVE  Lifecycle!Next \/ UNCHANGED <<ticket, holds>>
  <2>1. /\ ticket' = [ticket EXCEPT ![e] = loaded[r].status]
        /\ holds' = [holds EXCEPT ![e] = {t \in Table : seatings'[e][t] > 0}]
        /\ ticket[e] = "WAITING" /\ holds[e] = {t \in Table : seatings[e][t] > 0}
    BY <1>a, <1>1, <1>3, ElsewhereStill
  <2>2. /\ call[r].tables # {} <=> call[r].op \in {"seat", "assign"}
        /\ call[r].op = "cancel" => call[r].status \in {"CANCELLED", "NO_SHOW"}
        /\ call[r].tables \in SUBSET Table
    BY <1>a, <1>3 DEF ExclusiveInvariant, CallsAreValid, Running, Commit, At, TypeOK,
       RequestTypeOK, Call
  <2>3. CASE call[r].op \in {"seat", "assign"}
    <3>1. \A t \in Table : ~(seatings[e][t] > 0) /\ seatings[e][t] \in Nat
      BY <1>a, <1>3, NoTables DEF SeatedHoldsTables
    <3>2. {t \in Table : seatings'[e][t] > 0} = call[r].tables
      BY <1>3, <2>2, <2>3, <3>1
    <3>3. loaded[r].status = "SEATED"
      BY <1>3, <2>3 DEF Outcomes
    <3>4. PICK tables \in (SUBSET Table) \ {{}} : tables = call[r].tables
      BY <2>2, <2>3
    <3>5. Lifecycle!Seat(e, tables)
      BY <2>1, <3>2, <3>3, <3>4 DEF Lifecycle!Seat
    <3>6. \E chosen \in (SUBSET Table) \ {{}} : Lifecycle!Seat(e, chosen)
      BY <3>5
    <3>7. Lifecycle!Next
      BY <3>6 DEF Lifecycle!Next, Lifecycle!Seat
    <3> QED
      BY <3>7
  <2>4. CASE call[r].op \notin {"seat", "assign"}
    <3>1. holds' = holds
      BY <1>3, <2>1, <2>4
    <3>2. CASE loaded[r].status = "WAITING"
      BY <2>1, <3>1, <3>2
    <3>3. CASE loaded[r].status # "WAITING"
      <4>1. PICK status \in {"SKIPPED", "CANCELLED", "NO_SHOW"} : status = loaded[r].status
        BY <1>3, <2>4, <3>3 DEF Outcomes
      <4>2. Lifecycle!Leave(e, status)
        BY <2>1, <3>1, <4>1 DEF Lifecycle!Leave
      <4>3. \E s \in {"SKIPPED", "CANCELLED", "NO_SHOW"} : Lifecycle!Leave(e, s)
        BY <4>2
      <4>4. Lifecycle!Next
        BY <4>3 DEF Lifecycle!Next, Lifecycle!Leave
      <4> QED
        BY <4>4
    <3> QED
      BY <3>2, <3>3
  <2> QED
    BY <2>3, <2>4
<1>4. CASE \A e \in Entry : rows'[e].status = rows[e].status /\ seatings'[e] = seatings[e]
  BY <1>4
<1>5. CASE \E e \in Entry : ~(rows'[e].status = rows[e].status /\ seatings'[e] = seatings[e])
  <2> PICK e \in Entry : ~(rows'[e].status = rows[e].status /\ seatings'[e] = seatings[e])
    BY <1>5
  <2> HIDE DEF ticket, holds
  <2>1. ASSUME NEW r \in Slot, Joins(r, e) PROVE Lifecycle!Next
    BY <1>2, <2>1 DEF Joins
  <2>2. ASSUME NEW r \in Slot, Commits(r, e) PROVE [Lifecycle!Next]_<<ticket, holds>>
    BY <1>3, <2>2 DEF Commits
  <2>3. ~Untouched(e)
    BY DEF Untouched
  <2> QED
    BY <1>a, <2>1, <2>2, <2>3, TicketMoves DEF ticket, holds
<1> QED
  BY <1>4, <1>5

(* With exclusive clients every behaviour of the service, requests, batches, *)
(* caches and failures left out, is one of the lifecycle: a ticket joins,    *)
(* waits, and leaves once, with tables exactly if it is seated.              *)
THEOREM ImplementsLifecycleHolds ==
    ASSUME Apart PROVE Spec => ImplementsLifecycle
<1>1. Init => Lifecycle!Init
  <2> SUFFICES ASSUME Init PROVE Lifecycle!Init
    OBVIOUS
  <2>1. \A e \in Entry : rows[e].status \in {"ABSENT", "WAITING"}
    BY InitTickets DEF AbsentRow
  <2>2. \A e \in Entry : {t \in Table : seatings[e][t] > 0} = {}
    BY DEF Init, NoSeatings
  <2> QED
    BY <2>1, <2>2 DEF Lifecycle!Init
<1> QED
  BY <1>1, LifecycleStep, TicketInvariantHolds, PTL
  DEF Spec, ImplementsLifecycle, Lifecycle!Spec

-----------------------------------------------------------------------------
(* One ticket for every guest. *)

(* What the check for duplicates looks for. *)
LEMMA DuplicateMeans ==
    ASSUME NEW g
    PROVE  Duplicate(g) <=> \E e \in Active : SameGuest(rows[e].guest, g)
BY DEF Duplicate, ActiveByPhone, ActiveByUser, SameGuest

(* Who waits was waiting, as the same guest, or has just been inserted.     *)
LEMMA WaitingFrom ==
    ASSUME ExclusiveInvariant, NothingToRelease, JoinersDiffer, [Next]_vars,
           NEW e \in Entry, e \in Active'
    PROVE  \/ e \in Active /\ rows'[e].guest = rows[e].guest
           \/ \E r \in Slot :
                /\ RegisterInsert(r) /\ call[r].entry = e /\ pc[r] = "insert"
                /\ call[r].op = "register" /\ rows'[e].guest = call[r].guest
                /\ ~Duplicate(call[r].guest)
<1>1. CASE rows'[e].status = rows[e].status /\ rows'[e].guest = rows[e].guest
  BY <1>1 DEF Active, IsWaiting
<1>2. ASSUME NEW r \in Slot, RegisterInsert(r), call[r].entry = e, rows'[e] = loaded[r]
      PROVE  /\ RegisterInsert(r) /\ call[r].entry = e /\ pc[r] = "insert"
             /\ call[r].op = "register" /\ rows'[e].guest = call[r].guest
             /\ ~Duplicate(call[r].guest)
  <2>1. pc[r] = "insert"
    BY <1>2 DEF RegisterInsert, At
  <2>2. call[r].op = "register"
    BY <2>1 DEF ExclusiveInvariant, CallsAreValid, Running, Joining
  <2>3. loaded[r].guest = call[r].guest
    BY <2>1 DEF ExclusiveInvariant, CopyKeepsGuest
  <2> QED
    BY <1>2, <2>1, <2>2, <2>3 DEF JoinersDiffer
<1>3. CASE rows[e].status = "WAITING" /\ rows'[e].guest = rows[e].guest
  BY <1>3 DEF Active, IsWaiting
<1>4. \/ rows'[e].status = rows[e].status /\ rows'[e].guest = rows[e].guest
      \/ \E r \in Slot : RegisterInsert(r) /\ call[r].entry = e /\ rows'[e] = loaded[r]
      \/ rows[e].status = "WAITING" /\ rows'[e].guest = rows[e].guest
  <2>1. CASE Untouched(e)
    BY <2>1 DEF Untouched
  <2>2. ASSUME NEW r \in Slot, Joins(r, e)
        PROVE  RegisterInsert(r) /\ call[r].entry = e /\ rows'[e] = loaded[r]
    BY <2>2 DEF Joins
  <2>3. ASSUME NEW r \in Slot, Commits(r, e)
        PROVE  rows[e].status = "WAITING" /\ rows'[e].guest = rows[e].guest
    BY <2>3 DEF Commits
  <2> QED
    BY <2>1, <2>2, <2>3, TicketMoves
<1> QED
  BY <1>1, <1>2, <1>3, <1>4

(* Two requests that join at once are of different guests. *)
LEMMA JoinersDifferStep ==
    ASSUME Apart, ExclusiveInvariant, NothingToRelease, JoinersDiffer, [Next]_vars
    PROVE  JoinersDiffer'
<1>a. /\ pc \in [Slot -> Await] /\ call \in [Slot -> Call \union {NoCall}] /\ TypeOK
  BY DEF ExclusiveInvariant, TypeOK, RequestTypeOK
<1>1. ASSUME NEW q \in Running', NEW r \in Running', q # r,
             call'[q].op = "register", call'[r].op = "register"
      PROVE  ~SameGuest(call'[q].guest, call'[r].guest)
  <2>0. q \in Slot /\ r \in Slot /\ pc'[q] # "idle" /\ pc'[r] # "idle"
    BY <1>1 DEF Running
  <2>1. CASE \A s \in Slot : pc'[s] # "idle" => pc[s] # "idle" /\ call'[s] = call[s]
    <3>1. q \in Running /\ r \in Running /\ call'[q] = call[q] /\ call'[r] = call[r]
      BY <2>0, <2>1 DEF Running
    <3> QED
      BY <1>1, <3>1 DEF JoinersDiffer
  <2>2. ASSUME NEW s \in Slot, Accept(s)
        PROVE  ~SameGuest(call'[q].guest, call'[r].guest)
    <3>1. PICK c \in Requests :
             /\ \A p \in Running : c.op = "register" /\ call[p].op = "register" =>
                                      ~SameGuest(c.guest, call[p].guest)
             /\ call' = [call EXCEPT ![s] = c]
      BY <2>2 DEF Apart, Accept, Disjoint, Running, At
    <3>2. \A p \in Slot \ {s} : pc'[p] = pc[p] /\ call'[p] = call[p]
      BY <1>a, <2>2, <3>1 DEF Accept, Goto
    <3>3. call'[s] = c
      BY <1>a, <3>1
    <3>4. CASE s # q /\ s # r
      <4>1. q \in Running /\ r \in Running /\ call'[q] = call[q] /\ call'[r] = call[r]
        BY <2>0, <3>2, <3>4 DEF Running
      <4> QED
        BY <1>1, <4>1 DEF JoinersDiffer
    <3>5. CASE s = q
      <4>1. r \in Running /\ call'[r] = call[r]
        BY <1>1, <2>0, <3>2, <3>5 DEF Running
      <4> QED
        BY <1>1, <3>1, <3>3, <3>5, <4>1
    <3>6. CASE s = r
      <4>1. q \in Running /\ call'[q] = call[q]
        BY <1>1, <2>0, <3>2, <3>6 DEF Running
      <4>2. ~SameGuest(call'[r].guest, call'[q].guest)
        BY <1>1, <3>1, <3>3, <3>6, <4>1
      <4> QED
        BY <4>2 DEF SameGuest
    <3> QED
      BY <3>4, <3>5, <3>6
  <2> QED
    BY <1>a, <2>1, <2>2, RequestsMove
<1>2. ASSUME NEW q \in Slot, pc'[q] = "insert" PROVE ~Duplicate(call[q].guest)'
  <2>1. /\ call'[q] = call[q] /\ ~Duplicate(call[q].guest)
        /\ call[q].op = "register" /\ q \in Running /\ pc[q] \in {"verify", "insert"}
    <3>1. CASE pc[q] = "insert"
      <4>1. call[q].op = "register"
        BY <3>1 DEF ExclusiveInvariant, CallsAreValid, Running, Joining
      <4>2. call'[q] = call[q]
        BY <1>a, <1>2, <3>1, RequestsMove DEF Accept, Goto, At
      <4> QED
        BY <3>1, <4>1, <4>2 DEF JoinersDiffer, Running
    <3>2. CASE RegisterVerify(q)
      <4>1. ~Duplicate(call[q].guest) /\ call' = call /\ pc[q] = "verify"
        BY <1>a, <1>2, <3>2 DEF RegisterVerify, Finish, Goto, At, localVars
      <4> QED
        BY <4>1 DEF ExclusiveInvariant, CallsAreValid, Running, Joining
    <3> QED
      BY <1>a, <1>2, <3>1, <3>2, WhereFrom
  <2>2. ASSUME NEW e \in Active', SameGuest(rows'[e].guest, call[q].guest) PROVE FALSE
    <3>0. e \in Entry
      BY DEF Active
    <3>1. CASE e \in Active /\ rows'[e].guest = rows[e].guest
      BY <2>1, <2>2, <3>1, DuplicateMeans
    <3>2. ASSUME NEW r \in Slot, RegisterInsert(r), pc[r] = "insert",
                 call[r].op = "register", rows'[e].guest = call[r].guest
          PROVE  FALSE
      <4>1. r # q
        BY <1>2, <3>2, <1>a, Writes
      <4>2. r \in Running
        BY <3>2 DEF Running
      <4> QED
        BY <2>1, <2>2, <3>2, <4>1, <4>2 DEF JoinersDiffer
    <3> QED
      BY <3>0, <3>1, <3>2, WaitingFrom
  <2>3. Duplicate(call[q].guest)' => \E e \in Active' : SameGuest(rows'[e].guest, call'[q].guest)
    BY DEF Duplicate, ActiveByPhone, ActiveByUser, SameGuest
  <2> QED
    BY <2>1, <2>2, <2>3
<1> QED
  BY <1>1, <1>2 DEF JoinersDiffer

(* The check for duplicates sees every ticket the guest may have. *)
LEMMA OneTicketStep ==
    ASSUME ExclusiveInvariant, NothingToRelease, JoinersDiffer, OneTicketPerGuest, [Next]_vars
    PROVE  OneTicketPerGuest'
<1> SUFFICES ASSUME NEW e \in Active', NEW f \in Active',
                    SameGuest(rows'[e].guest, rows'[f].guest)
             PROVE  e = f
  BY DEF OneTicketPerGuest, OneTicketPerPhone, OneTicketPerUser, SameGuest
<1>a. e \in Entry /\ f \in Entry /\ TypeOK
  BY DEF Active, ExclusiveInvariant
<1>s. SameGuest(rows'[f].guest, rows'[e].guest)
  BY DEF SameGuest
<1> DEFINE Old(g) == g \in Active /\ rows'[g].guest = rows[g].guest
           New(r, g) == /\ RegisterInsert(r) /\ call[r].entry = g /\ pc[r] = "insert"
                        /\ rows'[g].guest = call[r].guest /\ ~Duplicate(call[r].guest)
<1>1. CASE Old(e) /\ Old(f)
  BY <1>1 DEF OneTicketPerGuest, OneTicketPerPhone, OneTicketPerUser, SameGuest
<1>2. ASSUME NEW r \in Slot, New(r, e), Old(f) PROVE FALSE
  BY <1>2, <1>s, DuplicateMeans
<1>3. ASSUME NEW r \in Slot, New(r, f), Old(e) PROVE FALSE
  BY <1>3, DuplicateMeans
<1>4. ASSUME NEW r \in Slot, NEW s \in Slot, New(r, e), New(s, f) PROVE e = f
  <2>1. pc'[s] = "store" /\ pc[s] = "insert" /\ pc \in [Slot -> Await]
    BY <1>a, <1>4, Writes DEF TypeOK, RequestTypeOK
  <2>2. r = s
    BY <1>4, <2>1 DEF RegisterInsert, Goto
  <2> QED
    BY <1>4, <2>2
<1>5. /\ Old(e) \/ \E r \in Slot : New(r, e)
      /\ Old(f) \/ \E r \in Slot : New(r, f)
  BY <1>a, WaitingFrom
<1> HIDE DEF Old, New
<1> QED
  BY <1>1, <1>2, <1>3, <1>4, <1>5

(* Guests have one ticket each in the beginning. *)
LEMMA OneTicketInit == InitialGuestsDiffer /\ Init => OneTicketPerGuest
<1> SUFFICES ASSUME InitialGuestsDiffer, Init,
                    NEW e \in Active, NEW f \in Active, SameGuest(rows[e].guest, rows[f].guest)
             PROVE  e = f
  BY DEF OneTicketPerGuest, OneTicketPerPhone, OneTicketPerUser, SameGuest
<1>1. PICK ids \in [DOMAIN InitialQueue -> Entry] :
        LET Place(g) == CHOOSE i \in DOMAIN InitialQueue : ids[i] = g
            queued   == {ids[i] : i \in DOMAIN InitialQueue}
        IN rows = [g \in Entry |->
                 IF g \in queued
                 THEN CreateTicket(InitialQueue[Place(g)], Place(g), Place(g), Place(g))
                 ELSE AbsentRow]
  BY DEF Init
<1> DEFINE Place(g) == CHOOSE i \in DOMAIN InitialQueue : ids[i] = g
<1>2. ASSUME NEW g \in Active
      PROVE  /\ Place(g) \in DOMAIN InitialQueue /\ ids[Place(g)] = g
             /\ rows[g].guest = InitialQueue[Place(g)]
  <2>1. g \in {ids[i] : i \in DOMAIN InitialQueue} /\ g \in Entry
    BY <1>1 DEF Active, IsWaiting, AbsentRow
  <2>2. Place(g) \in DOMAIN InitialQueue /\ ids[Place(g)] = g
    BY <2>1
  <2>3. rows[g] = CreateTicket(InitialQueue[Place(g)], Place(g), Place(g), Place(g))
    BY <1>1, <2>1
  <2> QED
    BY <2>2, <2>3 DEF CreateTicket
<1> HIDE DEF Place
<1>3. Place(e) = Place(f)
  BY <1>2 DEF InitialGuestsDiffer
<1> QED
  BY <1>2, <1>3

(* With exclusive clients, and guests who were different to begin with, no   *)
(* phone number waits twice in the restaurant and no user twice anywhere:    *)
(* the check before and the check inside the transaction suffice, although   *)
(* nothing locks what they read.                                             *)
THEOREM OneTicketPerGuestHolds ==
    ASSUME Apart, InitialGuestsDiffer PROVE Spec => []OneTicketPerGuest
<1>1. Init => JoinersDiffer /\ OneTicketPerGuest
  <2> SUFFICES ASSUME Init PROVE JoinersDiffer
    BY OneTicketInit
  <2>1. \A r \in Slot : pc[r] = "idle"
    BY DEF Init
  <2> QED
    BY <2>1 DEF JoinersDiffer, Running
<1>2. TicketInvariant => ExclusiveInvariant /\ NothingToRelease
  BY DEF TicketInvariant
<1> QED
  BY <1>1, <1>2, TicketInvariantHolds, JoinersDifferStep, OneTicketStep, PTL DEF Spec

-----------------------------------------------------------------------------
(* Tables in the restaurant service. *)

(* A request that names tables seats a ticket, at the awaits of that path. *)
LEMMA SeatingPathStep ==
    ASSUME TypeOK, CallsAreValid, SeatingPath, [Next]_vars
    PROVE  SeatingPath'
<1>a. pc \in [Slot -> Await] /\ call \in [Slot -> Call \union {NoCall}]
  BY DEF TypeOK, RequestTypeOK
<1> DEFINE Path == {"load", "occupy", "commit"} \union Settling
<1> SUFFICES ASSUME NEW q \in Slot, pc'[q] # "idle", call'[q].tables # {}
             PROVE  pc'[q] \in Path
  BY DEF SeatingPath, Running
<1>b. ASSUME NEW await, Goto(q, await) PROVE pc'[q] = await
  BY <1>a, <1>b DEF Goto
<1>1. CASE pc'[q] = pc[q] /\ call'[q] = call[q]
  BY <1>1 DEF SeatingPath, Running
<1>2. CASE Accept(q)
  <2>1. PICK c \in Requests : /\ call' = [call EXCEPT ![q] = c]
                             /\ Goto(q, IF c.op = "register" THEN "check" ELSE "load")
    BY <1>2 DEF Accept
  <2>2. call'[q] = c
    BY <1>a, <2>1
  <2>3. c.op # "register"
    BY <2>2, RequestsAreValid
  <2> QED
    BY <1>b, <2>1, <2>3
<1>3. CASE Advance(q)
  <2>1. call'[q] = call[q] /\ pc[q] # "idle"
    <3>1. ~Accept(q) /\ pc[q] # "idle"
      BY <1>3 DEF Accept, Advance, At, RegisterCheck, RegisterDepth, RegisterCount,
         RegisterCreate, RegisterVerify, RegisterInsert, RegisterStore, Load, RingSave,
         RingEnqueue, Occupy, CancelAssignments, CancelRelease, CancelUnlink, ShiftRank, ShiftBatch, Commit,
         Evict, Recalculate, RecalculateWrite, RecalculatePublish
    <3>2. ASSUME NEW r \in Slot, Accept(r) PROVE call'[q] = call[q]
      <4>1. r # q
        BY <3>1, <3>2
      <4> QED
        BY <3>2, <4>1, OneActor
    <3> QED
      BY <3>1, <3>2, RequestsMove
  <2>2. /\ pc[q] \in Path /\ call[q].op \in {"seat", "assign"}
    BY <2>1 DEF SeatingPath, CallsAreValid, Running
  <2>3. CASE Load(q)
    <3>1. AfterLoad(call[q].op) = "occupy"
      BY <2>2 DEF AfterLoad
    <3>2. pc'[q] = "occupy"
      BY <1>b, <2>3, <3>1 DEF Load, Finish
    <3> QED
      BY <3>2
  <2>4. CASE Occupy(q) \/ Commit(q) \/ Evict(q) \/ Recalculate(q) \/ RecalculateWrite(q)
    <3>1. pc'[q] \in {"idle", "commit", "recalc", "evict", "write", "publish"}
      BY <1>b, <2>4 DEF Occupy, Commit, Evict, Recalculate, RecalculateWrite, Finish
    <3> QED
      BY <3>1 DEF Settling
  <2>5. CASE RegisterStore(q) \/ RecalculatePublish(q)
    BY <1>b, <2>5 DEF RegisterStore, RecalculatePublish, Finish
  <2>6. CASE \/ RegisterCheck(q) \/ RegisterDepth(q) \/ RegisterCount(q) \/ RegisterCreate(q)
             \/ RegisterVerify(q) \/ RegisterInsert(q)
    BY <2>2, <2>6 DEF At, RegisterCheck, RegisterDepth, RegisterCount, RegisterCreate,
       RegisterVerify, RegisterInsert, Settling
  <2>7. CASE \/ RingSave(q) \/ RingEnqueue(q)
             \/ CancelAssignments(q) \/ CancelRelease(q) \/ CancelUnlink(q)
             \/ ShiftRank(q) \/ ShiftBatch(q)
    BY <2>2, <2>7 DEF At, RingSave, RingEnqueue, CancelAssignments, CancelRelease, CancelUnlink,
       ShiftRank, ShiftBatch, Settling
  <2> HIDE DEF Path
  <2> QED
    BY <1>3, <2>3, <2>4, <2>5, <2>6, <2>7 DEF Advance
<1> QED
  BY <1>1, <1>2, <1>3, OwnStep

(* The tables a request has occupied and not yet assigned. *)
Carried(r) == IF pc[r] = "commit" THEN call[r].tables ELSE {}

(* Only seating occupies, only its commit and its death let go.              *)
LEMMA CarriedMoves ==
    ASSUME TypeOK, CallsAreValid, SeatingPath, [Next]_vars, NEW q \in Slot
    PROVE  \/ Carried(q)' = Carried(q)
           \/ Occupy(q) \/ Commit(q)
           \/ Fail(q)
<1>a. pc \in [Slot -> Await] /\ SeatingPath'
  BY SeatingPathStep DEF TypeOK, RequestTypeOK
<1>b. ASSUME NEW await, Goto(q, await) PROVE pc'[q] = await
  BY <1>a, <1>b DEF Goto
<1>1. CASE pc'[q] = pc[q] /\ call'[q] = call[q]
  BY <1>1 DEF Carried
<1>2. ASSUME Accept(q) \/ Refuse(q) PROVE Carried(q)' = Carried(q)
  <2>1. pc[q] # "commit" /\ pc'[q] # "commit"
    BY <1>b, <1>2 DEF Accept, Refuse, At, Finish
  <2> QED
    BY <2>1 DEF Carried
<1>3. ASSUME Advance(q), ~Occupy(q), ~Commit(q) PROVE Carried(q)' = Carried(q)
  <2>1. pc[q] # "commit" /\ pc[q] # "occupy" /\ pc[q] # "idle"
    BY <1>3 DEF Advance, At, RegisterCheck, RegisterDepth, RegisterCount,
       RegisterCreate, RegisterVerify, RegisterInsert, RegisterStore, Load, RingSave,
       RingEnqueue, CancelAssignments, CancelRelease, CancelUnlink, ShiftRank, ShiftBatch,
       Evict, Recalculate, RecalculateWrite, RecalculatePublish
  <2>2. CASE pc'[q] # "commit"
    BY <2>1, <2>2 DEF Carried
  <2>3. ASSUME pc'[q] = "commit" PROVE call'[q].tables = {}
    <3>0. call'[q] = call[q]
      BY <2>1, <2>3, ActingFrom DEF Acting
    <3>1. CASE pc[q] \notin {"load"} \union Settling
      BY <2>1, <3>0, <3>1 DEF SeatingPath, Running
    <3>2. CASE Load(q)
      <4>1. pc'[q] \in {"idle", AfterLoad(call[q].op)}
        BY <1>b, <3>2 DEF Load, Finish
      <4>2. call[q].op \notin {"seat", "assign"}
        BY <2>3, <4>1 DEF AfterLoad
      <4> QED
        BY <2>1, <3>0, <4>2 DEF CallsAreValid, Running
    <3>3. CASE pc[q] \in Settling
      BY <2>1, <2>3, <3>3, ActingFrom DEF Settling, Acting, Load, ShiftRank, At
    <3> QED
      BY <1>3, <3>1, <3>2, <3>3, <2>3, ActingFrom DEF Acting, ShiftRank, At, Settling
  <2> QED
    BY <2>1, <2>2, <2>3 DEF Carried
<1>4. CASE Expire \/ UNCHANGED vars
  BY <1>1, <1>4 DEF Expire, vars, localVars
<1>5. \/ Expire \/ UNCHANGED vars
      \/ \E r \in Slot : Accept(r) \/ Refuse(r) \/ Fail(r) \/ Advance(r)
  BY DEF Next, Quiet
<1>6. ASSUME NEW r \in Slot, r # q, Accept(r) \/ Refuse(r) \/ Fail(r) \/ Advance(r)
      PROVE  Carried(q)' = Carried(q)
  BY <1>1, <1>6, OneActor DEF Carried
<1> QED
  BY <1>2, <1>3, <1>4, <1>5, <1>6 DEF Carried, Expire, vars, localVars

(* Who speaks to the restaurant service, and how failures are counted.      *)
LEMMA UpstreamMoves ==
    ASSUME TypeOK, [Next]_vars
    PROVE  /\ upstream' = upstream \/ \E r \in Slot : Occupy(r) \/ CancelRelease(r)
           /\ faults' \in {faults, faults + 1}
<1> DEFINE Same == upstream' = upstream
           Counted == faults' \in {faults, faults + 1}
<1> SUFFICES (Same \/ \E r \in Slot : Occupy(r) \/ CancelRelease(r)) /\ Counted
  OBVIOUS
<1> USE DEF storeVars, dbVars
<1>1. ASSUME NEW r \in Slot, Accept(r) \/ Refuse(r) \/ Fail(r) PROVE Same /\ Counted
  BY <1>1 DEF Accept, Refuse, Fail, ReadsOnly, SpendFault
<1>2. CASE Expire \/ UNCHANGED vars
  BY <1>2 DEF Expire, SpendFault, vars
<1>3. ASSUME NEW r \in Slot,
             \/ RegisterCheck(r) \/ RegisterDepth(r) \/ RegisterCount(r) \/ RegisterVerify(r)
             \/ Load(r) \/ RingEnqueue(r) \/ CancelAssignments(r) \/ ShiftRank(r)
             \/ Recalculate(r)
      PROVE  Same /\ Counted
  BY <1>3 DEF RegisterCheck, RegisterDepth, RegisterCount, RegisterVerify, Load, RingEnqueue,
     CancelAssignments, ShiftRank, Recalculate, ReadsOnly
<1>4. ASSUME NEW r \in Slot,
             \/ RegisterCreate(r) \/ RegisterInsert(r) \/ RingSave(r) \/ CancelUnlink(r)
             \/ ShiftBatch(r) \/ Commit(r) \/ RecalculateWrite(r)
      PROVE  Same /\ Counted
  BY <1>4 DEF RegisterCreate, RegisterInsert, RingSave, CancelUnlink, ShiftBatch, Commit,
     RecalculateWrite
<1>5. ASSUME NEW r \in Slot, RegisterStore(r) \/ Evict(r) \/ RecalculatePublish(r)
      PROVE  Same /\ Counted
  BY <1>5 DEF RegisterStore, Evict, RecalculatePublish, SpendFault
<1>6. ASSUME NEW r \in Slot, Occupy(r) \/ CancelRelease(r) PROVE Counted
  BY <1>6 DEF Occupy, CancelRelease
<1> HIDE DEF Same, Counted
<1>7. ASSUME NEW r \in Slot, Advance(r)
      PROVE  Counted /\ (Same \/ Occupy(r) \/ CancelRelease(r))
  BY <1>3, <1>4, <1>5, <1>6, <1>7, Zenon DEF Advance
<1>8. \/ Expire \/ UNCHANGED vars
      \/ \E r \in Slot : Accept(r) \/ Refuse(r) \/ Fail(r) \/ Advance(r)
  BY DEF Next, Quiet
<1> QED
  BY <1>1, <1>2, <1>7, <1>8

(* The tables of a request that is committing, or dies there, are the ones   *)
(* it carries no more; those of one that has occupied them are new.          *)
LEMMA TablesStep ==
    ASSUME IsFiniteSet(Slot), TicketInvariant, SeatingPath, TablesAreAccounted, [Next]_vars
    PROVE  TablesAreAccounted'
<1> SUFFICES ASSUME NEW t \in Table
             PROVE  (Unassigned(t) - InFlight(t) \in 0..faults)'
  BY DEF TablesAreAccounted
<1> DEFINE H == {e \in Entry : seatings[e][t] > 0}
           C == {r \in Slot : t \in Carried(r)}
<1>a. /\ ExclusiveInvariant /\ NothingToRelease /\ TypeOK /\ CallsAreValid
      /\ faults \in Nat /\ upstream \in [Table -> Int] /\ upstream[t] \in Int
      /\ seatings \in [Entry -> [Table -> Nat]] /\ pc \in [Slot -> Await]
      /\ \A r \in Slot : pc[r] # "idle" => call[r].entry \in Entry /\ call[r].tables \subseteq Table
  BY DEF TicketInvariant, ExclusiveInvariant, TypeOK, StoreTypeOK, RequestTypeOK, Call
<1>b. IsFiniteSet(H) /\ IsFiniteSet(C)
  BY FS_Subset, EntryAssumption
<1>c. Cardinality(H) \in Nat /\ Cardinality(C) \in Nat
  BY <1>b, FS_CardinalityType
<1>d. upstream[t] - Cardinality(H) - Cardinality(C) \in 0..faults
  <2>1. {r \in Running : pc[r] = "commit" /\ t \in call[r].tables} = C
    BY DEF Running, Carried
  <2> QED
    BY <2>1 DEF TablesAreAccounted, Unassigned, InFlight
<1>e. SUFFICES upstream'[t] - Cardinality(H') - Cardinality(C') \in 0..faults'
  <2>1. {r \in Running' : pc'[r] = "commit" /\ t \in call'[r].tables} = C'
    BY DEF Running, Carried
  <2> QED
    BY <2>1 DEF Unassigned, InFlight
<1>f. faults' \in {faults, faults + 1}
  BY <1>a, UpstreamMoves
<1>g. ASSUME NEW r \in Slot, Accept(r) \/ Refuse(r) \/ Fail(r) \/ Advance(r),
             NEW q \in Slot, q # r
      PROVE  Carried(q)' = Carried(q)
  BY <1>a, <1>g, OneActor DEF Carried
<1> HIDE DEF H, C
<1>1. CASE upstream'[t] = upstream[t] /\ H' = H /\ C' = C
  BY <1>a, <1>c, <1>d, <1>f, <1>1
<1>2. ASSUME NEW r \in Slot, Occupy(r)
      PROVE  upstream'[t] - Cardinality(H') - Cardinality(C') \in 0..faults'
  <2>1. /\ pc[r] = "occupy" /\ pc'[r] = "commit" /\ call'[r] = call[r]
        /\ seatings' = seatings
        /\ upstream'[t] = upstream[t] + (IF t \in call[r].tables THEN 1 ELSE 0)
    BY <1>a, <1>2 DEF Occupy, At, Goto, localVars, dbVars, AssignUpstream
  <2>2. H' = H
    BY <2>1 DEF H
  <2>3. /\ Carried(r) = {} /\ Carried(r)' = call[r].tables
        /\ \A q \in Slot \ {r} : Carried(q)' = Carried(q)
    BY <1>2, <1>g, <2>1 DEF Carried, Advance
  <2>4. CASE t \in call[r].tables
    <3>1. C' = C \union {r} /\ r \notin C
      BY <2>3, <2>4 DEF C
    <3>2. Cardinality(C') = Cardinality(C) + 1
      BY <1>b, <3>1, FS_AddElement
    <3> QED
      BY <1>a, <1>c, <1>d, <1>f, <2>1, <2>2, <2>4, <3>2
  <2>5. CASE t \notin call[r].tables
    <3>1. C' = C
      BY <2>3, <2>5 DEF C
    <3> QED
      BY <1>1, <2>1, <2>2, <2>5, <3>1, <1>a
  <2> QED
    BY <2>4, <2>5
<1>3. ASSUME NEW r \in Slot, Commit(r)
      PROVE  upstream'[t] - Cardinality(H') - Cardinality(C') \in 0..faults'
  <2> DEFINE e == call[r].entry
  <2>1. /\ pc[r] = "commit" /\ pc'[r] \in {"recalc", "evict"} /\ e \in Entry
        /\ upstream' = upstream
    BY <1>a, <1>3, Writes DEF Commit
  <2>2. /\ Carried(r) = call[r].tables /\ Carried(r)' = {}
        /\ \A q \in Slot \ {r} : Carried(q)' = Carried(q)
    BY <1>3, <1>g, <2>1 DEF Carried, Advance
  <2>3. seatings' = IF call[r].op \in {"seat", "assign"}
                    THEN [seatings EXCEPT ![e] =
                            [x \in Table |-> @[x] + (IF x \in call[r].tables THEN 1 ELSE 0)]]
                    ELSE seatings
    BY <1>3 DEF Commit, AssignTablesWithHistory, UpdateStatusWithHistory
  <2>4. call[r].tables # {} <=> call[r].op \in {"seat", "assign"}
    BY <1>a, <2>1 DEF CallsAreValid, Running
  <2>5. CASE t \in call[r].tables
    <3>1. C' = C \ {r} /\ r \in C
      BY <2>2, <2>5 DEF C
    <3>2. Cardinality(C') = Cardinality(C) - 1
      BY <1>b, <3>1, FS_RemoveElement
    <3>3. ~(seatings[e][t] > 0) /\ seatings[e][t] \in Nat
      <4>1. rows[e].status = "WAITING"
        BY <1>a, <2>1 DEF ExclusiveInvariant, ActingOnWaiting, Acting
      <4> QED
        BY <1>a, <2>1, <4>1, NoTables DEF TicketInvariant, SeatedHoldsTables
    <3>4. seatings'[e][t] = seatings[e][t] + 1
      BY <1>a, <2>1, <2>3, <2>4, <2>5
    <3>5. \A f \in Entry \ {e} : seatings'[f] = seatings[f]
      BY <1>a, <2>1, <2>3
    <3>6. H' = H \union {e} /\ e \notin H
      BY <2>1, <3>3, <3>4, <3>5 DEF H
    <3>7. Cardinality(H') = Cardinality(H) + 1
      BY <1>b, <3>6, FS_AddElement
    <3> QED
      BY <1>a, <1>c, <1>d, <1>f, <2>1, <3>2, <3>7
  <2>6. CASE t \notin call[r].tables
    <3>1. C' = C
      BY <2>2, <2>6 DEF C
    <3>2. \A f \in Entry : seatings'[f][t] = seatings[f][t]
      BY <1>a, <2>1, <2>3, <2>6
    <3>3. H' = H
      BY <3>2 DEF H
    <3> QED
      BY <1>1, <2>1, <3>1, <3>3
  <2> QED
    BY <2>5, <2>6
<1>4. ASSUME NEW r \in Slot, Fail(r)
      PROVE  upstream'[t] - Cardinality(H') - Cardinality(C') \in 0..faults'
  <2>1. /\ faults' = faults + 1 /\ upstream' = upstream /\ seatings' = seatings
        /\ pc'[r] = "idle"
    BY <1>a, <1>4 DEF Fail, SpendFault, storeVars, Finish, Goto
  <2>2. H' = H
    BY <2>1 DEF H
  <2>3. Carried(r)' = {} /\ \A q \in Slot \ {r} : Carried(q)' = Carried(q)
    BY <1>4, <1>g, <2>1 DEF Carried
  <2>4. CASE r \in C
    <3>1. C' = C \ {r}
      BY <2>3 DEF C
    <3>2. Cardinality(C') = Cardinality(C) - 1
      BY <1>b, <2>4, <3>1, FS_RemoveElement
    <3> QED
      BY <1>a, <1>c, <1>d, <2>1, <2>2, <3>2
  <2>5. CASE r \notin C
    <3>1. C' = C
      BY <2>3, <2>5 DEF C
    <3> QED
      BY <1>1, <2>1, <2>2, <3>1
  <2> QED
    BY <2>4, <2>5
<1>5. CASE \A r \in Slot : ~Occupy(r) /\ ~Commit(r) /\ ~Fail(r)
  <2>1. C' = C
    BY <1>a, <1>5, CarriedMoves DEF C, TicketInvariant
  <2>2. ASSUME NEW r \in Slot PROVE ~CancelRelease(r) /\ ~CancelUnlink(r)
    BY <1>a DEF NothingToRelease, CancelRelease, CancelUnlink, At
  <2>3. upstream' = upstream
    BY <1>a, <1>5, <2>2, UpstreamMoves
  <2>4. seatings' = seatings
    BY <1>a, <1>5, <2>2, StoreStep, Writes
  <2>5. H' = H
    BY <2>4 DEF H
  <2> QED
    BY <1>1, <2>1, <2>3, <2>5
<1> QED
  BY <1>2, <1>3, <1>4, <1>5

(* With exclusive clients, whatever fails and wherever: the restaurant       *)
(* service holds for this service the tables of the parties seated here, the *)
(* tables of seatings in flight, and at most one more party's for every      *)
(* failure.  It never holds fewer: no seated party sits at a free table.     *)
THEOREM TablesAreAccountedHolds ==
    ASSUME Apart, IsFiniteSet(Slot) PROVE Spec => []TablesAreAccounted
<1>1. Init => SeatingPath /\ TablesAreAccounted
  <2> SUFFICES ASSUME Init PROVE SeatingPath /\ TablesAreAccounted
    OBVIOUS
  <2>1. /\ \A r \in Slot : pc[r] = "idle"
        /\ \A e \in Entry : \A t \in Table : seatings[e][t] = 0
        /\ \A t \in Table : upstream[t] = 0
        /\ faults = 0
    BY DEF Init, NoSeatings
  <2>2. ASSUME NEW t \in Table PROVE Unassigned(t) = 0 /\ InFlight(t) = 0
    <3>1. {e \in Entry : seatings[e][t] > 0} = {}
      BY <2>1
    <3>2. {r \in Running : pc[r] = "commit" /\ t \in call[r].tables} = {}
      BY <2>1 DEF Running
    <3>3. Cardinality({}) = 0
      BY FS_EmptySet
    <3>4. InFlight(t) = 0
      BY <3>2, <3>3 DEF InFlight
    <3>5. Unassigned(t) = upstream[t] - 0
      BY <3>1, <3>3 DEF Unassigned
    <3> QED
      BY <2>1, <3>4, <3>5
  <2> QED
    BY <2>1, <2>2 DEF SeatingPath, Running, TablesAreAccounted
<1>2. TicketInvariant => TypeOK /\ CallsAreValid
  BY DEF TicketInvariant, ExclusiveInvariant
<1> QED
  BY <1>1, <1>2, TicketInvariantHolds, SeatingPathStep, TablesStep, PTL DEF Spec

-----------------------------------------------------------------------------
(* What the parties are told: the requests that announce do what the         *)
(* requests do, so that the above holds of them, and they announce the truth. *)

(* Announcing changes nothing that a request does. *)
LEMMA LiveStep == [LiveNext]_liveVars => [Next]_vars
<1> SUFFICES ASSUME [LiveNext]_liveVars PROVE [Next]_vars
  OBVIOUS
<1>1. CASE \E r \in Slot : Registered(r) \/ Unmoved(r) \/ Moved(r) \/ Assigned(r)
  BY <1>1, Zenon DEF Registered, Unmoved, Moved, Assigned, Next, Advance
<1>2. CASE \E r \in Slot : Silent(r)
  BY <1>2, Zenon DEF Silent, Next, Advance
<1>3. CASE Expire \/ Quiet
  BY <1>3, Zenon DEF Next
<1>4. CASE UNCHANGED liveVars
  BY <1>4, Zenon DEF liveVars
<1> QED
  BY <1>1, <1>2, <1>3, <1>4, Zenon DEF LiveNext

(* With the live events the tickets behave as without them. *)
LEMMA LiveImplementsSpec == LiveSpec => Spec
<1>1. LiveInit => Init
  BY DEF LiveInit
<1> QED
  BY <1>1, LiveStep, PTL DEF LiveSpec, Spec

(* What a party can be shown. *)
ShownTypeOK == shown \in [Entry -> [status : Status \union {"ABSENT"}, position : Nat]]

(* What an event shows of a ticket. *)
LEMMA SeenIsShown == \A ticket \in Ticket : Seen(ticket) \in
                         [status : Status \union {"ABSENT"}, position : Nat]
BY DEF Seen, Ticket

(* A step announces the copy of a request that has written, and WAITING to   *)
(* others; or nothing.                                                      *)
LEMMA Announcements ==
    ASSUME TypeOK, ShownTypeOK, [LiveNext]_liveVars
    PROVE  \/ shown' = shown
           \/ \E r \in Slot :
                /\ pc[r] \in Settling /\ rows' = rows /\ ShownTypeOK'
                /\ \A e \in Entry :
                     \/ e = call[r].entry /\ shown'[e].status = loaded[r].status
                     \/ shown'[e].status = "WAITING"
                     \/ shown'[e] = shown[e]
<1>a. /\ \A r \in Slot : loaded[r] \in Ticket /\ Seen(loaded[r]).status = loaded[r].status
      /\ \A r \in Slot : plan[r] \in [Entry -> Nat]
      /\ NoUpdate \in [Entry -> Nat]
  BY DEF TypeOK, RequestTypeOK, Seen, NoUpdate, NoPosition
<1>1. ASSUME NEW r \in Slot, Registered(r)
      PROVE  /\ pc[r] \in Settling /\ rows' = rows /\ ShownTypeOK'
             /\ \A e \in Entry : \/ e = call[r].entry /\ shown'[e].status = loaded[r].status
                                 \/ shown'[e] = shown[e]
  <2>1. /\ pc[r] = "store" /\ rows' = rows
        /\ shown' = [shown EXCEPT ![call[r].entry] = Seen(loaded[r])]
    BY <1>1 DEF Registered, RegisterStore, At, dbVars
  <2> QED
    BY <1>a, <2>1, SeenIsShown DEF ShownTypeOK, Settling
<1>2. ASSUME NEW r \in Slot, NEW updates \in [Entry -> Nat], Announce(r, updates)
      PROVE  /\ ShownTypeOK'
             /\ \A e \in Entry : \/ e = call[r].entry /\ shown'[e].status = loaded[r].status
                                 \/ shown'[e].status = "WAITING"
                                 \/ shown'[e] = shown[e]
  BY <1>a, <1>2, SeenIsShown DEF Announce, ShownTypeOK, Status
<1>3. ASSUME NEW r \in Slot, Unmoved(r) \/ Moved(r) \/ Assigned(r)
      PROVE  /\ pc[r] \in Settling /\ rows' = rows
             /\ \E updates \in [Entry -> Nat] : Announce(r, updates)
  <2>1. \E updates \in [Entry -> Nat] : Announce(r, updates)
    BY <1>a, <1>3 DEF Unmoved, Moved, Assigned
  <2>2. pc[r] \in {"recalc", "publish", "evict"} /\ rows' = rows
    BY <1>3 DEF Unmoved, Moved, Assigned, Recalculate, RecalculatePublish, Evict, At,
       ReadsOnly, storeVars, dbVars
  <2> QED
    BY <2>1, <2>2 DEF Settling
<1>4. CASE \/ \E r \in Slot : Silent(r)
           \/ (Expire \/ Quiet) /\ UNCHANGED shown
           \/ UNCHANGED liveVars
  BY <1>4 DEF Silent, liveVars
<1> QED
  BY <1>1, <1>2, <1>3, <1>4 DEF LiveNext

(* An end that was announced is in the database, and stays there. *)
LEMMA AnnouncedIsTrueStep ==
    ASSUME TicketInvariant, ShownTypeOK, AnnouncedIsTrue, [LiveNext]_liveVars
    PROVE  ShownTypeOK' /\ AnnouncedIsTrue'
<1>a. ExclusiveInvariant /\ TypeOK /\ WrittenStays /\ [Next]_vars
  BY LiveStep DEF TicketInvariant, ExclusiveInvariant
<1>1. CASE shown' = shown
  <2>1. ASSUME NEW e \in Entry, shown'[e].status \in Terminal
        PROVE  rows'[e].status = shown'[e].status
    BY <1>a, <1>1, <2>1, TerminalStep DEF AnnouncedIsTrue
  <2> QED
    BY <1>1, <2>1 DEF ShownTypeOK, AnnouncedIsTrue
<1>2. ASSUME NEW r \in Slot,
             pc[r] \in Settling, rows' = rows,
             \A e \in Entry : \/ e = call[r].entry /\ shown'[e].status = loaded[r].status
                              \/ shown'[e].status = "WAITING"
                              \/ shown'[e] = shown[e]
      PROVE  AnnouncedIsTrue'
  <2>1. loaded[r].status = rows[call[r].entry].status
    BY <1>a, <1>2 DEF WrittenStays
  <2> QED
    BY <1>2, <2>1 DEF AnnouncedIsTrue, Terminal
<1> QED
  BY <1>a, <1>1, <1>2, Announcements

(* With exclusive clients a party is told that it was seated, skipped or     *)
(* cancelled only when that is what the database says, and it stays what the *)
(* database says: no failure after the announcement takes it back.           *)
THEOREM AnnouncedIsTrueHolds ==
    ASSUME Apart PROVE LiveSpec => []AnnouncedIsTrue
<1>1. LiveInit => ShownTypeOK /\ AnnouncedIsTrue
  <2> SUFFICES ASSUME LiveInit PROVE ShownTypeOK /\ AnnouncedIsTrue
    OBVIOUS
  <2>1. /\ shown = [e \in Entry |-> Seen(rows[e])]
        /\ \A e \in Entry : rows[e] \in Ticket
    BY TypeInit DEF LiveInit, TypeOK, StoreTypeOK
  <2> QED
    BY <2>1, SeenIsShown DEF ShownTypeOK, AnnouncedIsTrue, Seen
<1> QED
  BY <1>1, LiveImplementsSpec, TicketInvariantHolds, AnnouncedIsTrueStep, PTL DEF LiveSpec

=============================================================================
