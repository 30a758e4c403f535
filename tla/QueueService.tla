---------------------------- MODULE QueueService ----------------------------
(***************************************************************************)
(* The use cases of the queue service as concurrent requests.  A slot is   *)
(* one request being handled; between two awaits a handler runs without    *)
(* interruption, so an action is the code from one await to the next, and  *)
(* requests in different slots interleave at the awaits.                   *)
(*                                                                         *)
(* A request holds the ticket it loaded in memory (loaded) and later       *)
(* writes that copy back in full; what other requests committed in the     *)
(* meantime is what makes the service hard.                                *)
(*                                                                         *)
(* WebSocket events, the push job of ring and the ETA training event are   *)
(* outputs nobody here reads back, and are not part of the state; that the *)
(* ring waits until Redis has taken its job is.                            *)
(***************************************************************************)
EXTENDS QueueStore

CONSTANTS
    Slot,           \* requests that can be in flight together
    Endpoint,       \* which use cases clients call
    CancelStatus,   \* what a cancel asks for: CANCELLED, NO_SHOW
    MaxShift,       \* bound on skipPositions
    InitialQueue,   \* guests already registered, one after the other
    MaxRequests,    \* bound on the requests served
    MaxFaults,      \* bound on failures, lost cache writes and key expiries
    Exclusive       \* TRUE: clients never overlap two requests on one ticket

Endpoints == {"register", "seat", "assign", "skip", "shift", "cancel", "ring"}

ASSUME ServiceAssumption ==
    /\ Endpoint \subseteq Endpoints
    /\ CancelStatus \subseteq {"CANCELLED", "NO_SHOW"}
    /\ InitialQueue \in Seq(Guest)
    /\ MaxShift \in Nat /\ MaxRequests \in Nat /\ MaxFaults \in Nat
    /\ Exclusive \in BOOLEAN

VARIABLES
    clock,      \* the last joinedAt handed out
    pc,         \* Slot -> the await the request is suspended at
    call,       \* Slot -> what the client asked for
    loaded,     \* Slot -> the ticket in memory
    previous,   \* Slot -> previousStatus, read before the transition
    plan,       \* Slot -> position updates computed and not yet written
    found,      \* Slot -> the active table assignments a cancel read
    served,     \* requests accepted so far
    faults      \* failures so far

localVars == <<call, loaded, previous, plan, found>>
vars == <<rows, history, seatings, cache, upstream, clock, pc, call, loaded,
          previous, plan, found, served, faults>>

Call == {c \in [op : Endpoints, entry : Entry, guest : Guest \union {NoGuest},
               tables : SUBSET Table, shift : Nat, status : Status] :
             c.op = "cancel" => c.status \in Terminal}

NoCall     == [op |-> "none"]
NoUpdate   == [e \in Entry |-> NoPosition]
NoSeatings == [t \in Table |-> 0]

Await == {"idle",
          "check", "depth", "count", "create", "verify", "insert", "store",
          "load", "occupy", "assignments", "release", "unlink",
          "rank", "batch", "commit", "save", "enqueue", "evict",
          "recalc", "write", "publish"}

RequestTypeOK ==
    /\ pc \in [Slot -> Await]
    /\ call \in [Slot -> Call \union {NoCall}]
    /\ \A r \in Slot : pc[r] # "idle" => call[r] \in Call
    /\ loaded \in [Slot -> Ticket]
    /\ previous \in [Slot -> Status \union {"NONE"}]
    /\ plan \in [Slot -> [Entry -> Nat]]
    /\ found \in [Slot -> [Table -> Nat]]

TypeOK ==
    /\ StoreTypeOK
    /\ RequestTypeOK
    /\ clock \in Nat
    /\ served \in 0..MaxRequests
    /\ faults \in 0..MaxFaults

-----------------------------------------------------------------------------
(* The state a quiet service is in after InitialQueue registered in order. *)

Init ==
    \E ids \in [DOMAIN InitialQueue -> Entry] :
        /\ \A i, j \in DOMAIN InitialQueue : ids[i] = ids[j] => i = j
        /\ LET Place(e) == CHOOSE i \in DOMAIN InitialQueue : ids[i] = e
               queued   == {ids[i] : i \in DOMAIN InitialQueue}
           IN /\ rows = [e \in Entry |->
                    IF e \in queued
                    THEN CreateTicket(InitialQueue[Place(e)], Place(e), Place(e), Place(e))
                    ELSE AbsentRow]
              /\ history = [e \in Entry |->
                    IF e \in queued
                    THEN <<[previous |-> "NONE", current |-> "WAITING"]>>
                    ELSE <<>>]
              /\ cache = [e \in Entry |-> IF e \in queued THEN Place(e) ELSE NoPosition]
        /\ clock = Len(InitialQueue)
        /\ seatings = [e \in Entry |-> NoSeatings]
        /\ upstream = NoSeatings
        /\ pc = [r \in Slot |-> "idle"]
        /\ call = [r \in Slot |-> NoCall]
        /\ loaded = [r \in Slot |-> AbsentRow]
        /\ previous = [r \in Slot |-> "NONE"]
        /\ plan = [r \in Slot |-> NoUpdate]
        /\ found = [r \in Slot |-> NoSeatings]
        /\ served = 0
        /\ faults = 0

-----------------------------------------------------------------------------
(* Control of one request. *)

At(r, await) == pc[r] = await

Goto(r, await) == pc' = [pc EXCEPT ![r] = await]

Running == {r \in Slot : pc[r] # "idle"}

(* The handler returns or throws; what it held in memory is garbage. *)
Finish(r) ==
    /\ Goto(r, "idle")
    /\ call' = [call EXCEPT ![r] = NoCall]
    /\ loaded' = [loaded EXCEPT ![r] = AbsentRow]
    /\ previous' = [previous EXCEPT ![r] = "NONE"]
    /\ plan' = [plan EXCEPT ![r] = NoUpdate]
    /\ found' = [found EXCEPT ![r] = NoSeatings]

(* Continue in memory only: nothing durable changes at this await. *)
ReadsOnly == UNCHANGED <<storeVars, clock, served, faults>>

SpendFault == faults < MaxFaults /\ faults' = faults + 1

-----------------------------------------------------------------------------
(* Requests arriving. *)

(* A ticket id is a fresh UUID, chosen here so that a call names one ticket. *)
Fresh == {e \in Entry : /\ rows[e].status = "ABSENT"
                        /\ \A q \in Running : call[q].entry # e}

Created == {e \in Entry : rows[e].status # "ABSENT"}

Request(op, entries, guests, tables, shifts, statuses) ==
    [op : {op} \intersect Endpoint, entry : entries, guest : guests,
     tables : tables, shift : shifts, status : statuses]

(* tableIds and tables are validated to be non-empty and duplicate-free,    *)
(* skipPositions to be positive, the cancel reason to be a known one.       *)
Requests ==
    LET tableSets == (SUBSET Table) \ {{}} IN
         Request("register", Fresh, Guest, {{}}, {0}, {"WAITING"})
  \union Request("seat", Created, {NoGuest}, tableSets, {0}, {"SEATED"})
  \union Request("assign", Created, {NoGuest}, tableSets, {0}, {"SEATED"})
  \union Request("skip", Created, {NoGuest}, {{}}, {0}, {"SKIPPED"})
  \union Request("shift", Created, {NoGuest}, {{}}, 1..MaxShift, {"WAITING"})
  \union Request("cancel", Created, {NoGuest}, {{}}, {0}, CancelStatus)
  \union Request("ring", Created, {NoGuest}, {{}}, {0}, {"WAITING"})

SameGuest(g, h) ==
    \/ g.phone = h.phone
    \/ g.user = h.user /\ g.user # NoUser

(* Exclusive clients wait for the answer about a ticket, or about a guest   *)
(* who is joining, before they send the next request about it.  The service *)
(* itself takes no lock of any kind.                                        *)
Disjoint(c, d) ==
    /\ c.entry # d.entry
    /\ c.op = "register" /\ d.op = "register" => ~SameGuest(c.guest, d.guest)

Accept(r) ==
    /\ At(r, "idle")
    /\ served < MaxRequests
    /\ \E c \in Requests :
        /\ Exclusive => \A q \in Running : Disjoint(c, call[q])
        /\ call' = [call EXCEPT ![r] = c]
        /\ Goto(r, IF c.op = "register" THEN "check" ELSE "load")
    /\ served' = served + 1
    /\ UNCHANGED <<storeVars, clock, loaded, previous, plan, found, faults>>

(* An answer of 4xx before anything is written: wrong restaurant, blocked   *)
(* restaurant, missing subscription, closed, table free, too few seats; or  *)
(* the restaurant service refusing the tables.                              *)
Refuse(r) ==
    /\ pc[r] \in {"check", "load", "occupy", "release"}
    /\ Finish(r)
    /\ ReadsOnly

(* The request dies at any await: the database or the restaurant service    *)
(* fails or times out, or the process crashes.  A step that did happen but  *)
(* was reported as failed is that step followed by this one.  No handler    *)
(* compensates for what it has already done.                                *)
Fail(r) ==
    /\ pc[r] # "idle"
    /\ SpendFault
    /\ Finish(r)
    /\ UNCHANGED <<storeVars, clock, served>>

(* A cached entry outlives neither its TTL nor a Redis flush. *)
Expire ==
    /\ SpendFault
    /\ \E e \in Entry : cache[e] # NoPosition /\ RemoveLiveEntry(e)
    /\ UNCHANGED <<dbVars, upstream, clock, pc, localVars, served>>

-----------------------------------------------------------------------------
(* Registering.  predictEta never throws, and is an await between the       *)
(* metrics and the insert.                                                  *)

(* Mutant: only the phone number is looked for. *)
DuplicatePhone(guest) == ActiveByPhone(guest.phone) # {}

Duplicate(guest) == ActiveByPhone(guest.phone) # {} \/ ActiveByUser(guest.user) # {}

RegisterCheck(r) ==
    /\ At(r, "check")
    /\ \/ /\ Duplicate(call[r].guest)
          /\ Finish(r)
       \/ /\ ~Duplicate(call[r].guest)
          /\ Goto(r, "depth")
          /\ UNCHANGED localVars
    /\ ReadsOnly

(* The two queries of getRegistrationMetrics share a transaction, but at    *)
(* READ COMMITTED each statement has a snapshot of its own.                 *)
RegisterDepth(r) ==
    /\ At(r, "depth")
    /\ loaded' = [loaded EXCEPT ![r].position = QueueDepth + 1]
    /\ Goto(r, "count")
    /\ UNCHANGED <<call, previous, plan, found>>
    /\ ReadsOnly

RegisterCount(r) ==
    /\ At(r, "count")
    /\ loaded' = [loaded EXCEPT ![r].number = CountToday + 1]
    /\ Goto(r, "create")
    /\ UNCHANGED <<call, previous, plan, found>>
    /\ ReadsOnly

(* Mutant: the ticket is cached before it is inserted. *)
RegisterCreateCaches(r) ==
    /\ At(r, "create")
    /\ clock' = clock + 1
    /\ loaded' = [loaded EXCEPT ![r] =
                      CreateTicket(call[r].guest, @.position, @.number, clock')]
    /\ cache' = [cache EXCEPT ![call[r].entry] = loaded[r].position]
    /\ Goto(r, "verify")
    /\ UNCHANGED <<dbVars, upstream, call, previous, plan, found, served, faults>>

(* predictEta has answered; QueueEntry.create stamps joinedAt. *)
RegisterCreate(r) ==
    /\ At(r, "create")
    /\ clock' = clock + 1
    /\ loaded' = [loaded EXCEPT ![r] =
                      CreateTicket(call[r].guest, @.position, @.number, clock')]
    /\ Goto(r, "verify")
    /\ UNCHANGED <<storeVars, call, previous, plan, found, served, faults>>

(* createWithHistory looks for a duplicate again inside its transaction ... *)
RegisterVerify(r) ==
    /\ At(r, "verify")
    /\ \/ /\ Duplicate(call[r].guest)
          /\ Finish(r)
       \/ /\ ~Duplicate(call[r].guest)
          /\ Goto(r, "insert")
          /\ UNCHANGED localVars
    /\ ReadsOnly

(* ... and inserts.  No constraint of the schema backs the check up. *)
RegisterInsert(r) ==
    /\ At(r, "insert")
    /\ CreateWithHistory(call[r].entry, loaded[r])
    /\ Goto(r, "store")
    /\ UNCHANGED <<cache, upstream, clock, localVars, served, faults>>

RegisterStore(r) ==
    /\ At(r, "store")
    /\ \/ /\ cache' = [cache EXCEPT ![call[r].entry] = loaded[r].position]
          /\ UNCHANGED faults
       \/ SpendFault /\ UNCHANGED cache
    /\ Finish(r)
    /\ UNCHANGED <<dbVars, upstream, clock, served>>

-----------------------------------------------------------------------------
(* Transitions of an existing ticket.  findById, then the entity's guard    *)
(* and mutation on the copy, without an await in between.                   *)

(* Mutant: a party that was seated may still be cancelled. *)
PermittedAfterSeating(c, ticket) ==
    IF c.op = "ring" THEN CanRing(ticket)
    ELSE IsWaiting(ticket) \/ (c.op = "cancel" /\ ticket.status = "SEATED")

Permitted(c, ticket) == IF c.op = "ring" THEN CanRing(ticket) ELSE IsWaiting(ticket)

Transform(c, ticket) ==
    CASE c.op \in {"seat", "assign"} -> SeatTicket(ticket)
      [] c.op = "skip"               -> SkipTicket(ticket)
      [] c.op = "cancel"             -> CancelTicket(ticket, c.status)
      [] c.op = "ring"               -> RingTicket(ticket)
      [] OTHER                       -> ticket

AfterLoad(op) ==
    CASE op \in {"seat", "assign"} -> "occupy"
      [] op = "skip"               -> "commit"
      [] op = "shift"              -> "rank"
      [] op = "cancel"             -> "assignments"
      [] OTHER                     -> "save"

Load(r) ==
    /\ At(r, "load")
    /\ LET c == call[r]  ticket == rows[c.entry] IN
       \/ /\ ~Permitted(c, ticket)
          /\ Finish(r)
       \/ /\ Permitted(c, ticket)
          /\ loaded' = [loaded EXCEPT ![r] = Transform(c, ticket)]
          /\ previous' = [previous EXCEPT ![r] = ticket.status]
          /\ Goto(r, AfterLoad(c.op))
          /\ UNCHANGED <<call, plan, found>>
    /\ ReadsOnly

(* Ringing saves the whole copy.  A party without a device, which tickets   *)
(* do not show here, is not sent a push.                                    *)
RingSave(r) ==
    /\ At(r, "save")
    /\ SaveEntry(call[r].entry, loaded[r])
    /\ \/ Finish(r)
       \/ Goto(r, "enqueue") /\ UNCHANGED localVars
    /\ UNCHANGED <<cache, upstream, clock, served, faults>>

(* addJob has settled, whether it added the job or threw: either way ring   *)
(* answers.  It settles only while Redis is there; PushDelivery has that.   *)
RingEnqueue(r) ==
    /\ At(r, "enqueue")
    /\ Finish(r)
    /\ ReadsOnly

(* Seating occupies the tables first, and only then the database. *)
Occupy(r) ==
    /\ At(r, "occupy")
    /\ AssignUpstream(call[r].tables)
    /\ Goto(r, "commit")
    /\ UNCHANGED <<dbVars, cache, clock, localVars, served, faults>>

(* Cancelling gives back the tables it finds assigned, in the restaurant    *)
(* service and then in the database, before it cancels.                     *)
CancelAssignments(r) ==
    /\ At(r, "assignments")
    /\ found' = [found EXCEPT ![r] = seatings[call[r].entry]]
    /\ Goto(r, IF seatings[call[r].entry] = NoSeatings THEN "commit" ELSE "release")
    /\ UNCHANGED <<call, loaded, previous, plan>>
    /\ ReadsOnly

CancelRelease(r) ==
    /\ At(r, "release")
    /\ ReleaseUpstream(found[r])
    /\ Goto(r, "unlink")
    /\ UNCHANGED <<dbVars, cache, clock, localVars, served, faults>>

CancelUnlink(r) ==
    /\ At(r, "unlink")
    /\ ReleaseTableAssignments(call[r].entry)
    /\ Goto(r, "commit")
    /\ UNCHANGED <<cache, upstream, clock, localVars, served, faults>>

(* Shifting moves the ticket skipPositions places down, at most to the end, *)
(* and everyone it passes one place up; a ticket that is no longer in the   *)
(* list is skipped for good instead.                                        *)
ShiftTarget(e, distance) ==
    LET end == QueueDepth
    IN IF Rank(e) + distance < end THEN Rank(e) + distance ELSE end

(* Mutant: the party at the target keeps its place. *)
ShiftedRankBeforeTarget(e, target, f) ==
    IF f = e THEN target
    ELSE IF Rank(e) < Rank(f) /\ Rank(f) < target THEN Rank(f) - 1
    ELSE Rank(f)

ShiftedRank(e, target, f) ==
    IF f = e THEN target
    ELSE IF Rank(e) < Rank(f) /\ Rank(f) <= target THEN Rank(f) - 1
    ELSE Rank(f)

ShiftRank(r) ==
    /\ At(r, "rank")
    /\ LET e      == call[r].entry
           target == ShiftTarget(e, call[r].shift)
       IN \/ /\ e \in Active
             /\ plan' = [plan EXCEPT ![r] =
                    [f \in Entry |-> IF f \in Active THEN ShiftedRank(e, target, f)
                                     ELSE NoPosition]]
             /\ loaded' = [loaded EXCEPT ![r] = UpdatePosition(@, target)]
             /\ Goto(r, "batch")
          \/ /\ e \notin Active
             /\ loaded' = [loaded EXCEPT ![r] = SkipTicket(@)]
             /\ Goto(r, "commit")
             /\ UNCHANGED plan
    /\ UNCHANGED <<call, previous, found>>
    /\ ReadsOnly

ShiftBatch(r) ==
    /\ At(r, "batch")
    /\ BatchUpdatePositions(plan[r])
    /\ plan' = [plan EXCEPT ![r] = NoUpdate]
    /\ Goto(r, "commit")
    /\ UNCHANGED <<cache, upstream, clock, call, loaded, previous, found, served, faults>>

(* The transaction that makes the transition durable.  It overwrites the    *)
(* row with the copy, whatever the row has become since it was loaded.  A   *)
(* shifted ticket stays cached; every other one is evicted next.            *)
Commit(r) ==
    /\ At(r, "commit")
    /\ LET c == call[r] IN
       \/ /\ c.op \in {"seat", "assign"}
          /\ AssignTablesWithHistory(c.entry, loaded[r], c.tables, previous[r])
       \/ /\ c.op \in {"skip", "shift", "cancel"}
          /\ UpdateStatusWithHistory(c.entry, loaded[r], previous[r])
    /\ Goto(r, IF IsWaiting(loaded[r]) THEN "recalc" ELSE "evict")
    /\ UNCHANGED <<cache, upstream, clock, localVars, served, faults>>

(* Mutant: no transition recalculates. *)
EvictOnly(r) ==
    /\ At(r, "evict")
    /\ \/ RemoveLiveEntry(call[r].entry) /\ UNCHANGED faults
       \/ SpendFault /\ UNCHANGED cache
    /\ Finish(r)
    /\ UNCHANGED <<dbVars, upstream, clock, served>>

(* removeLiveEntry swallows a Redis error.  The tables/assign endpoint ends *)
(* here: it alone leaves the positions of the others as they are.           *)
Evict(r) ==
    /\ At(r, "evict")
    /\ \/ RemoveLiveEntry(call[r].entry) /\ UNCHANGED faults
       \/ SpendFault /\ UNCHANGED cache
    /\ \/ call[r].op = "assign" /\ Finish(r)
       \/ call[r].op # "assign" /\ Goto(r, "recalc") /\ UNCHANGED localVars
    /\ UNCHANGED <<dbVars, upstream, clock, served>>

-----------------------------------------------------------------------------
(* QueuePositionRecalculator.recalculate: number the active tickets 1, 2,   *)
(* ..., write those whose position or ETA changed, then cache them.  The    *)
(* ETA service may answer anything, so any set of ETAs may have changed.    *)

Renumbering(etaChanged) ==
    [e \in Entry |->
        IF e \in Active /\ (rows[e].position # Rank(e) \/ e \in etaChanged)
        THEN Rank(e) ELSE NoPosition]

Recalculate(r) ==
    /\ At(r, "recalc")
    /\ \E etaChanged \in SUBSET Active :
        LET updates == Renumbering(etaChanged) IN
        \/ /\ updates = NoUpdate
           /\ Finish(r)
        \/ /\ updates # NoUpdate
           /\ plan' = [plan EXCEPT ![r] = updates]
           /\ Goto(r, "write")
           /\ UNCHANGED <<call, loaded, previous, found>>
    /\ ReadsOnly

RecalculateWrite(r) ==
    /\ At(r, "write")
    /\ BatchUpdatePositions(plan[r])
    /\ Goto(r, "publish")
    /\ UNCHANGED <<cache, upstream, clock, localVars, served, faults>>

(* Mutant: the recalculation repeats until nothing changes. *)
RecalculateAgain(r) ==
    /\ At(r, "publish")
    /\ SaveLiveEntries(plan[r], {})
    /\ Goto(r, "recalc")
    /\ UNCHANGED <<dbVars, upstream, clock, localVars, served, faults>>

(* Every changed ticket is cached; each write may fail on its own. *)
RecalculatePublish(r) ==
    /\ At(r, "publish")
    /\ \E lost \in SUBSET {e \in Entry : plan[r][e] # NoPosition} :
        /\ SaveLiveEntries(plan[r], lost)
        /\ IF lost = {} THEN UNCHANGED faults ELSE SpendFault
    /\ Finish(r)
    /\ UNCHANGED <<dbVars, upstream, clock, served>>

-----------------------------------------------------------------------------
(* The next await of a request that goes well. *)
Advance(r) ==
    \/ RegisterCheck(r) \/ RegisterDepth(r) \/ RegisterCount(r) \/ RegisterCreate(r)
    \/ RegisterVerify(r) \/ RegisterInsert(r) \/ RegisterStore(r)
    \/ Load(r) \/ RingSave(r) \/ RingEnqueue(r) \/ Occupy(r)
    \/ CancelAssignments(r) \/ CancelRelease(r) \/ CancelUnlink(r)
    \/ ShiftRank(r) \/ ShiftBatch(r) \/ Commit(r) \/ Evict(r)
    \/ Recalculate(r) \/ RecalculateWrite(r) \/ RecalculatePublish(r)

(* The bound on requests is reached and every one of them is answered. *)
Quiet ==
    /\ served = MaxRequests
    /\ Running = {}
    /\ UNCHANGED vars

Next ==
    \/ \E r \in Slot : Accept(r) \/ Refuse(r) \/ Fail(r) \/ Advance(r)
    \/ Expire
    \/ Quiet

Spec == Init /\ [][Next]_vars

(* The event loop resumes every handler whose I/O has settled, and every    *)
(* call a handler awaits settles: HTTP calls and breakers have timeouts,    *)
(* Redis and ETA errors are swallowed, Prisma answers or throws.  addJob    *)
(* alone may never settle: BullMQ's connection waits for Redis for ever.    *)
Resumes(r) == pc[r] # "enqueue" /\ Advance(r)

FairSpec == Spec /\ \A r \in Slot : WF_vars(Resumes(r))
=============================================================================
