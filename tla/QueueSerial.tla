----------------------------- MODULE QueueSerial -----------------------------
(***************************************************************************)
(* The queue served by one request at a time: what long sequences of       *)
(* requests, some of them failing half way, leave behind in the rows, in   *)
(* the cache and on the parties' screens.  With a single slot no two       *)
(* requests overlap; which properties hold depends on what was asked for.  *)
(***************************************************************************)
EXTENDS QueueEvents, QueueReads

VARIABLES
    asked,      \* which of shift and tables/assign were used so far
    counted     \* Entry -> the parties its first prediction was asked for

serialVars == <<liveVars, columnVars, asked, counted>>

SerialInit ==
    /\ LiveInit
    /\ ColumnsInit
    /\ asked = {}
    /\ counted = [e \in Entry |-> {f \in Active : Before(f, e) /\ e \in Active}]

(* A row is written when it changes, and when a batch of positions lists it. *)
Written ==
    {e \in Entry : \/ rows'[e] # rows[e]
                   \/ \E r \in Slot : /\ plan[r][e] # NoPosition
                                     /\ <<pc[r], pc'[r]>> \in {<<"batch", "commit">>,
                                                               <<"write", "publish">>}}

Registering(e) == \E r \in Slot : /\ call'[r].op = "register"
                                  /\ call'[r].entry = e

CountAhead ==
    counted' = [e \in Entry |->
        IF \E r \in Slot : pc[r] = "depth" /\ pc'[r] = "count" /\ call[r].entry = e
        THEN PeopleAhead
        ELSE IF Registering(e) \/ IsWaiting(rows'[e]) THEN counted[e] ELSE {}]

SerialNext ==
    /\ LiveNext
    /\ StampRows(Written, clock')
    /\ CountAhead
    /\ asked' = asked \union ({call'[r].op : r \in Slot} \intersect {"shift", "assign"})

SerialSpec == SerialInit /\ [][SerialNext]_serialVars

-----------------------------------------------------------------------------
(* Properties. *)

(* Whatever fails, the daily numbers of one kind of ticket are distinct: a  *)
(* failed registration that was stored counts, one that was not does not.   *)
NumbersAreDistinct ==
    \A e, f \in Created :
        /\ rows[e].guest.kind = rows[f].guest.kind
        /\ rows[e].number = rows[f].number
        => e = f

(* First come, first served: findActiveEntries lists the waiting parties in *)
(* the order they joined, unless staff shift a party or use tables/assign,  *)
(* which does not recalculate.  One lost recalculation leaves a gap that    *)
(* the next position fills at worst as a tie; a second one would let a new  *)
(* party slip in ahead of an old one.                                       *)
ListedChronologically ==
    asked = {} /\ faults <= 1 =>
        \A e, f \in Active : rows[e].joinedAt < rows[f].joinedAt => Before(e, f)

(* Between requests the waiting parties are numbered 1, 2, ..., if no       *)
(* recalculation failed or was left out.                                    *)
RanksAreContiguous ==
    Running = {} /\ faults = 0 /\ "assign" \notin asked =>
        {rows[e].position : e \in Active} = 1..QueueDepth

(* Shifting moves one ticket and nobody else: the parties it is not about   *)
(* keep their order, and it ends up behind exactly as many of those it was  *)
(* ahead of as the staff asked for, or behind all of them.                  *)
Ahead(e) == {f \in Active : Before(f, e)}
Behind(e) == {f \in Active : Before(e, f)}

ShiftIsLocal ==
    [][\A r \in Slot : pc[r] = "batch" /\ pc'[r] = "commit" =>
        LET e == call[r].entry IN
        /\ \A f, g \in Active \ {e} : Before(f, g) <=> Before(f, g)'
        /\ Ahead(e) \subseteq Ahead(e)'
        /\ \/ Cardinality(Ahead(e)' \ Ahead(e)) = call[r].shift
           \/ Behind(e)' = {} /\ Cardinality(Behind(e)) < call[r].shift]_vars

(* A shift stores the new positions itself, so that the recalculation after *)
(* it finds nothing to cache or announce.  Without shifts and failures, the *)
(* cache holds exactly the waiting tickets at their stored positions ...    *)
CacheAgrees ==
    Running = {} /\ faults = 0 /\ "shift" \notin asked =>
        \A e \in Entry : cache[e] = IF e \in Active THEN rows[e].position ELSE NoPosition

(* ... and every party sees what is stored of its ticket.                   *)
ShownIsStored ==
    Running = {} /\ faults = 0 /\ "shift" \notin asked =>
        \A e \in Entry : shown[e] = Seen(rows[e])

-----------------------------------------------------------------------------
(* What the readers are told. *)

(* The staff and the customer are told one position, although the staff's   *)
(* is counted off a list ordered by joinedAt and the customer's is stored;  *)
(* the customer's query finds the very ticket.  A list cut down to some     *)
(* party sizes is counted off from one again: it may put a party further to *)
(* the front than it is, never further back.                                *)
ViewsAgree ==
    Running = {} /\ faults = 0 /\ asked = {} =>
        \A e \in Active :
            /\ StaffPlace(e, Entry) = rows[e].position
            /\ rows[e].guest.user # NoUser => ActiveTicket(rows[e].guest.user) = {e}
            /\ \A selected \in SUBSET Active :
                    e \in selected => StaffPlace(e, selected) <= rows[e].position

(* The training event of a party reports the people ahead of it at joining  *)
(* as they were counted for its first prediction, whoever has been seated,  *)
(* skipped or cancelled since: countPeopleAheadAtJoin reconstructs them     *)
(* from the time stamps of the rows.                                        *)
TrainedAsServed == \A e \in Active : PeopleAheadAtJoin(e) = counted[e]

(* The wait of a party that left is over: whatever is done to the others,   *)
(* the staff never see it grow.                                             *)
WaitIsOver ==
    [][\A e \in Entry : Ended(rows[e]) =>
        WaitDuration(e, clock)' = WaitDuration(e, clock)]_serialVars
=============================================================================
