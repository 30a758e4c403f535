-------------------------- MODULE TicketRoomsProofs --------------------------
(***************************************************************************)
(* Nobody hears about a ticket that is not theirs to hear about, for any   *)
(* number of sockets and tickets and any overlap of their look-ups.        *)
(*                                                                         *)
(* What has to be kept is more than what is promised: a socket remembers   *)
(* only tickets it belongs to whatever its status is, because a look-up    *)
(* may be answered after the socket has gone, and what it remembers then   *)
(* would be trusted by a later join:ticket without another look-up.        *)
(***************************************************************************)
EXTENDS TicketRooms, TLAPS

(* What a socket is in, and what it remembers, at all times. *)
Inv ==
    /\ TypeOK
    /\ \A s \in Socket, t \in Ticket :
           t \in rooms[s] \/ remembered[s] = t => BelongsTo(s, t)

(* Nothing is entered or remembered before the handshake. *)
LEMMA InitHolds == Init => Inv
<1> SUFFICES ASSUME Init PROVE Inv
  OBVIOUS
<1>1. TypeOK
  BY RoomsAssumption DEF Init, TypeOK
<1>2. ASSUME NEW s \in Socket, NEW t \in Ticket, t \in rooms[s] \/ remembered[s] = t
      PROVE  BelongsTo(s, t)
  BY <1>2 DEF Init, BelongsTo
<1> QED
  BY <1>1, <1>2 DEF Inv

(* Connections, rooms, look-ups and memories keep their types, and a socket  *)
(* that is not connected is in no room.                                     *)
LEMMA TypeStep == ASSUME TypeOK, [Next]_vars PROVE TypeOK'
<1>1. CASE UNCHANGED vars
  BY <1>1 DEF vars, TypeOK
<1>2. ASSUME NEW s \in Socket, Connect(s) PROVE TypeOK'
  BY <1>2, RoomsAssumption DEF Connect, TypeOK, FirstRooms, Room
<1>3. ASSUME NEW s \in Socket, Disconnect(s) PROVE TypeOK'
  BY <1>3 DEF Disconnect, TypeOK
<1>4. ASSUME NEW s \in Socket, JoinRestaurant(s) \/ JoinQueue(s) PROVE TypeOK'
  <2>1. rooms' = rooms \/ \E room \in {"restaurant", "queue"} :
               rooms' = [rooms EXCEPT ![s] = @ \union {room}]
    BY <1>4 DEF JoinRestaurant, JoinQueue, Enter, Refuse
  <2>2. rooms' \in [Socket -> SUBSET Room]
    BY <2>1 DEF TypeOK, Room
  <2>3. status[s] = "connected" /\ UNCHANGED <<status, asked, remembered>>
    BY <1>4 DEF JoinRestaurant, JoinQueue
  <2>4. \A r \in Socket : status[r] # "connected" => rooms'[r] = {}
    BY <2>1, <2>3 DEF TypeOK
  <2> QED
    BY <2>2, <2>3, <2>4 DEF TypeOK
<1>5. ASSUME NEW s \in Socket, NEW room \in Room, Leave(s, room) PROVE TypeOK'
  BY <1>5 DEF Leave, TypeOK
<1>6. ASSUME NEW s \in Socket, NEW t \in Ticket, JoinTicket(s, t) PROVE TypeOK'
  <2>1. t \in Room
    BY DEF Room
  <2>2. rooms' \in [Socket -> SUBSET Room]
    BY <1>6, <2>1 DEF JoinTicket, Enter, TypeOK
  <2>3. asked' \in [Lookup -> (Socket \X Ticket) \union {NoLookup}]
    BY <1>6 DEF JoinTicket, TypeOK
  <2>4. status' = status /\ remembered' = remembered
    BY <1>6 DEF JoinTicket
  <2>5. \A r \in Socket : status[r] # "connected" => rooms'[r] = {}
    BY <1>6 DEF JoinTicket, Enter, TypeOK
  <2> QED
    BY <2>2, <2>3, <2>4, <2>5 DEF TypeOK
<1>7. ASSUME NEW l \in Lookup, TicketFound(l) PROVE TypeOK'
  <2>1. PICK s \in Socket, t \in Ticket : asked[l][1] = s /\ asked[l][2] = t
    BY <1>7 DEF TicketFound, TypeOK
  <2>2. t \in Room
    BY DEF Room
  <2>3. rooms' \in [Socket -> SUBSET Room]
    BY <1>7, <2>1, <2>2 DEF TicketFound, Enter, Refuse, TypeOK
  <2>4. asked' \in [Lookup -> (Socket \X Ticket) \union {NoLookup}]
    BY <1>7 DEF TicketFound, TypeOK
  <2>5. status' = status
    BY <1>7 DEF TicketFound
  <2>6. remembered' \in [Socket -> Ticket \union {NoTicket}]
    BY <1>7, <2>1 DEF TicketFound, TypeOK
  <2>7. \A r \in Socket : status[r] # "connected" => rooms'[r] = {}
    BY <1>7, <2>1 DEF TicketFound, Enter, Refuse, TypeOK
  <2> QED
    BY <2>3, <2>4, <2>5, <2>6, <2>7 DEF TypeOK
<1> QED
  BY <1>1, <1>2, <1>3, <1>4, <1>5, <1>6, <1>7 DEF Next

(* A step puts a socket into a ticket's room, or makes it remember a ticket, *)
(* only when it belongs there.                                              *)
LEMMA MovesAreAdmitted ==
  ASSUME Inv, Next, NEW s \in Socket, NEW t \in Ticket
  PROVE  /\ t \in rooms'[s] => t \in rooms[s] \/ BelongsTo(s, t)
         /\ remembered'[s] = t => remembered[s] = t \/ BelongsTo(s, t)
<1> DEFINE Goal ==
      /\ t \in rooms'[s] => t \in rooms[s] \/ BelongsTo(s, t)
      /\ remembered'[s] = t => remembered[s] = t \/ BelongsTo(s, t)
<1> SUFFICES Goal
  OBVIOUS
<1> USE DEF Inv, TypeOK
<1>1. ASSUME NEW r \in Socket, Connect(r) PROVE Goal
  <2>1. t \in FirstRooms(s) => Handshake[s] = t
    BY RoomsAssumption DEF FirstRooms
  <2>2. t \in rooms'[s] => t \in rooms[s] \/ t \in FirstRooms(s)
    BY <1>1 DEF Connect
  <2> QED
    BY <1>1, <2>1, <2>2 DEF Connect, BelongsTo
<1>2. ASSUME NEW r \in Socket, Disconnect(r) PROVE Goal
  BY <1>2 DEF Disconnect
<1>3. ASSUME NEW r \in Socket, JoinRestaurant(r) \/ JoinQueue(r) PROVE Goal
  <2>1. t # "restaurant" /\ t # "queue"
    BY RoomsAssumption
  <2> QED
    BY <1>3, <2>1 DEF JoinRestaurant, JoinQueue, Enter, Refuse
<1>4. ASSUME NEW r \in Socket, NEW room \in Room, Leave(r, room) PROVE Goal
  BY <1>4 DEF Leave
<1>5. ASSUME NEW r \in Socket, NEW u \in Ticket, JoinTicket(r, u) PROVE Goal
  <2>1. AtOnce(r, u) => BelongsTo(r, u)
    BY DEF AtOnce, BelongsTo
  <2>2. remembered' = remembered
    BY <1>5 DEF JoinTicket
  <2>3. t \in rooms'[s] => t \in rooms[s] \/ (s = r /\ t = u /\ AtOnce(r, u))
    BY <1>5 DEF JoinTicket, Enter
  <2> QED
    BY <2>1, <2>2, <2>3
<1>6. ASSUME NEW l \in Lookup, TicketFound(l) PROVE Goal
  <2>1. PICK r \in Socket, u \in Ticket : asked[l][1] = r /\ asked[l][2] = u
    BY <1>6 DEF TicketFound
  <2>2. CASE UNCHANGED <<rooms, remembered>>
    BY <2>2
  <2>3. CASE ~UNCHANGED <<rooms, remembered>>
    <3>1. Admits(r, u)
      BY <1>6, <2>1, <2>3 DEF TicketFound, Refuse
    <3>2. BelongsTo(r, u)
      BY <3>1 DEF Admits, BelongsTo
    <3>3. t \in rooms'[s] => t \in rooms[s] \/ (s = r /\ t = u)
      BY <1>6, <2>1 DEF TicketFound, Enter, Refuse
    <3>4. remembered'[s] = t => remembered[s] = t \/ (s = r /\ t = u)
      BY <1>6, <2>1 DEF TicketFound
    <3> QED
      BY <3>2, <3>3, <3>4
  <2> QED
    BY <2>2, <2>3
<1> HIDE DEF Goal
<1> QED
  BY <1>1, <1>2, <1>3, <1>4, <1>5, <1>6 DEF Next

(* Every socket in a ticket's room belongs there, and a connected one        *)
(* remembers no ticket it was not admitted to: events about a ticket reach  *)
(* its holder, the staff of its restaurant, admins, and whoever named it in *)
(* the handshake (handleTicketJoin and the rooms of the handshake).         *)
THEOREM RoomsAreAdmittedHolds == Spec => []RoomsAreAdmitted
<1>1. ASSUME Inv, [Next]_vars PROVE Inv'
  <2>1. TypeOK'
    BY <1>1, TypeStep DEF Inv
  <2>2. ASSUME NEW s \in Socket, NEW t \in Ticket, t \in rooms'[s] \/ remembered'[s] = t
        PROVE  BelongsTo(s, t)
    <3>1. CASE UNCHANGED vars
      BY <1>1, <2>2, <3>1 DEF vars, Inv
    <3>2. CASE Next
      BY <1>1, <2>2, <3>2, MovesAreAdmitted DEF Inv
    <3> QED
      BY <1>1, <3>1, <3>2
  <2> QED
    BY <2>1, <2>2 DEF Inv, BelongsTo
<1>2. Inv => RoomsAreAdmitted
  BY DEF Inv, RoomsAreAdmitted
<1> QED
  BY InitHolds, <1>1, <1>2, PTL DEF Spec
=============================================================================
