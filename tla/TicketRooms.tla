----------------------------- MODULE TicketRooms -----------------------------
(***************************************************************************)
(* Who may hear about a ticket: the Socket.IO rooms of one restaurant, and *)
(* the clients' requests to enter and leave them.  An event reaches the    *)
(* sockets that are in its room when it is sent.                           *)
(*                                                                         *)
(* Only join:ticket is asynchronous: it may look the ticket up, and other  *)
(* requests of the same socket are handled meanwhile.  Socket.IO is        *)
(* external: a client that disconnects leaves all its rooms and enters no  *)
(* other one.                                                              *)
(***************************************************************************)
CONSTANTS
    Socket,     \* connections; one that is closed is never used again
    Ticket,     \* tickets of this restaurant
    NoTicket,
    Role,       \* Socket -> the role of its user; STAFF includes the owner
    Here,       \* sockets whose user names this restaurant
    Owner,      \* Ticket -> sockets of the user who holds it
    Handshake,  \* Socket -> the ticket named in the handshake, or NoTicket; a
                \* customer's may come from its query string, and is not checked
    Lookup,     \* the look-ups of tickets that may be under way at a time
    NoLookup

ASSUME RoomsAssumption ==
    /\ NoTicket \notin Ticket
    /\ Ticket \intersect {"restaurant", "queue"} = {}
    /\ Role \in [Socket -> {"ADMIN", "STAFF", "CUSTOMER"}]
    /\ Here \subseteq Socket
    /\ Owner \in [Ticket -> SUBSET Socket]
    /\ Handshake \in [Socket -> Ticket \union {NoTicket}]
    /\ NoLookup \notin Socket \X Ticket

VARIABLES
    status,     \* Socket -> new, connected, gone
    rooms,      \* Socket -> the rooms it is in
    asked,      \* Lookup -> the socket and the ticket of its join:ticket, or NoLookup
    remembered  \* Socket -> user.ticketId

vars == <<status, rooms, asked, remembered>>

(* A ticket stands for its own room; the names of the three kinds of rooms  *)
(* have prefixes of their own.                                              *)
Room == Ticket \union {"restaurant", "queue"}

TypeOK ==
    /\ status \in [Socket -> {"new", "connected", "gone"}]
    /\ rooms \in [Socket -> SUBSET Room]
    /\ asked \in [Lookup -> (Socket \X Ticket) \union {NoLookup}]
    /\ remembered \in [Socket -> Ticket \union {NoTicket}]
    /\ \A s \in Socket : status[s] # "connected" => rooms[s] = {}

Init ==
    /\ status = [s \in Socket |-> "new"]
    /\ rooms = [s \in Socket |-> {}]
    /\ asked = [l \in Lookup |-> NoLookup]
    /\ remembered = Handshake

-----------------------------------------------------------------------------
(* Connections. *)

IsMember(s) == Role[s] = "ADMIN" \/ (Role[s] = "STAFF" /\ s \in Here)

(* The rooms a socket is put into when it connects. *)
FirstRooms(s) ==
         {t \in Ticket : Handshake[s] = t}
  \union (IF s \notin Here THEN {} ELSE IF IsMember(s) THEN {"restaurant"} ELSE {"queue"})

Connect(s) ==
    /\ status[s] = "new"
    /\ status' = [status EXCEPT ![s] = "connected"]
    /\ rooms' = [rooms EXCEPT ![s] = FirstRooms(s)]
    /\ UNCHANGED <<asked, remembered>>

Disconnect(s) ==
    /\ status[s] = "connected"
    /\ status' = [status EXCEPT ![s] = "gone"]
    /\ rooms' = [rooms EXCEPT ![s] = {}]
    /\ UNCHANGED <<asked, remembered>>

-----------------------------------------------------------------------------
(* Entering and leaving.  The acknowledgement, or the refusal, goes out in  *)
(* the same step.                                                           *)

Enter(s, room) ==
    IF status[s] = "connected"
    THEN rooms' = [rooms EXCEPT ![s] = @ \union {room}]
    ELSE UNCHANGED rooms

Refuse == UNCHANGED rooms

JoinRestaurant(s) ==
    /\ status[s] = "connected"
    /\ IF IsMember(s) THEN Enter(s, "restaurant") ELSE Refuse
    /\ UNCHANGED <<status, asked, remembered>>

JoinQueue(s) ==
    /\ status[s] = "connected"
    /\ IF Role[s] = "CUSTOMER" \/ IsMember(s) THEN Enter(s, "queue") ELSE Refuse
    /\ UNCHANGED <<status, asked, remembered>>

Leave(s, room) ==
    /\ status[s] = "connected"
    /\ rooms' = [rooms EXCEPT ![s] = @ \ {room}]
    /\ UNCHANGED <<status, asked, remembered>>

(* Admins, and customers with the ticket remembered on the socket, enter at *)
(* once; everybody else waits for the look-up.                              *)
AtOnce(s, t) == Role[s] = "ADMIN" \/ (Role[s] = "CUSTOMER" /\ remembered[s] = t)

JoinTicket(s, t) ==
    /\ status[s] = "connected"
    /\ \/ /\ AtOnce(s, t)
          /\ Enter(s, t)
          /\ UNCHANGED asked
       \/ /\ ~AtOnce(s, t)
          /\ \E l \in Lookup :
                asked[l] = NoLookup /\ asked' = [asked EXCEPT ![l] = <<s, t>>]
          /\ UNCHANGED rooms
    /\ UNCHANGED <<status, remembered>>

(* Mutant: whoever has the ticket's id may watch it. *)
AdmitsAll(s, t) == TRUE

Admits(s, t) ==
    \/ Role[s] = "STAFF" /\ s \in Here
    \/ Role[s] = "CUSTOMER" /\ s \in Owner[t]

(* Mutant: a failed look-up is logged and left unanswered. *)
TicketFoundOnly(l) ==
    /\ asked[l] # NoLookup
    /\ Admits(asked[l][1], asked[l][2])
    /\ Enter(asked[l][1], asked[l][2])
    /\ asked' = [asked EXCEPT ![l] = NoLookup]
    /\ UNCHANGED <<status, remembered>>

(* The look-up answers, or fails, which refuses the join. *)
TicketFound(l) ==
    /\ asked[l] # NoLookup
    /\ asked' = [asked EXCEPT ![l] = NoLookup]
    /\ LET s == asked[l][1]
           t == asked[l][2]
       IN  \/ /\ Admits(s, t)
              /\ Enter(s, t)
              /\ remembered' = IF Role[s] = "CUSTOMER"
                               THEN [remembered EXCEPT ![s] = t] ELSE remembered
           \/ Refuse /\ UNCHANGED remembered
    /\ UNCHANGED status

Next ==
    \/ \E s \in Socket :
          \/ Connect(s) \/ Disconnect(s)
          \/ JoinRestaurant(s) \/ JoinQueue(s)
          \/ \E room \in Room : Leave(s, room)
          \/ \E t \in Ticket : JoinTicket(s, t)
    \/ \E l \in Lookup : TicketFound(l)

Spec == Init /\ [][Next]_vars

(* The database answers each look-up, or fails. *)
FairSpec == Spec /\ \A l \in Lookup : WF_vars(TicketFound(l))

-----------------------------------------------------------------------------
(* Properties. *)

(* The sockets in the room of a ticket belong there: they named the ticket  *)
(* when they connected, their user holds it or works where it is queued, or *)
(* they are an admin's.  The ticket a socket remembers is one it was        *)
(* admitted to, however its look-ups overlap.  The ticket of the handshake  *)
(* is taken on trust, as the code does.                                     *)
BelongsTo(s, t) ==
    \/ Handshake[s] = t \/ s \in Owner[t]
    \/ Role[s] = "ADMIN" \/ (Role[s] = "STAFF" /\ s \in Here)

RoomsAreAdmitted ==
    \A s \in Socket, t \in Ticket :
        t \in rooms[s] \/ (status[s] = "connected" /\ remembered[s] = t) => BelongsTo(s, t)

(* Every join:ticket that waits for a look-up is answered, each by its own: *)
(* also when the database fails, when the socket is gone, and when another  *)
(* join of the same socket waits for the same ticket.                       *)
JoinsAreAnswered ==
    \A l \in Lookup : asked[l] # NoLookup ~> asked[l] = NoLookup
=============================================================================
