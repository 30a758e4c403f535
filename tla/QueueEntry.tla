----------------------------- MODULE QueueEntry -----------------------------
(***************************************************************************)
(* The QueueEntry entity: one party's ticket in a restaurant's waitlist.   *)
(* A ticket is a record, an entity method is an operator from a ticket to  *)
(* the ticket the method leaves behind, and the condition under which the  *)
(* method does not throw is an operator of its own.  Nothing here keeps    *)
(* state: the same operators act on the copy a request holds in memory.    *)
(*                                                                         *)
(* Guest names, notes, push tokens and the ETA in minutes are left out: no *)
(* guard of a transition reads them.                                       *)
(***************************************************************************)
EXTENDS Naturals

CONSTANTS
    Guest,      \* who may register: records with a phone, a user and a kind
    Phone,      \* phone numbers
    User,       \* authenticated user ids
    NoUser,     \* userId = null
    NoGuest     \* the guest of a row that does not exist

Kind == {"ONLINE", "WALK_IN"}

ASSUME GuestAssumption ==
    /\ Guest \subseteq [phone : Phone, user : User \union {NoUser}, kind : Kind]
    /\ NoGuest \notin Guest
    /\ NoUser \notin User

Terminal == {"SEATED", "SKIPPED", "CANCELLED", "NO_SHOW"}
Status   == {"WAITING"} \union Terminal

NoPosition == 0     \* position = null; ranks start at 1

(* A ticket; a database row is a ticket or AbsentRow. *)
Ticket == [status    : Status \union {"ABSENT"},
           position  : Nat,
           ringCount : Nat,
           guest     : Guest \union {NoGuest},
           joinedAt  : Nat,
           number    : Nat]

AbsentRow == [status |-> "ABSENT", position |-> NoPosition, ringCount |-> 0,
              guest |-> NoGuest, joinedAt |-> 0, number |-> 0]

-----------------------------------------------------------------------------
(* QueueEntry.create: the caller has already chosen position and number. *)
CreateTicket(guest, position, number, now) ==
    [status |-> "WAITING", position |-> position, ringCount |-> 0,
     guest |-> guest, joinedAt |-> now, number |-> number]

(* seat, skip and cancel throw QueueEntryNotWaitingError otherwise. *)
IsWaiting(ticket) == ticket.status = "WAITING"

SeatTicket(ticket) ==
    [ticket EXCEPT !.status = "SEATED", !.position = NoPosition]

SkipTicket(ticket) ==
    [ticket EXCEPT !.status = "SKIPPED", !.position = NoPosition]

CancelTicket(ticket, status) ==
    [ticket EXCEPT !.status = status, !.position = NoPosition]

(* updatePosition returns silently on a ticket that is not waiting. *)
UpdatePosition(ticket, newPosition) ==
    IF IsWaiting(ticket) THEN [ticket EXCEPT !.position = newPosition] ELSE ticket

(* ring refuses walk-in tickets: they carry no device to call. *)
CanRing(ticket) == IsWaiting(ticket) /\ ticket.guest.kind # "WALK_IN"

RingTicket(ticket) == [ticket EXCEPT !.ringCount = @ + 1]
=============================================================================
