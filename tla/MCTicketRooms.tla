---------------------------- MODULE MCTicketRooms ----------------------------
(* TicketRooms on small sets. *)
EXTENDS TicketRooms, TLC

CONSTANTS guest, clerk, admin, stranger, t1, t2

(* The guest holds t1 and scanned the code of the restaurant, the clerk     *)
(* works there, the admin names t2 in the handshake, and a customer who     *)
(* holds nothing names t1.                                                  *)
AnyRole     == guest :> "CUSTOMER" @@ clerk :> "STAFF" @@ admin :> "ADMIN"
                 @@ stranger :> "CUSTOMER"
MCRole      == [s \in Socket |-> AnyRole[s]]
MCHere      == {guest, clerk}
MCOwner     == t1 :> {guest} @@ t2 :> {}
MCHandshake == [s \in Socket |-> CASE s = admin    -> t2
                                   [] s = stranger -> t1
                                   [] OTHER        -> NoTicket]
=============================================================================
