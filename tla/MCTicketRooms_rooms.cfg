SPECIFICATION FairSpec
CONSTANTS
    guest = guest
    clerk = clerk
    admin = admin
    stranger = stranger
    t1 = t1
    t2 = t2
    Socket = {guest, clerk, admin, stranger}
    Ticket = {t1, t2}
    NoTicket = NoTicket
    Role <- MCRole
    Here <- MCHere
    Owner <- MCOwner
    Handshake <- MCHandshake
    Lookup = {l1, l2}
    NoLookup = NoLookup
CHECK_DEADLOCK FALSE
INVARIANTS
    RoomsAreAdmitted
PROPERTIES
    JoinsAreAnswered
