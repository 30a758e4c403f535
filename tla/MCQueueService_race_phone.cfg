SPECIFICATION Spec
CONSTANTS
    p1 = p1
    p2 = p2
    p3 = p3
    p4 = p4
    u1 = u1
    u2 = u2
    NoUser = NoUser
    NoGuest = NoGuest
    Phone <- MCPhone
    User <- MCUser
    Guest <- MCGuest
    InitialQueue <- NoQueueYet
    Entry = {e1, e2}
    Table = {t1}
    Slot = {s1, s2}
    Endpoint <- JoinOnly
    CancelStatus = {"CANCELLED"}
    MaxShift = 1
    MaxRequests = 2
    MaxFaults = 0
    Exclusive = FALSE
INVARIANTS
    OneTicketPerPhone
