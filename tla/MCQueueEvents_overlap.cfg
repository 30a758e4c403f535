SPECIFICATION MCFairSpec
CONSTANTS
    p1 = p1
    p2 = p2
    p3 = p3
    p4 = p4
    u1 = u1
    u2 = u2
    NoUser = NoUser
    NoGuest = NoGuest
    e1 = e1
    e2 = e2
    Phone <- MCPhone
    User <- MCUser
    Guest <- MCGuest
    InitialQueue <- MCInitialQueue
    Entry = {e1, e2, e3}
    Table = {t1}
    Slot = {s1, s2}
    Endpoint <- AllEndpoints
    CancelStatus = {"NO_SHOW"}
    MaxShift = 1
    MaxRequests = 2
    MaxFaults = 1
    Exclusive = FALSE
INVARIANTS
    WaitingIsRanked
    AuditStartsWaiting
    StatusIsAudited
    CachedIsStored
PROPERTIES
    EveryRequestAnswered
    LeavingIsAnnounced
