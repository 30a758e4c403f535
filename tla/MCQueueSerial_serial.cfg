SPECIFICATION SerialSpec
CONSTANTS
    p1 = p1
    p2 = p2
    p3 = p3
    p4 = p4
    u1 = u1
    u2 = u2
    NoUser = NoUser
    NoGuest = NoGuest
    Phone <- MCPhone
    User <- MCUser
    Guest <- MCParty
    InitialQueue <- MCInitialQueue
    Entry = {e1, e2, e3, e4}
    Table = {t1}
    Slot = {s1}
    Endpoint <- AllEndpoints
    CancelStatus = {"CANCELLED"}
    MaxShift = 2
    MaxRequests = 4
    MaxFaults = 1
    Exclusive = TRUE
SYMMETRY Symmetry
INVARIANTS
    NumbersAreDistinct
    ListedChronologically
    RanksAreContiguous
    CacheAgrees
    ShownIsStored
    ViewsAgree
    TrainedAsServed
PROPERTIES
    ShiftIsLocal
    WaitIsOver
