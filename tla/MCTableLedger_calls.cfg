SPECIFICATION LedgerSpec
CONSTANTS
    Call = {c1, c2, c3}
    Table = {t1, t2}
    PartySizes = {3}
    MaxCount = 2
    UseMock = TRUE
    VolumeThreshold = 2
    ErrorThreshold = 50
CHECK_DEADLOCK FALSE
SYMMETRY Symmetry
INVARIANTS
    UnavailableForAReason
    RejectedHasNoEffect
    SeatedIsCovered
    GivesBackWhatItTook
PROPERTIES
    ImplementsRemoteCall
