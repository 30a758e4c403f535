SPECIFICATION FairSpec
CONSTANTS
    Job = {j1}
    Handler = {h1, h2}
    NoJob = NoJob
    NoHandler = NoHandler
    MaxAttempts = 3
    MaxRetries = 1
    MaxStalls = 1
CHECK_DEADLOCK FALSE
INVARIANTS
    PushesAreCounted
    SendsAreBounded
    SettledForAReason
PROPERTIES
    RingIsSettled
