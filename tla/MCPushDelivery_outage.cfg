SPECIFICATION OutageSpec
CONSTANTS
    Job = {j1}
    Handler = {h1, h2}
    NoJob = NoJob
    NoHandler = NoHandler
    MaxAttempts = 2
    MaxRetries = 0
    MaxStalls = 0
CHECK_DEADLOCK FALSE
PROPERTIES
    RingIsAnswered
