SPECIFICATION Spec
CONSTANTS
    Request = {r1, r2}
    Job = {j1, j2}
    ClosesHttp = {TRUE}
CHECK_DEADLOCK FALSE
INVARIANTS
    ShutdownIsClean
