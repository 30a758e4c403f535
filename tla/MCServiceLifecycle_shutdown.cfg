SPECIFICATION LifecycleSpec
CONSTANTS
    Request = {r1, p1}
    Probe = {p1}
    Job = {j1, j2}
    ClosesHttp = {TRUE, FALSE}
CHECK_DEADLOCK FALSE
PROPERTIES
    RequestsAreServed
    ShutdownEnds
    ProbesAreAnswered
