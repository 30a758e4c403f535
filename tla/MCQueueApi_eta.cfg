SPECIFICATION ApiSpec
CONSTANTS
    Call = {c1, c2}
    MaxAhead = 1
    Predictions <- MCPredictions
    VolumeThreshold = 1
    ErrorThreshold = 50
CHECK_DEADLOCK FALSE
INVARIANTS
    FastFailForAReason
    StatusTellsTheTruth
PROPERTIES
    EveryRequestIsAnswered
