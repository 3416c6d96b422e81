SPECIFICATION GateSpec
CONSTANTS
    a1 = a1
    a2 = a2
    r1 = r1
    smoke = smoke
    q1 = q1
    Nil = Nil
    Asks <- MCAsks
    ReadyProbes <- MCReadyProbes
    Queries <- MCQueries
    SmokeQuery = smoke
    ReadyTTL = 2
    FailureTTL = 1
    MaxClock = 3
INVARIANTS
    SegmenterExclusive
    OnlyProbesWarmUp
PROPERTIES
    EveryRequestAnswered
CHECK_DEADLOCK FALSE
