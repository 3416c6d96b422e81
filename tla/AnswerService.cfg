SPECIFICATION Spec
CONSTANTS
    c1 = c1
    c2 = c2
    None = None
    Unparsable = Unparsable
    Chunks <- MCChunks
    Durations <- MCDurations
    MaxHits = 2
    Deadline = 40
    CallTimeout = 30
    RetryFloor = 5
    ShortSleep = 5
    RateLimitSleep = 25
    Margin = 1
INVARIANTS
    OutageReported
    GroundedTextMatchesSources
PROPERTIES
    RetryPlannedWithinDeadline
    PromiseKept
CHECK_DEADLOCK FALSE
