CONSTANTS
    r1 = r1
    r2 = r2
    bad = bad
    Requests <- MCRequests
    Invalid <- MCInvalid
    CACHE_TIMEOUT = 1
    CACHE_TIMER_PERIOD = 3
    CLOCK_STEP = 3
    MaxClockSteps = 1
    MaxTime = 8
    MaxVersion = 3
SYMMETRY MCSymmetry
SPECIFICATION Spec
INVARIANTS
    TypeOK
    ReplyMatchesRequest
    CachedDepthFresh
    CachedDepthBounded
