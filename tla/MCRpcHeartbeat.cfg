CONSTANTS
    w1 = w1
    w2 = w2
    Workers <- MCWorkers
    INTERVAL = 2
    TIMEOUT_DEFAULT = 3
    TIMEOUT_MIN = 2
    TIMEOUT_MAX = 4
    MS_PER_TICK = 1000
    Declared <- MCDeclared
    PEER_PERIOD = 2
    CLOCK_STEP = 2
    MaxClockSteps = 1
SYMMETRY MCSymmetry
SPECIFICATION Spec
INVARIANTS
    TypeOK
    NoFalseTimeout
    SilentDetected
    DispatchWhenAvailable
