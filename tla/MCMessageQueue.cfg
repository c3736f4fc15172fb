CONSTANTS
    Topics <- MCTopics
    Bursts <- MCBursts
    MAX_PENDING_MESSAGE = 2
    QueueCap = 2
    MaxMsgs = 10
    OtherErrors = FALSE
SPECIFICATION Spec
INVARIANTS
    InOrderNoLoss
    PendingBounded
PROPERTIES
    EventuallyDelivered
