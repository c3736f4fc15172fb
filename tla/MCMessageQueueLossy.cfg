CONSTANTS
    Topics <- MCTopics
    Bursts <- MCBursts
    MAX_PENDING_MESSAGE = 2
    QueueCap = 1
    MaxMsgs = 8
    OtherErrors = TRUE
SPECIFICATION Spec
INVARIANTS
    OrderPreserved
