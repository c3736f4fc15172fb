CONSTANTS
    s1 = s1
    s2 = s2
    Slots <- MCSlots
    MaxAccepts = 3
    MaxStates = 2
SPECIFICATION Spec
INVARIANTS
    TypeOK
    ReplyReachesRequester
    AtMostOneReply
PROPERTIES
    RequestAnswered
