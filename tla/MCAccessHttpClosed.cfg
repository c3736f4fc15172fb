CONSTANTS
    s1 = s1
    s2 = s2
    Slots <- MCSlots
    MaxAccepts = 3
    MaxStates = 3
SPECIFICATION Spec
INVARIANT
    ReplyOnlyToOpenSession
