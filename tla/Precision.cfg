CONSTANTS
    MaxPrec = 2
SPECIFICATION Spec
INVARIANT FeeChargedExactly
