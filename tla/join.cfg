SPECIFICATION Spec
CONSTANTS
    Slot = 2
    MaxNet = 1
    Start <- StartAll
INVARIANTS
    TypeOK
    VotersHaveCommitted
    NoGhost
CHECK_DEADLOCK FALSE
