SPECIFICATION Spec
CONSTANTS
    Slot = 2
    MaxNet = 1
    Start <- StartGrow
INVARIANTS
    JoinerExact
CHECK_DEADLOCK FALSE
