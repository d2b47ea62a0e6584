SPECIFICATION FailoverSpec
CONSTANTS
    N = 3
    Client = {c1, c2}
    Reads = 1
    Fd = {3, 4}
    ConnCount = 256
    MaxElections = 1
INVARIANTS
    AppliedIsHanded
CHECK_DEADLOCK FALSE
