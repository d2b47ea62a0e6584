SPECIFICATION Spec
CONSTANTS
    N = 3
    Ring = 44
    Hdr = 2
    Start <- Starts
    DataLen <- Lengths
    Clients = 1
    MaxPrunes = 2
INVARIANTS
    TypeOK
    PrunedOnlyIfApplied
PROPERTIES
    ImplementsReplicatedLog
CHECK_DEADLOCK FALSE
