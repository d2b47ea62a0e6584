SPECIFICATION Spec
CONSTANTS
    N = 3
    Ring = 4
    Accurate = TRUE
    MaxTerm <- Terms_012
    MaxLog = 3
    MaxCrash = 1
INVARIANTS
    TypeOK
    CommittedOnMajority
    LeaderHasCommitted
PROPERTIES
    CommittedStable
CHECK_DEADLOCK FALSE
