SPECIFICATION Spec
CONSTANTS
    N = 3
    Ring = 4
    Accurate = FALSE
    MaxTerm <- Terms_012
    MaxLog = 3
    MaxCrash = 0
PROPERTY
    CommittedStable
CHECK_DEADLOCK FALSE
