SPECIFICATION CutSpec
CONSTANTS
    N = 5
    Ring = 3
    Accurate = TRUE
    MaxTerm <- Five_22222
    MaxLog = 2
    MaxCrash = 1
INVARIANTS
    AdjustedLogs
PROPERTIES
    CommittedStable
CHECK_DEADLOCK FALSE
