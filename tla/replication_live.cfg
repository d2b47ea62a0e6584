SPECIFICATION FairSpec
CONSTANTS
    N = 3
    Ring = 3
    Accurate = TRUE
    MaxTerm <- Terms_010
    MaxLog = 2
    MaxCrash = 1
PROPERTIES
    EntryReachesAll
CHECK_DEADLOCK FALSE
