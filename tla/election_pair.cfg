SPECIFICATION Spec
CONSTANTS
    N = 2
    MaxTerm <- Two_33
    MaxLog = 2
    MaxPosted = 2
    MaxCrash = 1
INVARIANTS
    TypeOK
    ElectionInv
CHECK_DEADLOCK FALSE
