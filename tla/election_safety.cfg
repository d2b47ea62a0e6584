SPECIFICATION ContestedSpec
CONSTANTS
    N = 3
    MaxTerm <- Three_423
    MaxLog = 1
    MaxPosted = 1
    MaxCrash = 0
INVARIANTS
    NobodyOutranksItsLeader
    VoterFencesLog
PROPERTIES
    SidMonotone
    VoteOncePerTerm
CHECK_DEADLOCK FALSE
