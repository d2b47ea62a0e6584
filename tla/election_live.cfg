SPECIFICATION StartedFairSpec
CONSTANTS
    N = 3
    MaxTerm <- Three_311
    MaxLog = 0
    MaxPosted = 1
    MaxCrash = 0
PROPERTY
    LeaderIsFollowed
CHECK_DEADLOCK FALSE
