SPECIFICATION FairSpec
CONSTANTS
    p1 = p1
    p2 = p2
    p3 = p3
    Proc <- MC_Pair
    MaxTries = 4
    LateExit = TRUE
    Absent = Absent
    NoOwner = NoOwner
PROPERTY DeadSessionFreed
CHECK_DEADLOCK FALSE
