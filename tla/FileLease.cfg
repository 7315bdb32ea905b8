SPECIFICATION FairSpec
CONSTANTS
    p1 = p1
    p2 = p2
    p3 = p3
    Proc <- MC_Proc
    MaxLeases = 1
    Opaque <- MC_Opaque
    LateExit = FALSE
    Absent = Absent
    NoOwner = NoOwner
INVARIANTS TypeOK MutualExclusion
PROPERTIES FenceStays ImplementsLease CallsReturn DeadOwnerReclaimed
CHECK_DEADLOCK FALSE
