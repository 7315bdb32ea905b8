SPECIFICATION Spec
CONSTANTS
    p1 = p1
    p2 = p2
    p3 = p3
    Proc <- MC_Proc
    MaxTries = 2
    LateExit = FALSE
    Absent = Absent
    NoOwner = NoOwner
SYMMETRY Symmetry
INVARIANTS TypeOK ExclusiveSession OwnerRecorded AckIsFinal SuccessorNotMoved
PROPERTY ImplementsLease
CHECK_DEADLOCK FALSE
