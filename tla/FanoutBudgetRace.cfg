SPECIFICATION Spec
CONSTANTS
    p1 = p1
    p2 = p2
    p3 = p3
    Proc <- MC_Proc
    Limit = 2
    MaxBatch = 2
    MaxCalls = 1
    Absent = Absent
    NoOwner = NoOwner
SYMMETRY Symmetry
INVARIANT WithinLimit
CHECK_DEADLOCK FALSE
