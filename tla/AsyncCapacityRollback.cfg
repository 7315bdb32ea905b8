SPECIFICATION Spec
CONSTANTS
    p1 = p1
    p2 = p2
    Proc <- MC_Proc
    Limit = 2
    MaxRuns = 2
    MaxMishaps = 1
    Kinds = {"runner", "workflow"}
    None = None
    NoOwner = NoOwner
    Stale = Stale
INVARIANT PausedRetainsCapacity
CHECK_DEADLOCK FALSE
