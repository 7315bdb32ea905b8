SPECIFICATION FairSpec
CONSTANTS
    p1 = p1
    p2 = p2
    Proc <- MC_Proc
    Limit = 1
    MaxRuns = 2
    MaxMishaps = 1
    Kinds = {"runner", "workflow"}
    None = None
    NoOwner = NoOwner
    Stale = Stale
INVARIANTS TypeOK ActiveHoldsSlot
PROPERTIES ReleasedRunIsOver ImplementsPool EventuallyFreed
CHECK_DEADLOCK FALSE
