SPECIFICATION FairSpec
CONSTANTS
    p1 = p1
    p2 = p2
    Proc <- MC_Proc
    Triggers = {"auto", "reuse"}
    MaxAttempts = 3
    MaxGen = 4
    MaxRounds = 2
    NoClaim = NoClaim
INVARIANTS TypeOK SingleContinuation
PROPERTIES ClaimPermanent ImplementsOnce DeadClaimSuperseded
CHECK_DEADLOCK FALSE
