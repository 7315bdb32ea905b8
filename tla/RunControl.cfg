SPECIFICATION Spec
CONSTANTS
    s1 = s1
    t1 = t1
    Stopper <- MC_Stopper
    Steerer <- MC_Steerer
    MaxCalls = 1
    Faults <- MC_Faults
    MaxFaults = 1
INVARIANTS TypeOK PersistedStopRead StoppedNotResumable AcceptedSteerSettled
PROPERTY ImplementsOutcome
CHECK_DEADLOCK FALSE
