SPECIFICATION FairSpec
CONSTANTS
    s1 = s1
    t1 = t1
    Stopper <- MC_Stopper
    Steerer = {}
    MaxCalls = 1
    Faults <- MC_StopFaults
    MaxFaults = 1

PROPERTIES OutcomeFinal StopEndsRun PausedRunStoppable
CHECK_DEADLOCK FALSE
