SPECIFICATION FairSpec
CONSTANTS
    Interim = {"paused"}
    Final = {"paused", "complete"}
    Deferred = {"complete"}
    MaxPayloads = 2
    MaxMishaps = 1
    None = None
INVARIANTS TypeOK NewestKeptOrAstray
PROPERTIES AnnouncedOnce EventuallySettled
CHECK_DEADLOCK FALSE
