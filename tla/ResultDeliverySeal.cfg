SPECIFICATION Spec
CONSTANTS
    Interim = {"paused"}
    Final = {"paused", "complete"}
    Deferred = {"complete"}
    MaxPayloads = 2
    MaxMishaps = 1
    None = None
INVARIANT NewestKept
CHECK_DEADLOCK FALSE
