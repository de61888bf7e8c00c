\* Two callers: a retry of a problematic pool against a failing subscription.
SPECIFICATION FairSpec
CONSTANTS
    Pools = {p}
    Tasks = {t, u}
    FailureLimit = 3
    MaxAttempts = 1
    InitialDelay = 1
    MaxDelay = 1
    MaxCalls = 6
    None = None
PROPERTIES
    CallsReturn
CHECK_DEADLOCK FALSE
