\* Two callers, at once or one after the other, two pools.  Two callers can
\* deadlock (WebSocketDeadlock.cfg), so deadlock is not checked: that nothing
\* else stops a call is CallsReturnUnlessCrossed.
SPECIFICATION FairSpec
CONSTANTS
    Pools = {p, q}
    Tasks = {t, u}
    FailureLimit = 2
    MaxAttempts = 3
    InitialDelay = 1
    MaxDelay = 3
    MaxCalls = 6
    None = None
INVARIANTS
    BookkeepingOK
    GaugesNeverUnderstate
    ResubscribesTheRest

    
CHECK_DEADLOCK FALSE
