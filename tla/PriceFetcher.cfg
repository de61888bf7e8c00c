\* A caller and the refresh loop; both tokens are refreshed, a price lives for two
\* time-outs of a request.
SPECIFICATION FairSpec
CONSTANTS
    Callers = {c1}
    Refresher = Refresher
    Tokens = {t1, t2}
    Refreshed = {t1, t2}
    MaxRetries = 2
    Flight = 1
    Nap = 1
    None = None
INVARIANTS
    FreshIsRecent
    RefreshBoundsAge
    
PROPERTIES
    ShutdownEndsLoop
