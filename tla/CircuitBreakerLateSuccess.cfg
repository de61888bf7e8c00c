\* Two lookups: one succeeds after the failures of the other opened the breaker.
SPECIFICATION FairSpec
CONSTANTS
    Callers = {c1, c2}
    Threshold = 3
    Timeout = 2
PROPERTY RecoversFromOpen
