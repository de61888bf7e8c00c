\* Three lookups share one breaker with the threshold of the code.
SPECIFICATION FairSpec
CONSTANTS
    Callers = {c1, c2, c3}
    Threshold = 3
    Timeout = 2
INVARIANTS
    CountsOnlyFailuresInARow
PROPERTIES
    StuckIsPermanent
    
    RecoversUnlessStuck
