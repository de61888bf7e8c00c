\* Two lookups of a mint with and one without a CoinGecko id; every provider may
\* fail at any time.
SPECIFICATION Spec
CONSTANTS
    Callers = {a, b}
    Mints = {m, n}
    Mapped = {m}
    Threshold = 2
    Timeout = 1
    None = None
INVARIANTS
    KnownNeverFails
    MappedAreServed

    
