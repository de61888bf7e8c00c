\* One part moves: two tasks of the throttle with an interval of two ticks, two
\* threads on the registry, two fetches and a query of the resolver, two
\* updates to enrich with one swap or one change of the price, two lookups of
\* the mapping at a time, two monitors of two endpoints, two backfills at a
\* time, thirteen configurations.  Anything may fail.
SPECIFICATION ServicesSpec
CONSTANTS
    Pools = {p, q}
    Listeners = {k, l}
    Interval = 2
    Faults = {"subscribe", "decode", "stream"}
    MaxSlot = 2
    MaxTime = 3
    None = None
    MaxReserve = 2
    NoKey = NoKey
    RegPools = {p}
    Callers = {s, t}
    Samples <- MCSamples
    LogInterval = 2
    MaxEpoch = 3
    MaxCalls = 4
    Fetchers = {f, g}
    Resolvers = {r}
    Listings <- MCListings
    Addresses = {"a", "m", "k", "v"}
    Pairs = {"x"}
    NoAddress = ""
    MaxFetches = 2
    MaxResolves = 1
    EnrichedPools <- MCEnrichedPools
    Accounts <- MCAccounts
    StableMints = {"usdc"}
    ChainDecimals <- MCChainDecimals
    MetadataTtl = 1
    OracleTtl = 1
    MaxUpdates = 2
    MaxMoves = 1
    MaxInstant = 2
    Providers <- MCProviders
    MappedMints = {"a", "b"}
    Askers = {k, l}
    NoId = ""
    MaxLookups = 3
    MaxClears = 1
    Endpoints <- MCEndpoints
    Monitors = {m, n}
    MaxReports = 2
    MaxLinkChanges = 1
    MaxCount = 4
    Backfills = {b, c}
    Chains <- MCChains
    QuoteAllowlist = {"sol"}
    MinQuote = 1
    MaxPools = 2
    MaxBackfills = 3
    MaxMarks = 1
    Configs <- MCConfigs
    NoFile = NoFile
    Discoverable = {"d", "e"}
    ZeroKey = "0"
INVARIANTS
    ServicesTypeOK
    DecodesAreCounted
    AnswersComeFromListings
    
    EntriesHaveACause
    StrikesMeanUnhealthy
    SelectionServes
    DiscoveredOnce
    RefusedBeforeEffects
PROPERTIES
    ThrottleIsBucket
    StreamsDrain
    OnDemandNeverReplaces
    
