\* A Raydium pool of the configuration and a pool that is registered late or
\* never, two changes of each; everything may fail, any number of times.
SPECIFICATION FairSpec
CONSTANTS
    Pools = {p1, p2}
    Raydium = {p1}
    Configured = {p1}
    QueueCap = 2
    SnapCap = 2
    Faults = {"decode", "rpc", "oracle", "open", "write", "interrupt"}
    MaxSlot = 1
    None = None

    
PROPERTIES
    
    EventuallySettled
