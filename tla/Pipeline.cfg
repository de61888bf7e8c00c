\* The smallest channels; one configured pool with more changes than they hold,
\* one pool that is discovered; failing nodes, writes and streams, and Ctrl+C
\* at any time.
SPECIFICATION PipelineFairSpec
CONSTANTS
    Pools = {p1, p2}
    Raydium = {p1}
    Configured = {p1}
    QueueCap = 1
    SnapCap = 1
    Faults = {"rpc", "oracle", "write", "stream", "interrupt"}
    MaxSlot = 2
    None = None
INVARIANTS
    BackfillFirst
PROPERTIES
    SendersEnd
    NotifiedAreRecorded
