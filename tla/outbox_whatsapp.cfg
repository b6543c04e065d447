SPECIFICATION FairSpec
CONSTANTS
    Msg = {1, 2}
    Addr = {"a"}
    To <- MCToOne
    Prio <- MCPrio
    Worker = {"w1"}
    Pool = {"p1"}
    Mortal = {}
    PoolOf <- MCPoolOf
    None = None
    Batch = 5
    Lease = 20
    SendTicks = 1
    StopTicks = 1
    InlineWait = 2
    KindGap = 1
    AddrGap = 4
    MaxAttempts = 6
    RetryDelay <- MCRetryDelay
    RetryAfter = 2
    Answers = {"ok"}
    Faults = {}
    MaxRequeues = 0
    Prompt = TRUE
PROPERTY EveryMessageEnds
