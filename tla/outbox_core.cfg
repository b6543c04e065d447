SPECIFICATION Spec
CONSTANTS
    Msg = {1, 2}
    Addr = {"a"}
    To <- MCToOne
    Prio <- MCPrio
    Worker = {"w1", "w2", "w3"}
    Pool = {"p1", "p2"}
    Mortal = {"p1"}
    PoolOf <- MCPoolOf
    None = None
    Batch = 1
    Lease = 1
    SendTicks = 0
    StopTicks = 1
    InlineWait = 0
    KindGap = 0
    AddrGap = 0
    MaxAttempts = 2
    RetryDelay <- MCRetryDelay
    RetryAfter = 2
    Answers = {"ok", "temporary"}
    Faults = {"crash", "stop", "read"}
    MaxRequeues = 0
    Prompt = FALSE
INVARIANTS TypeOK HolderKnowsTheTry TriedInOrder
PROPERTY KeepsThePromise
