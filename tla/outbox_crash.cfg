SPECIFICATION FairSpec
CONSTANTS
    Msg = {1, 2}
    Addr = {"a"}
    To <- MCToOne
    Prio <- MCPrio
    Worker = {"w1", "w2", "w3"}
    Pool = {"p1", "p2"}
    Mortal = {"p1"}
    PoolOf <- MCPoolOf
    None = None
    Batch = 2
    Lease = 3
    SendTicks = 1
    StopTicks = 1
    InlineWait = 2
    KindGap = 0
    AddrGap = 1
    MaxAttempts = 2
    RetryDelay <- MCRetryDelay
    RetryAfter = 2
    Answers = {"ok", "lost", "temporary", "refused"}
    Faults = {"crash", "report"}
    MaxRequeues = 0
    Prompt = TRUE
INVARIANTS HolderKnowsTheTry AskedWithinTries
PROPERTIES KeepsThePromise EveryMessageEnds
