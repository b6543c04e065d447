SPECIFICATION Spec
CONSTANTS
    Msg = {1, 2}
    Addr = {"a"}
    To <- MCToOne
    Prio <- MCPrio
    Worker = {"w1", "w2"}
    Pool = {"p1"}
    Mortal = {}
    PoolOf <- MCPoolOf
    None = None
    Batch = 2
    Lease = 6
    SendTicks = 1
    StopTicks = 2
    InlineWait = 1
    KindGap = 1
    AddrGap = 2
    MaxAttempts = 2
    RetryDelay <- MCRetryDelay
    RetryAfter = 2
    Answers = {"ok", "busy", "config", "blocked"}
    Faults = {"switch", "cascade", "purge", "notext"}
    MaxRequeues = 1
    Prompt = TRUE
INVARIANTS TriesAreAsks NoDoubleSend
PROPERTIES KeepsThePromise 
