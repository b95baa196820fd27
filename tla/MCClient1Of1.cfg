SPECIFICATION FairSpec
CONSTANTS
    Leases <- TwoAttempts
    CallerOf <- OneGoroutine
    Renewing = {1}
    Futures = {f1}
    Shards <- OneShard
    ShardOf <- AllInOne
    QueueCapacity = 2
    RingCapacity = 1
    None = None
INVARIANTS
    OneResultPerFuture
    NothingLeftAfterClose
    OneConsumer
    ReleaseBehindAcquire
PROPERTIES
    EveryCallReturns
CHECK_DEADLOCK FALSE
