\* The WAL flush task and an API FlushWAL caller drain the same
\* ImmutableWAL queue: PopImmWAL removes the oldest entry, not the one the
\* goroutine uploaded.
CONSTANTS
    k1 = k1  k2 = k2  c1 = c1  c2 = c2
    ticker = ticker  apiFlushWAL = apiFlushWAL
    memTask = memTask  apiFlushMem = apiFlushMem
    Keys <- MCKeys1
    Clients <- MCClients1
    WalFlushers <- MCWalTaskAndApi
    MemFlushers <- MCMemTask
    MemFlushTask = memTask
    L0SSTSizeBytes = 1
    MaxWrites = 2
    MaxCrashes = 0
    MaxApiFlushes = 0
    MaxCompactions = 0
    MaxCloses = 0
    StoreFailsWhile <- MCAllPhases
    WalFlushTask = ticker
    UploadsOutliveCrash = FALSE
SPECIFICATION Spec
PROPERTY CommittedReadsMonotonic
