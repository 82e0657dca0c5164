\* Fair WAL and memtable flushers, uploads that eventually succeed while
\* the DB is open; one crash and one Close, during which the object store
\* is up.  Every AwaitDurable wait returns, every write becomes durable,
\* and Close leaves everything recoverable.  After Close nothing runs until
\* an Open, so a stop there is not a deadlock.
CONSTANTS
    k1 = k1  k2 = k2  c1 = c1  c2 = c2
    ticker = ticker  apiFlushWAL = apiFlushWAL
    memTask = memTask  apiFlushMem = apiFlushMem
    Keys <- MCKeys1
    Clients <- MCClients1
    WalFlushers <- MCWalTask
    MemFlushers <- MCMemTask
    MemFlushTask = memTask
    L0SSTSizeBytes = 1
    MaxWrites = 2
    MaxCrashes = 1
    MaxApiFlushes = 0
    MaxCompactions = 0
    MaxCloses = 1
    StoreFailsWhile <- MCStoreUpWhileClosing
    WalFlushTask = ticker
    UploadsOutliveCrash = FALSE
SPECIFICATION FairSpec
CHECK_DEADLOCK FALSE
PROPERTY DurablePutReturns
PROPERTY KVEventuallyDurable
INVARIANT CloseLeavesEverythingRecoverable
