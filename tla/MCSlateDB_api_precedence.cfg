\* The memtable flush task and an API FlushMemtableToL0 caller, beside the
\* WAL flush task, the memtable frozen at every WAL flush: both callers of
\* flushImmMemtablesToL0 take the same oldest immutable memtable.
CONSTANTS
    k1 = k1  k2 = k2  c1 = c1  c2 = c2
    ticker = ticker  apiFlushWAL = apiFlushWAL
    memTask = memTask  apiFlushMem = apiFlushMem
    Keys <- MCKeys1
    Clients <- MCClients1
    WalFlushers <- MCWalTask
    MemFlushers <- MCMemTaskAndApi
    MemFlushTask = memTask
    L0SSTSizeBytes = 1
    MaxWrites = 2
    MaxCrashes = 0
    MaxApiFlushes = 1
    MaxCompactions = 0
    MaxCloses = 0
    StoreFailsWhile <- MCAllPhases
    WalFlushTask = ticker
    UploadsOutliveCrash = FALSE
SPECIFICATION SpecApi
INVARIANT PrecedenceRespected
