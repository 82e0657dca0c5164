\* The memtable flush task, one FlushMemtableToL0 caller and the compactor;
\* the task and the caller share one FenceableManifest.  Two writes, one
\* API call, two compactor polls, no crash.
CONSTANTS
    k1 = k1  k2 = k2  c1 = c1  c2 = c2
    ticker = ticker  apiFlushWAL = apiFlushWAL
    memTask = memTask  apiFlushMem = apiFlushMem
    Keys <- MCKeys1
    Clients <- MCClients1
    WalFlushers <- MCWalTask
    MemFlushers <- MCMemTaskAndApi
    MemFlushTask = memTask
    L0SSTSizeBytes = 1
    MaxWrites = 2
    MaxCrashes = 0
    MaxApiFlushes = 1
    MaxCompactions = 2
    MaxCloses = 0
    StoreFailsWhile <- MCAllPhases
    WalFlushTask = ticker
    UploadsOutliveCrash = FALSE
SPECIFICATION SpecApi
PROPERTY ManifestMonotonic
