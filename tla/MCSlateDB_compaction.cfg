\* The memtable flush task and the compactor publish the manifest with
\* conditional writes of their own, and every step is checked to be a step
\* of DurableKV.  One WAL flush task, one client, one key, threshold 1
\* (every WAL flush fills the memtable), two writes, two compactor polls
\* (the second merges into the run the first published), one crash.
CONSTANTS
    k1 = k1  k2 = k2  c1 = c1  c2 = c2
    ticker = ticker  apiFlushWAL = apiFlushWAL
    memTask = memTask  apiFlushMem = apiFlushMem
    Keys <- MCKeys1
    Clients <- MCClients1
    WalFlushers <- MCWalTask
    MemFlushers <- MCMemTask
    MemFlushTask = memTask
    L0SSTSizeBytes = 1
    MaxWrites = 2
    MaxCrashes = 1
    MaxApiFlushes = 0
    MaxCompactions = 2
    MaxCloses = 0
    StoreFailsWhile <- MCAllPhases
    WalFlushTask = ticker
    UploadsOutliveCrash = FALSE
SPECIFICATION Spec
INVARIANT AckedWritesVisible
INVARIANT PrecedenceRespected
PROPERTY KVRefinement
PROPERTY CommittedReadsMonotonic
PROPERTY ManifestMonotonic
