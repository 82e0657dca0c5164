\* One WAL flush task, one memtable flush task, one client, one key (so
\* every write shadows an older version), three writes, one crash.
CONSTANTS
    k1 = k1  k2 = k2  c1 = c1  c2 = c2
    ticker = ticker  apiFlushWAL = apiFlushWAL
    memTask = memTask  apiFlushMem = apiFlushMem
    Keys <- MCKeys1
    Clients <- MCClients1
    WalFlushers <- MCWalTask
    MemFlushers <- MCMemTask
    MemFlushTask = memTask
    L0SSTSizeBytes = 1
    MaxWrites = 3
    MaxCrashes = 1
    MaxApiFlushes = 0
    MaxCompactions = 0
    MaxCloses = 0
    StoreFailsWhile <- MCAllPhases
    WalFlushTask = ticker
    UploadsOutliveCrash = FALSE
SPECIFICATION Spec
INVARIANT TypeOK
INVARIANT AckedWritesVisible
INVARIANT PrecedenceRespected
PROPERTY CommittedReadsMonotonic
PROPERTY WalSSTNeverOverwritten
