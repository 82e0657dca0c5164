\* A crash while the WAL flush task's upload of a WAL SST is on its way;
\* the upload may land after the Open.  WAL task, memtable task, one
\* client, one key, threshold 1, two writes, two crashes (the second Open reads
\* what the late upload left).
CONSTANTS
    k1 = k1  k2 = k2  c1 = c1  c2 = c2
    ticker = ticker  apiFlushWAL = apiFlushWAL
    memTask = memTask  apiFlushMem = apiFlushMem
    Keys <- MCKeys1
    Clients <- MCClients1
    WalFlushers <- MCWalTask
    MemFlushers <- MCMemTask
    MemFlushTask = memTask
    L0SSTSizeBytes = 1
    MaxWrites = 2
    MaxCrashes = 2
    MaxApiFlushes = 0
    MaxCompactions = 0
    MaxCloses = 0
    StoreFailsWhile <- MCAllPhases
    WalFlushTask = ticker
    UploadsOutliveCrash = TRUE
SPECIFICATION SpecLateUploads
INVARIANT AckedWritesVisible
