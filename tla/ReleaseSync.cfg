SPECIFICATION FairSpec
CONSTANTS
    relA = relA
    relB = relB
    relC = relC
    w1 = w1
    w2 = w2
    shared = shared
    NoLock = NoLock
    Free = Free
    None = None
    Workers <- TwoWorkers
    Releases <- ThreeReleases
    Desired <- AB
    Reinstall <- OnlyA
    Tracked <- AB
    RemoteChart <- ChartsABC
    Faults = {"flags", "presync", "list", "uninstall", "sync", "forbidden", "killed", "track", "hook"}
INVARIANTS
    EveryFailureReported
    SummaryMatchesCluster
    ChartOpsExclusive
PROPERTIES
    SyncImplementsBatch
    Terminates
