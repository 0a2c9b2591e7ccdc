SPECIFICATION FairSpec
CONSTANTS
    relA = relA
    relB = relB
    relC = relC
    w1 = w1
    w2 = w2
    shared = shared
    NoLock = NoLock
    Free = Free
    None = None
    Workers <- TwoWorkers
    Releases <- TwoReleases
    Desired <- AB
    Reinstall <- OnlyA
    Tracked <- Nobody
    RemoteChart <- ChartsAB
    Faults = {"forbidden", "reuninstall"}
PROPERTIES
    Terminates
CHECK_DEADLOCK FALSE
