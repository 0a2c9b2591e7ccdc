SPECIFICATION Spec
CONSTANTS
    w1 = w1
    w2 = w2
    w3 = w3
    dirA = dirA
    dirB = dirB
    relA = relA
    here = here
    there = there
    NoPath = NoPath
    Workers <- ThreeWorkers
    Processes <- TwoProcesses
    Paths <- Dirs
    Keys <- OneKey
    Setups <- SharedOrOwn
    MaxRetries = 2
    MaxCrashes = 1
INVARIANTS
    ChartIntact
    DownloadedOnce
PROPERTY
    Answered
