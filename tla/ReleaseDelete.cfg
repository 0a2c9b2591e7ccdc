SPECIFICATION DeleteSpec
CONSTANTS
    relA = relA
    relB = relB
    relC = relC
    w1 = w1
    w2 = w2
    Free = Free
    None = None
    Releases <- ThreeReleases
    Workers <- TwoWorkers
    Calls <- SafeCalls
    Faults = {"presync", "uninstall"}
SYMMETRY DeleteSymmetry
INVARIANTS
    DeletedListExact
PROPERTIES
    DeleteImplementsBatch
