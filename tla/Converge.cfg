SPECIFICATION Spec
CONSTANTS
    relA = relA
    relB = relB
    relC = relC
    Releases <- Three
    NeedsOf <- Shapes
    Watched <- AB
    Commands = {"apply", "sync", "destroy"}
INVARIANTS
    GroupOrder
    NothingUnconfirmed
    SuccessMeansConverged
    ChangesReported
    CleanupPaired
