SPECIFICATION FairSpec
CONSTANTS
    Inputs = 4
    Concurrency = 2
    Wirings <- AllWirings
INVARIANTS
    AggregatedExactly
    ReturnsQuiescent
PROPERTIES
    ImplementsParallelFor
    Terminates
