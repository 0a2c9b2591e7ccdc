SPECIFICATION Spec
CONSTANTS
    fileA = fileA
    fileB = fileB
    fileC = fileC
    fileD = fileD
    dirA = dirA
    dirB = dirB
    dirC = dirC
    dirD = dirD
    stable = stable
    incubator = incubator
    registry = registry
    Root = Root
    None = None
    Files <- Four
    Repos <- RepoNames
    DirOf <- Dirs
    Trees <- SingleTrees
    RepoRetry = 1
INVARIANTS
    ResultSound
    VisitOrder
    OwnDirectory
    EveryRepoOnce
