SPECIFICATION Spec
CONSTANTS
    relA = relA
    relB = relB
    relC = relC
    relD = relD
    dupA = dupA
    otherA = otherA
    ghost = ghost
    Defs <- AllDefs
    Ids <- AllIds
    IdOf <- IdOfDef
    NameOf <- Named
    Plain <- PlainIds
    NeedsOf <- PlannedStates
    Commands = {"apply", "diff", "template"}
INVARIANTS
    NeedsComeFirst
    PlanExact
    NothingHidden
    NeedsEnforced
