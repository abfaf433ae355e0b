SPECIFICATION Spec
CONSTANTS
    a = a
    b = b
    c = c
    x = x
    Operations = {a, b, c}
    None = None
    Batches <- MCBatches
    CallGraphs <- MCCallGraphs
    Slots = {s1, s2}
    MaxAttempts = 2
    MaxCutOff = 1
    SharedSymbols <- MCShared
    Voluntary <- MCVoluntary
INVARIANTS
    PlanSound
    RunsTellTheTruth
    NothingStranded
PROPERTIES
    PlannedContextHolds
SYMMETRY Symmetry
