SPECIFICATION Spec
CONSTANTS
    Tasks = {t1, t2}
    Tokens = {k1, k2}
    a = a
    b = b
    x = x
    y = y
    Symbols = {a, b}
    Contents = {x, y}
    Queries = {x}
    Patches <- MCPatches
    Scopes <- MCScopes
    Initial <- MCInitial
    Edits <- NoEdits
    Nonces = {n1, n2}
    Gates = {"SinglePatch"}
    Outcomes = {"Cancelled"}
    Absent = Absent
    None = None
    MayCrash = TRUE
    Pipelined = FALSE
    MaxRevision = 3
    MaxQueue = 1
SYMMETRY Symmetry
INVARIANTS
    CommittedOnWhatWasSeen
    NoLostUpdate
    SweepLeavesNoneBehind
    OneCommitPerTask
PROPERTIES
    ImplementsSerialDesign
CHECK_DEADLOCK FALSE
