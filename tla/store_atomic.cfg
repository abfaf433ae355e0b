SPECIFICATION Spec
CONSTANTS
    p = p
    q = q
    x = x
    y = y
    Paths = {p, q}
    Texts = {x, y}
    Missing = Missing
    Broken = Broken
    None = None
    Initial <- MCInitial
    Patches <- MCPatches
    Edits <- MCEdits
    MaxRevision = 3
INVARIANTS
    AllOrNothing
    NothingMissed
PROPERTIES
    EarlierEditsAreKept
CHECK_DEADLOCK FALSE
