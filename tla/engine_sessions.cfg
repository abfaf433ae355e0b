SPECIFICATION FairSpec
CONSTANTS
    Tasks = {t1, t2, t3}
    Tokens = {k1}
    a = a
    b = b
    x = x
    y = y
    Symbols = {a, b}
    Contents = {x, y}
    Queries = {}
    Patches <- MCRestating
    Scopes <- MCScopes
    Initial <- MCInitial
    Edits <- MCEdits
    Nonces = {n1}
    Gates = {"Session"}
    Outcomes = {}
    Absent = Absent
    None = None
    MayCrash = FALSE
    Pipelined = TRUE
    MaxRevision = 3
    MaxQueue = 1
INVARIANTS
    OneAuthorityPerToken
PROPERTIES
    SubmissionsAnswered
CHECK_DEADLOCK FALSE
