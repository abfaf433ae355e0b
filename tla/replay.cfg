CONSTANTS Models <- Catalogue
 MaxRoots = 2
 MaxAttempts = 4
SPECIFICATION Spec
INVARIANTS WorkOnce OneContinuation ResultsAgree NoneStrandedByItsPast
CHECK_DEADLOCK FALSE
