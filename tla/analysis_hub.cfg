SPECIFICATION FairSpec
CONSTANTS
    Waiters = {w1, w2}
    None = None
    MaxRevision = 4
PROPERTIES
    HeadIsAnalysed
    PinnedWaitEnds
    ShutsDown
CHECK_DEADLOCK FALSE
