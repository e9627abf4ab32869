CONSTANTS
    r = r
    a = a
    v = v
    Ctxs = {r, a, v}
    Root = r
    ReqCtxs = {r, a}
    ParentOf <- MCParentOf
    Below <- MCBelow
    Cached = {r}
    Contained = {a}
    CanFail = {a, r}
    Cancellable = {a}
    UsingResult = TRUE
    NeedLock = TRUE
    MaxTimeouts = 1
SPECIFICATION AsyncSpec
CHECK_DEADLOCK FALSE

    
    
PROPERTIES
    ClientEnds
    WaitersWake
