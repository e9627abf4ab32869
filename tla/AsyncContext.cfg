CONSTANTS
    r = r
    a = a
    b = b
    c = c
    v = v
    Ctxs = {r, a, b, c, v}
    Root = r
    ReqCtxs = {r, a, b, c}
    ParentOf <- MCParentOf
    Below <- MCBelow
    Cached = {r, a}
    Contained = {c}
    CanFail = {a, b, c}
    Cancellable = {a, b, c, r}
    UsingResult = TRUE
SPECIFICATION CtxSpec
CHECK_DEADLOCK FALSE
INVARIANTS
    TreeConsistent
PROPERTIES
    
    ResolutionEnds
