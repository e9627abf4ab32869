CONSTANTS
    k1 = k1
    k2 = k2
    k3 = k3
    k4 = k4
    d1 = d1
    d2 = d2
    f1 = f1
    f2 = f2
    f3 = f3
    g1 = g1
    g2 = g2
    g3 = g3
    Keys = {k1, k2, k3, k4}
    Digests = {d1, d2}
    Clients = {f1, f2, f3, g1, g2, g3}
    DeepSize <- MCDeepSize
    ValueOf <- MCValueOf
    KeyOf <- MCKeyOf
    ParentOf <- MCParentOf
    UnusedSizeLimit = 2
    WantsLock = {f2, f3}
    FullyCached = {k2, k3}
    CanFail = {k3, k4}
    MaxAttempts = 2
    MaxRuns = 2
    NoKey = NoKey
    NoDigest = NoDigest
    NoClient = NoClient
    NoTask = NoTask
SPECIFICATION ResolveSpec
CHECK_DEADLOCK FALSE
INVARIANTS
    SharedSafely
    ComputedOnce
PROPERTY EveryResolutionEnds
