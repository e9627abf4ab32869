CONSTANTS
    k1 = k1
    k2 = k2
    k3 = k3
    d1 = d1
    d2 = d2
    c1 = c1
    c2 = c2
    c3 = c3
    Keys = {k1, k2, k3}
    Digests = {d1, d2}
    Clients = {c1, c2, c3}
    DeepSize <- MCDeepSize
    UnusedSizeLimit = 2
    NoKey = NoKey
    NoDigest = NoDigest
    NoClient = NoClient
SYMMETRY Symmetry
SPECIFICATION Spec
INVARIANTS
    TypeOK
    NoDanglingRecord
    CasRefsExact
    UnusedWithinLimit
PROPERTY HeldValueIsStable
