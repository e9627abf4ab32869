CONSTANTS
    k1 = k1
    k2 = k2
    k3 = k3
    d1 = d1
    d2 = d2
    w1 = w1
    w2 = w2
    Keys = {k1, k2, k3}
    Digests = {d1, d2}
    ValueOf <- SharedValueOf
    Size <- SharedSize
    Large = {d1}
    SizeLimit = 128
    Writers = {w1, w2}
    MaxIds = 3
    NoKey = NoKey
    NoDigest = NoDigest
SPECIFICATION DiskSpec
SYMMETRY Symmetry
INVARIANTS
    
    
    ReadsRight
