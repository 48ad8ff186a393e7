\* Two callers and the warm-up on two keys; an entry is fresh for one tick after
\* the one it was stored in, and a result is at most one tick under way.
CONSTANTS
    t1 = t1
    t2 = t2
    t3 = t3
    k1 = k1
    k2 = k2
    None = None
    Keys = {k1, k2}
    Tasks <- MCCallers
    Cancellable <- MCWarmUp
    TTL = 1
    MaxDelay = 1
    MaxTime = 4
    MaxVersion = 2
SPECIFICATION Spec
SYMMETRY MCSymmetry
INVARIANTS
    TypeOK
    OneLoadPerKey
    CacheInv
PROPERTIES
    NoRedundantLoad
    ServesRecentCatalog
