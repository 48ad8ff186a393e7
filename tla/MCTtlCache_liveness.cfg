\* Two callers and the warm-up queueing for one key, without symmetry; the clock
\* runs long enough for an entry to expire while others wait.
CONSTANTS
    t1 = t1
    t2 = t2
    t3 = t3
    k1 = k1
    k2 = k2
    None = None
    Keys = {k1}
    Tasks <- MCCallers
    Cancellable <- MCWarmUp
    TTL = 0
    MaxDelay = 1
    MaxTime = 3
    MaxVersion = 1
SPECIFICATION FairSpec
PROPERTIES
    EveryCallReturns
