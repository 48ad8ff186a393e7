\* Three names, two cache files, two places; a budget of one call, so that the
\* second search of resolve is the second run's.  Everything stops for good once
\* the bounds are used up or the overrides are torn.
CONSTANTS
    arabia = arabia
    arabiaAccented = arabiaAccented
    toto = toto
    f1 = f1
    f2 = f2
    p1 = p1
    p2 = p2
    None = None
    Torn = Torn
    Names = {arabia, arabiaAccented, toto}
    Places = {p1, p2}
    Files = {f1, f2}
    File <- MCFile
    Score <- MCScore
    Threshold = 2
    MaxCalls = 1
    MaxSearches = 2
    MaxVerdicts = 2
SPECIFICATION Spec
INVARIANTS
    TypeOK
    PaidOnce
    NeverContradicted
    ResolverInv
CHECK_DEADLOCK FALSE
