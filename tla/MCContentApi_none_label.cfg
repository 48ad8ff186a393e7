\* One screen, for each thing it may ask for; a seed run at any moment, long enough
\* a clock for an answer to expire on the phone after it did on the server.
CONSTANTS
    t1 = t1
    m1 = m1
    m2 = m2
    m3 = m3
    a1 = a1
    a2 = a2
    s1 = s1
    None = None
    Restaurants = {1, 2, 3, 4}
    Cuisines = {1, 2, 3}
    Labels = {0, 1, 2, 3, 9}
    NoneLabel = 0
    Canonical <- MCCanonical
    Terms = {t1}
    Named <- MCNamed
    Mentions = {m1, m2, m3}
    Awards = {a1, a2}
    AwardOf <- MCAwardOf
    Screens = {s1}
    Asks <- MCAsks
    Histories <- MCHistories
    RowCuisines = 2
    RowSize = 2
    HomeSize = 2
    Limits = {2, 3}
    MaxAge = 1
    Staleness = 1
    MaxTime = 3
    MaxVersion = 1
SPECIFICATION Spec
INVARIANTS
    TotalIsExact
