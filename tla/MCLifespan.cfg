\* A warm-up of three loads, one request at a time, and one publication: it starts
\* over an empty catalog and may find a row.  The clock passes the TTL.
CONSTANTS
    counts = counts
    row = row
    awarded = awarded
    request = request
    kCounts = kCounts
    kRow = kRow
    kAwarded = kAwarded
    None = None
    Keys = {kCounts, kRow, kAwarded}
    Tasks = {counts, row, awarded, request}
    Cancellable = {counts, row, awarded}
    TTL = 1
    MaxDelay = 1
    MaxTime = 2
    MaxVersion = 1
    Preload <- MCPreload
    CountsTask = counts
    RowTasks = {row}
    Wanted <- MCWanted
SPECIFICATION FairLifeSpec
INVARIANTS
    LifeInv
    BrowseIsWarm
    NoQueryAfterClose
PROPERTIES
    ShutdownCloses
    WarmUpEnds
    EveryCallReturns
CHECK_DEADLOCK FALSE
