\* Six workbooks, twenty-four resolutions of three names; two seed runs, either
\* killed, one fixture run of two documents, and one change of the workbook or the
\* resolutions at any moment.  It stops once the bounds are used up.
CONSTANTS
    toto = toto
    toto2 = toto2
    geroRio = geroRio
    gero = gero
    rio = rio
    spot = spot
    chef = chef
    a = a
    b = b
    it1 = it1
    it2 = it2
    it3 = it3
    var3 = var3
    p1 = p1
    p2 = p2
    p3 = p3
    None = None
    Names = {toto, toto2, geroRio}
    Slug <- MCSlug
    Parts = {toto, gero, rio, spot}
    Scalars = {chef}
    Values = {a, b}
    Items = {it1, it2, it3, var3}
    Canonical <- MCCanonical
    Places = {p1, p2, p3}
    City <- MCCity
    Elsewhere = {geroRio}
    Workbooks <- MCWorkbooks
    Resolved <- MCResolved
    FixtureIds <- MCFixtureIds
    MaxRuns = 2
    MaxFixtures = 1
    MaxChanges = 1
SPECIFICATION Spec
INVARIANTS
    TypeOK
    OneIdEach
    RowsKept
    LiveDocsListed
    OnePlaceOneRestaurant
    ScopeIsEarned
    CatalogStands
CHECK_DEADLOCK FALSE
