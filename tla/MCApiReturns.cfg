CONSTANTS
    Parts = {"api"}
    CacheKeys = {k1, k2}
    Callers = {c1, c2}
    Capacity = 1
    Ttl = 1
    MaxVersion = 1
    MaxGets = 3
    Versions = {1, 2, 3}
    Reversible = {1, 2}
    Migrators = {p1, p2}
    MaxRuns = 3
    HashSpace = 4
    Wide = 64
    MaxShards = 3
    MaxItems = 4
    Declared <- MCReturns
    Endings <- MCEndings
    Shelf = {1, 2}
    Seeded = {1}
    Stock = 2
    Quantities = {1, 2}
    GwRequests = {g1, g2, g3}
    WordSize = 8
    Titles = {1, 2}
    Amounts = {0, 1, 2}
    BkRequests = {b1, b2, b3}
    OrRequests = {o1, o2, o3}
    Slugs = {"acme", "beta"}
    Seed = "acme"
    Emails = {"a", "b", "c"}
    TmRequests = {t1, t2, t3}
    MaxUsers = 2
    MaxRpm = 2
    Uploaders = {w1, w2}
    NameChars <- MCNameChars
    Forms <- MCForms
    UpConfigs <- MCUpConfigs
    NoName = NoName
SPECIFICATION Spec
INVARIANT DeclaredIsParsed
CHECK_DEADLOCK FALSE
