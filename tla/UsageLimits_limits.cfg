CONSTANTS
    p1 = p1
    p2 = p2
    a1 = a1
    a2 = a2
    k1 = k1
    k2 = k2
    Runs = {r1, r2}
    Providers = {p1, p2}
    Order <- MCOrder
    Pools = {a1, a2}
    PoolOf <- MCPoolOf
    Kinds = {k1, k2}
    KindOf <- MCKindOf
    Limitable = {a1}
    Breakable = {k1, k2}
    NoProvider = NoProvider
    NoPool = NoPool
    NoKind = NoKind
SPECIFICATION FairSpec
INVARIANTS
    TypeOK
PROPERTIES
    FreshBlockStays
    Served
    LoginHeals
CHECK_DEADLOCK FALSE
