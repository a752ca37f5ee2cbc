CONSTANTS
    Children = {c1, c2}
    Runs = {r1, r2}
    c1 = c1
    c2 = c2
    r1 = r1
    r2 = r2
    MaxActs = 1
    NoRun = NoRun
    NoChild = NoChild
SPECIFICATION FairSpec
INVARIANTS
    TypeOK
    MergedIsIn
PROPERTIES
    SeesEveryChild
    FlushedInTime
CHECK_DEADLOCK FALSE
