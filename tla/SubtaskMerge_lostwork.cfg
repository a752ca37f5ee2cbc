CONSTANTS
    Children = {c1}
    Runs = {r1}
    c1 = c1
    c2 = c2
    r1 = r1
    r2 = r2
    MaxActs = 0
    NoRun = NoRun
    NoChild = NoChild
SPECIFICATION Spec
PROPERTY
    NoWorkLost
CHECK_DEADLOCK FALSE
