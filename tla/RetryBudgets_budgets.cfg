CONSTANTS
    Tasks = {t1}
    Runs = {r1, r2}
    Labels <- MCLabels
    AgentLabels <- MCAgentLabels
    SuccessOf <- MCSuccessOf
    FailureOf <- MCFailureOf
    FirstLabel = "work"
    MaxRetries = 1
    MaxFailures = 2
    MaxLoops = 2
    MemBurst = 2
    LadderLen = 2
    MaxActs = 1
    MaxShocks = 2
    NoRun = NoRun
    NoTask = NoTask
    NoLabel = NoLabel
SPECIFICATION FairSpec
INVARIANTS
    TypeOK
    StrikesBounded
PROPERTIES
    RungNeverDrops
    ComesToRest
CHECK_DEADLOCK FALSE
