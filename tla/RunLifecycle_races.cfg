CONSTANTS
    Tasks = {t1}
    Runs = {r1, r2, r3}
    Clients = {c1}
    Labels <- MCShortLabels
    AgentLabels <- MCAgentLabels
    AgentMoves <- MCAgentMoves
    HumanMoves <- MCShortMoves
    FeedbackMoves <- MCSendBack
    FirstLabel = "work"
    MaxWorkers = 1
    QueueCap = 1
    NoRun = NoRun
    NoTask = NoTask
    NoLabel = NoLabel
SPECIFICATION Spec
SYMMETRY RunSymmetry
INVARIANTS
    TypeOK
    LockOwner
    
    NoOrphanLock
    NoZombieRun
PROPERTIES
    LockHandover
    ImplementsLease
