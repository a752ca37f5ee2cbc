CONSTANTS
    Tasks = {t1}
    Runs = {r1, r2}
    Clients = {}
    Labels <- MCLabels
    AgentLabels <- MCAgentLabels
    AgentMoves <- MCAgentMoves
    HumanMoves <- MCHumanMoves
    FeedbackMoves <- MCSendBack
    FirstLabel = "work"
    MaxWorkers = 1
    QueueCap = 1
    NoRun = NoRun
    NoTask = NoTask
    NoLabel = NoLabel
SPECIFICATION FairSpec
PROPERTIES
    RunSettles
    LockSettles
