CONSTANTS
    Texts = {"a", "b"}
    Labels <- MCLabels
    Gate = "gate"
    WorkLabels = {"work"}
    FirstLabels = {"gate"}
    HumanMoves <- MCHumanMoves
    AgentMoves <- MCAgentMoves
    HumanGates = {"gate"}
    GoneLabel = "gate"
    Settings <- MCSettings
    MaxTasks = 2
    MaxActs = 1
    NoTask = NoTask
    NoText = NoText
SPECIFICATION FairSpec
INVARIANTS
    TypeOK
    ApprovalHolds
PROPERTIES
    RunningIsLeft
    BoardFollows
