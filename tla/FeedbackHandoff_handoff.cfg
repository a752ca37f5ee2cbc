CONSTANTS
    Runs = {r1, r2}
    Labels <- MCLabels
    AgentLabels <- MCAgentLabels
    SuccessOf <- MCSuccessOf
    FailureOf <- MCFailureOf
    BackOf <- MCBackOf
    Moves <- MCMoves
    FirstLabels = {"gate"}
    Trusted = {1, 2}
    Syncs = {poll, hook}
    MaxPasses = 2
    MaxPosts = 1
    MaxActs = 1
    NoRun = NoRun
    NoLabel = NoLabel
SPECIFICATION Spec
INVARIANTS
    TypeOK
    
    
PROPERTIES
    NoReplay
    
CHECK_DEADLOCK FALSE
SYMMETRY Symmetry
