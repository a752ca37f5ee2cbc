CONSTANTS
    Tasks = {t1}
    Copies = {1, 2}
    Labels <- MCLabels
    TerminalLabels = {"done"}
    PRLabels = {"done"}
    Gate = "gate"
    Moves <- MCShort
    FirstLabel = "work"
    PREnds = {"pr_merged"}
    MaxAttempts = 2
    MaxStops = 1
    NoRow = NoRow
SPECIFICATION Spec
INVARIANTS
    TypeOK
    EffectNotLost
    RunningIsExplained
