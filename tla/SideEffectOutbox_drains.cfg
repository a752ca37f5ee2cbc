CONSTANTS
    Tasks = {t1}
    Copies = {1, 2}
    Labels <- MCLabels
    TerminalLabels = {"done"}
    PRLabels = {}
    Gate = "gate"
    Moves <- MCMoves
    FirstLabel = "gate"
    PREnds = {"pr_closed"}
    MaxAttempts = 2
    MaxStops = 1
    NoRow = NoRow
SPECIFICATION FairSpec
PROPERTIES
    EffectSettles
    FinishedIsReclaimed
