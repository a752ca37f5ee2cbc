CONSTANTS
    Tasks = {t1}
    Decisions = {d1, d2}
    Clients = {c1}
    Service = service
    FirstMode = 2
    StepDownEscapes = 1
    QueueCap = 1
    MaxStops = 1
    NoTask = NoTask
    NoRow = NoRow
SPECIFICATION Spec
SYMMETRY MCSymmetry
INVARIANTS
    TypeOK
PROPERTIES
    HoldWins
    UndoneStays
    ApprovesThisVisit
