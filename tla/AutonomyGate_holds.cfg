CONSTANTS
    Tasks = {t1}
    Decisions = {d1, d2}
    Clients = {}
    Service = service
    FirstMode = 2
    StepDownEscapes = 1
    QueueCap = 1
    MaxStops = 1
    NoTask = NoTask
    NoRow = NoRow
SPECIFICATION FairSpec
PROPERTIES
    PendingSettles
