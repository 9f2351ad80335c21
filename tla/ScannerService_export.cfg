CONSTANTS
    a = a
    b = b
    x = x
    Callers = {a}
    Worker = Worker
    Exporters = {x}
    NoThread = NoThread
    MaxClients = 2
    MaxProjects = 1
    MaxOps = 0
    MaxScans = 1
    MaxLosses = 1
SPECIFICATION FairSpec
PROPERTIES RequestsEnd
CHECK_DEADLOCK FALSE
