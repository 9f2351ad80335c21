CONSTANTS
    a = a
    b = b
    x = x
    Callers = {a}
    Worker = Worker
    Exporters = {}
    NoThread = NoThread
    MaxClients = 2
    MaxProjects = 1
    MaxOps = 1
    MaxScans = 1
    MaxLosses = 1
SPECIFICATION FairSpec
PROPERTIES LossIsHandled RequestsEnd
CHECK_DEADLOCK FALSE
