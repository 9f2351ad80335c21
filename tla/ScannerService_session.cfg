CONSTANTS
    a = a
    b = b
    x = x
    Callers = {a, b}
    Worker = Worker
    Exporters = {x}
    NoThread = NoThread
    MaxClients = 2
    MaxProjects = 1
    MaxOps = 1
    MaxScans = 1
    MaxLosses = 1
SPECIFICATION Spec
INVARIANTS HandlingEnds NoLeakedConnection ProjectIsOpen ScanInRunProject ScanIsSetUp SavedUnderItsName ExportedIsSaved
SYMMETRY MCSymmetry
CHECK_DEADLOCK FALSE
