SPECIFICATION Spec
CHECK_DEADLOCK FALSE
CONSTANTS
    c1 = c1
    c2 = c2
    w1 = w1
    w2 = w2
    Callers = {c1, c2}
    Workers = {w1, w2}
    Paths = {pathA}
    Calibration = Calibration
    Scanless = Scanless
    Broken = Broken
    NoClient = NoClient
    NoPoints = NoPoints
    NoWorker = NoWorker
    Ops = {"new", "resume", "calibration", "stop", "reload", "select", "settings", "jog"}
    RunMode = "single_last_scan"
    SkipFailedScans = TRUE
    LastScan = 2
    MaxCalls = 3
    MaxProjects = 2
    MaxDrops = 1
SYMMETRY MCSymmetry
INVARIANTS OneRun StateTellsRun ResumeSkipsNothing FinishedMeansScanned
PROPERTIES StopIsKept ImplementsLifecycle
