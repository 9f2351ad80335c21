SPECIFICATION FairSpec
CHECK_DEADLOCK FALSE
CONSTANTS
    c1 = c1
    c2 = c2
    w1 = w1
    w2 = w2
    Callers = {c1, c2}
    Workers = {w1, w2}
    Paths = {pathA}
    Calibration = Calibration
    Scanless = Scanless
    Broken = Broken
    NoClient = NoClient
    NoPoints = NoPoints
    NoWorker = NoWorker
    Ops = {"new", "calibration", "stop"}
    RunMode = "repeat_on_success"
    SkipFailedScans = FALSE
    LastScan = 1
    MaxCalls = 3
    MaxProjects = 2
    MaxDrops = 0
INVARIANTS RunLockHasOwner RunDrivesItsPath
PROPERTIES StopEndsRun
