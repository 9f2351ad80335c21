SPECIFICATION Spec
CHECK_DEADLOCK FALSE
CONSTANTS
    c1 = c1
    c2 = c2
    w1 = w1
    w2 = w2
    Callers = {c1, c2}
    Workers = {w1, w2}
    Paths = {pathA}
    Calibration = Calibration
    Scanless = Scanless
    Broken = Broken
    NoClient = NoClient
    NoPoints = NoPoints
    NoWorker = NoWorker
    Ops = {"new", "jog"}
    RunMode = "single"
    SkipFailedScans = FALSE
    LastScan = 1
    MaxCalls = 2
    MaxProjects = 1
    MaxDrops = 0
SYMMETRY MCSymmetry
INVARIANTS JogsAloneOnTheRobot
