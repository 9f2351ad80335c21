SPECIFICATION Spec
CONSTANTS
    a = a
    b = b
    Requests = {a, b}
    Watcher = watcher
    Worker = worker
    Names = {1, 2, 3}
    Existing = {1, 2}
    AutoParsed = 2
    NewPath = 3
    Calibration = 1
    Counters = {1}
    MaxOps = 2
    MaxRuns = 2
SYMMETRY MCSymmetry
INVARIANT TornByTwoWriters LoadedIsActive DrivesWhatItTravelledTo 
PROPERTY NothingOverwritten
CHECK_DEADLOCK FALSE
