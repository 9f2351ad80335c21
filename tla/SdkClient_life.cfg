SPECIFICATION FairSpec
CHECK_DEADLOCK FALSE
CONSTANTS
    u1 = u1
    u2 = u2
    Users = {u1, u2}
    Stopper = Stopper
    NoUser = NoUser
    Names = {"startScan", "meshing"}
    Unbounded = {"meshing"}
    MaxCommands = 4
    MaxInits = 2
    MaxLosses = 1
    MaxOffline = 1
INVARIANTS SilentOnlyWhenCut AnswerIsOwnOrLate SlotHasUser
PROPERTIES LossEndsWait
