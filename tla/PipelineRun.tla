---------------------------- MODULE PipelineRun ----------------------------
(***************************************************************************)
(* The run lifecycle of PipelineService (src/app/pipeline/service.py): who *)
(* may run a cycle, how a run is started, stopped, continued and cleaned   *)
(* up, and which trajectory and which scanner project it works on.         *)
(*                                                                         *)
(* Processes: the API callers (FastAPI runs each request in a thread of    *)
(* its pool), the background initialisation worker, and the cycle worker   *)
(* threads the callers start.  A step is what a thread does between two    *)
(* points where another thread can see or change what it uses: a block     *)
(* under _lock, one access to an Event, one blocking call.                 *)
(*                                                                         *)
(* The run itself (run_cycle, run_calibration_cycle) is kept as the steps  *)
(* that touch the service: positions 1..LastScan are scan positions and    *)
(* End is the END point.  The resends of a position and the retries of a   *)
(* scan change none of the state kept here.  Of the mesh export there is   *)
(* what it leaves behind: a mesh worker of a run that is over holds the    *)
(* scanner's command lock until its export ends, if it ends.               *)
(***************************************************************************)
EXTENDS Integers, FiniteSets

CONSTANTS
    Callers,      \* API request threads
    Workers,      \* identities of cycle worker threads; a finished one is reused
    Paths,        \* the path files that can be the active trajectory
    Calibration,  \* the trajectory of calibration.json
    Scanless,     \* the trajectory of a calibration.json without a scan point
    Broken,       \* a snapshot with a load error and no points
    NoClient,     \* PipelineService._robot is None
    NoPoints,     \* a client made by a jog request: its point list is empty
    NoWorker,     \* PipelineService._worker_thread is None
    Ops,          \* the API operations callers use
    RunMode,      \* pipeline.cycle_run_mode
    SkipFailedScans, \* pipeline.skip_failed_scans may be on when a run begins
    LastScan,     \* list index of the last scan position
    MaxCalls,     \* bound: API calls
    MaxProjects,  \* bound: scanner projects created
    MaxDrops      \* bound: losses of the scanner connection

AllOps == {"new", "resume", "calibration", "stop", "reload", "select",
           "settings", "jog"}

ASSUME ThreadsAssumption ==
    /\ Callers \cap Workers = {}
    /\ NoWorker \notin Workers
    /\ Ops \subseteq AllOps
ASSUME PathsAssumption ==
    /\ {Calibration, Scanless, Broken, NoClient, NoPoints} \cap Paths = {}
    /\ Cardinality({Calibration, Scanless, Broken, NoClient, NoPoints}) = 5
ASSUME RunModeAssumption ==
    /\ RunMode \in {"single", "single_last_scan", "repeat_on_success"}
    /\ SkipFailedScans \in BOOLEAN
ASSUME RunBoundsAssumption ==
    /\ LastScan \in Nat \ {0}
    /\ MaxCalls \in Nat /\ MaxProjects \in Nat /\ MaxDrops \in Nat

None == 0                 \* no project, no step
First == 1                \* get_first_scan_list_index
End == LastScan + 1       \* get_end_index
Indices == First..End
Projects == 1..MaxProjects
Busy == {"running", "stopping"}
\* What the robot client can have for its list of points.
Trajectories == Paths \cup {Calibration, Scanless, NoClient, NoPoints}

VARIABLES
    \* PipelineService
    state,         \* _state
    runLock,       \* _run_lock is held
    abort,         \* _abort_event
    workerThread,  \* _worker_thread
    initializing,  \* _initializing
    project,       \* _project_name
    step,          \* _current_step_index; _scan_count is written with it
    resumeStart,   \* _resume_start_list_index
    startup,       \* _cycle_requires_startup_travel
    defer,         \* _defer_project_creation
    \* TrajectoryService, the settings, and the robot client
    active,        \* active_path_file of the settings
    loaded,        \* the snapshot of trajectory_service
    points,        \* points of the robot client
    motionCancel,  \* the robot client's _motion_cancel_event
    \* the scanner
    scannerUp,     \* scanner_service.is_connected
    created,       \* projects created so far
    scanned,       \* the positions scanned into each project
    skipped,       \* the positions of each project whose scan failed and was skipped
    leftExport,    \* the mesh workers of runs that are over: none is left, they
                   \* wait for _sdk_command_lock, or one of them holds it
    \* threads
    call,          \* API callers: where each is, and its local variables
    work,          \* cycle workers: where each is, and its local variables
    init,          \* the initialisation worker
    calls, drops   \* bounds' counters

serviceVars == <<state, abort, workerThread, initializing, project, step>>
ownVars == <<resumeStart, startup, defer>>
pathVars == <<active, loaded, points>>
scanVars == <<scannerUp, created, scanned, skipped, leftExport>>
counts == <<calls, drops>>
vars == <<serviceVars, runLock, ownVars, pathVars, motionCancel, scanVars,
          call, work, init, counts>>

----------------------------------------------------------------------------
(* Where threads can be. *)

\* A caller that holds _run_lock, in the order of the code.
Starting == {"validate", "load", "points", "read", "ensure", "clear",
             "clearMotion", "run", "spawn"}
CallerAt == {"idle", "acquire", "stopFirst", "setAbort", "cancel", "join",
             "restart", "forget", "select", "updated", "setPoints",
             "jogClient", "jogClear", "jogging"} \cup Starting

\* A worker whose run has not yet written its outcome to _state.
Going == {"top", "create", "ready", "first", "enter", "travel", "loop",
          "moving", "scanning", "home", "ended", "record", "prepare", "rest",
          "exitAborted", "exitFailed", "aborted", "failed"}
Closing == {"exitDone", "clearAbort", "clearMotion", "restore", "updated",
            "setPoints", "release"}
WorkerAt == {"dead"} \cup Going \cup Closing
InitAt == {"wait", "begin", "scanner", "forget", "client", "create", "end"}

NoCall == [at |-> "idle", op |-> "stop", step |-> None, project |-> None]
NoInit == [at |-> "wait", path |-> NoPoints]
NoWork == [at |-> "dead", op |-> "new", i |-> First, project |-> None, path |-> NoPoints]

\* The cycle worker blocks here longer than the 5 s stop_cycle joins it for.
Slow == {"create", "enter", "scanning", "ended", "prepare", "exitAborted",
         "exitFailed", "exitDone"}

CanResume == state = "idle" /\ project # None /\ step # None /\ ~initializing

Init ==
    /\ state = "idle" /\ runLock = FALSE /\ abort = FALSE /\ workerThread = NoWorker
    /\ initializing = FALSE /\ project = None /\ step = None
    /\ resumeStart = First /\ startup = FALSE /\ defer = FALSE
    /\ active \in Paths /\ loaded = active
    /\ points = NoClient /\ motionCancel = FALSE
    /\ scannerUp = FALSE /\ created = 0 /\ leftExport = "none"
    /\ scanned = [p \in Projects |-> {}] /\ skipped = [p \in Projects |-> {}]
    /\ call = [c \in Callers |-> NoCall] /\ work = [w \in Workers |-> NoWork]
    /\ init = NoInit /\ calls = 0 /\ drops = 0

Goto(c, l) == call' = [call EXCEPT ![c].at = l]
Return(c) == call' = [call EXCEPT ![c] = NoCall]
WorkGoto(w, l) == work' = [work EXCEPT ![w].at = l]
InitGoto(l) == init' = [init EXCEPT !.at = l]

\* _sdk_command_lock is free.  Commands wait for it without a timeout, and
\* without a look at _abort_event.
CommandLockFree == leftExport # "holds"

\* A request that gets past the checks it starts with.
Enter(c, op, l) ==
    /\ call[c].at = "idle" /\ op \in Ops /\ calls < MaxCalls
    /\ call' = [call EXCEPT ![c] = [NoCall EXCEPT !.at = l, !.op = op]]
    /\ calls' = calls + 1

----------------------------------------------------------------------------
(* start_cycle, continue_cycle and start_calibration_cycle.  A request that *)
(* finds _run_lock held raises "already running" and changes nothing.       *)

StartAcquires(c, op) ==
    /\ op \in {"new", "calibration"}
    /\ ~runLock /\ runLock' = TRUE
    /\ Enter(c, op, "validate")
    /\ UNCHANGED <<serviceVars, ownVars, pathVars, motionCancel, scanVars, work, init, drops>>

\* continue_cycle: _can_resume() is one block under _lock, taken before _run_lock.
ContinueChecks(c) ==
    /\ CanResume
    /\ Enter(c, "resume", "acquire")
    /\ UNCHANGED <<serviceVars, runLock, ownVars, pathVars, motionCancel, scanVars, work, init, drops>>

\* Mutant: acquire(blocking=False) is called and its result ignored.
AcquiresAnyway(c) ==
    /\ call[c].at = "acquire"
    /\ runLock' = TRUE
    /\ Goto(c, "validate")
    /\ UNCHANGED <<serviceVars, ownVars, pathVars, motionCancel, scanVars, work, init, counts>>

ContinueAcquires(c) ==
    /\ call[c].at = "acquire"
    /\ runLock' = TRUE
    /\ IF runLock THEN Return(c) ELSE Goto(c, "validate")
    /\ UNCHANGED <<serviceVars, ownVars, pathVars, motionCancel, scanVars, work, init, counts>>

\* An exception between acquiring _run_lock and starting the worker.
Raises(c) ==
    /\ runLock' = FALSE
    /\ Return(c)

\* _validate_ready_to_start / _validate_ready_for_calibration.  What they ask
\* of the robot and of the axis telemetry may refuse any request.
Ready(op) ==
    /\ ~initializing /\ scannerUp /\ points # NoClient
    /\ op # "calibration" => loaded # Broken

StartValidates(c) ==
    /\ call[c].at = "validate"
    /\ Ready(call[c].op)
    /\ \/ /\ call[c].op = "new" /\ loaded # Scanless /\ Goto(c, "clear")
          /\ defer' = TRUE /\ startup' = TRUE /\ resumeStart' = First
       \/ /\ call[c].op = "resume" /\ Goto(c, "read") /\ UNCHANGED ownVars
       \/ /\ call[c].op = "calibration" /\ Goto(c, "load") /\ UNCHANGED ownVars
    /\ UNCHANGED <<serviceVars, runLock, pathVars, motionCancel, scanVars, work, init, counts>>

\* "Trajectory has no scan point": the project creation is deferred already.
StartHasNoScan(c) ==
    /\ call[c].at = "validate" /\ call[c].op = "new"
    /\ Ready("new") /\ loaded = Scanless
    /\ defer' = TRUE
    /\ Raises(c)
    /\ UNCHANGED <<serviceVars, resumeStart, startup, pathVars, motionCancel, scanVars, work, init, counts>>

\* Mutant: a refused request returns with _run_lock held.
RefusedKeepsLock(c) ==
    /\ call[c].at = "validate"
    /\ Return(c)
    /\ UNCHANGED <<serviceVars, runLock, ownVars, pathVars, motionCancel, scanVars, work, init, counts>>

StartRefused(c) ==
    /\ call[c].at = "validate"
    /\ Raises(c)
    /\ UNCHANGED <<serviceVars, ownVars, pathVars, motionCancel, scanVars, work, init, counts>>

\* _begin_cycle(resume=True) reads the resume point under _lock ...
ResumeReads(c) ==
    /\ call[c].at = "read"
    /\ IF project = None \/ step = None
         THEN Raises(c)
         ELSE /\ call' = [call EXCEPT ![c] = [at |-> "ensure", op |-> "resume",
                                              step |-> step, project |-> project]]
              /\ UNCHANGED runLock
    /\ UNCHANGED <<serviceVars, ownVars, pathVars, motionCancel, scanVars, work, init, counts>>

\* Mutant: the resumed run goes on after the position it was stopped at.
ResumesPastStep(c) ==
    /\ call[c].at = "ensure" /\ scannerUp /\ CommandLockFree
    /\ resumeStart' = IF call[c].step = End THEN End ELSE call[c].step + 1
    /\ startup' = FALSE /\ defer' = FALSE
    /\ Goto(c, "clear")
    /\ UNCHANGED <<serviceVars, runLock, pathVars, motionCancel, scanVars, work, init, counts>>

\* ... and has the scanner open the project again.
ResumeEnsures(c) ==
    /\ call[c].at = "ensure" /\ scannerUp /\ CommandLockFree
    /\ resumeStart' = call[c].step /\ startup' = FALSE /\ defer' = FALSE
    /\ Goto(c, "clear")
    /\ UNCHANGED <<serviceVars, runLock, pathVars, motionCancel, scanVars, work, init, counts>>

\* The scanner is gone or does not answer: ConnectionError, TimeoutError, RuntimeError.
EnsureFails(c) ==
    /\ call[c].at = "ensure" /\ CommandLockFree
    /\ Raises(c)
    /\ UNCHANGED <<serviceVars, ownVars, pathVars, motionCancel, scanVars, work, init, counts>>

\* The SDK refuses the command: the SdkCommandError branch raises without
\* releasing _run_lock.
EnsureRefused(c) ==
    /\ call[c].at = "ensure" /\ CommandLockFree
    /\ Return(c)
    /\ UNCHANGED <<serviceVars, runLock, ownVars, pathVars, motionCancel, scanVars, work, init, counts>>

\* load_named_file.  The file was validated before, each check with a reading of
\* its own: it may have changed since.
CalibrationLoads(c) ==
    /\ call[c].at = "load"
    /\ loaded' \in {Calibration, Scanless, Broken}
    /\ Goto(c, "points")
    /\ UNCHANGED <<serviceVars, runLock, ownVars, active, points, motionCancel, scanVars, work, init, counts>>

\* The snapshot that is read then has a load error.
CalibrationLoadFails(c) ==
    /\ call[c].at = "points" /\ loaded = Broken
    /\ Raises(c)
    /\ UNCHANGED <<serviceVars, ownVars, pathVars, motionCancel, scanVars, work, init, counts>>

\* The client's points from the snapshot, if both exist.
PointsFromSnapshot ==
    IF points = NoClient \/ loaded = Broken THEN points ELSE loaded

CalibrationSetsPoints(c) ==
    /\ call[c].at = "points" /\ loaded \notin {Broken, Scanless}
    /\ points' = PointsFromSnapshot
    /\ resumeStart' = First /\ startup' = TRUE
    /\ Goto(c, "clear")
    /\ UNCHANGED <<serviceVars, runLock, defer, active, loaded, motionCancel, scanVars, work, init, counts>>

\* get_first_scan_list_index raises when the client has the points already, and the
\* except branch restores neither them nor the snapshot.
CalibrationHasNoScan(c) ==
    /\ call[c].at = "points" /\ loaded = Scanless
    /\ points' = PointsFromSnapshot
    /\ Raises(c)
    /\ UNCHANGED <<serviceVars, ownVars, active, loaded, motionCancel, scanVars, work, init, counts>>

StartClearsAbort(c) ==
    /\ call[c].at = "clear"
    /\ abort' = FALSE
    /\ Goto(c, "clearMotion")
    /\ UNCHANGED <<state, workerThread, initializing, project, step, runLock, ownVars,
                   pathVars, motionCancel, scanVars, work, init, counts>>

StartClearsMotion(c) ==
    /\ call[c].at = "clearMotion"
    /\ motionCancel' = FALSE
    /\ Goto(c, "run")
    /\ UNCHANGED <<serviceVars, runLock, ownVars, pathVars, scanVars, work, init, counts>>

\* Mutant: a new run keeps the step index of the run before it.
RunKeepsStep(c) ==
    /\ call[c].at = "run"
    /\ state' = "running" /\ project' = call[c].project
    /\ Goto(c, "spawn")
    /\ UNCHANGED <<abort, workerThread, initializing, step, runLock, ownVars, pathVars,
                   motionCancel, scanVars, work, init, counts>>

\* _set_state(state="running", ...)
StartRuns(c) ==
    /\ call[c].at = "run"
    /\ state' = "running" /\ step' = call[c].step /\ project' = call[c].project
    /\ Goto(c, "spawn")
    /\ UNCHANGED <<abort, workerThread, initializing, runLock, ownVars, pathVars,
                   motionCancel, scanVars, work, init, counts>>

StartSpawns(c, w) ==
    /\ call[c].at = "spawn" /\ work[w].at = "dead"
    /\ work' = [work EXCEPT ![w] = [NoWork EXCEPT
                   !.at = IF call[c].op = "calibration" THEN "enter" ELSE "top",
                   !.op = call[c].op]]
    /\ workerThread' = w
    /\ Return(c)
    /\ UNCHANGED <<state, abort, initializing, project, step, runLock, ownVars, pathVars,
                   motionCancel, scanVars, init, counts>>

Start(c) ==
    \/ \E op \in Ops : StartAcquires(c, op)
    \/ ContinueChecks(c)
StartProceeds(c) ==
    \/ ContinueAcquires(c) \/ StartValidates(c) \/ StartHasNoScan(c) \/ StartRefused(c)
    \/ ResumeReads(c) \/ ResumeEnsures(c) \/ EnsureFails(c) \/ EnsureRefused(c)
    \/ CalibrationLoads(c) \/ CalibrationLoadFails(c) \/ CalibrationSetsPoints(c)
    \/ CalibrationHasNoScan(c)
    \/ StartClearsAbort(c) \/ StartClearsMotion(c) \/ StartRuns(c)
    \/ \E w \in Workers : StartSpawns(c, w)

----------------------------------------------------------------------------
(* stop_cycle, reload_scanner and reconnect_scanner.                        *)

\* Mutant: a stop marks the service as stopping whatever its state is.
StopMarksAlways(c) ==
    /\ Enter(c, "stop", "setAbort")
    /\ state' = "stopping"
    /\ UNCHANGED <<abort, workerThread, initializing, project, step, runLock, ownVars,
                   pathVars, motionCancel, scanVars, work, init, drops>>

\* stop_cycle's first block under _lock; a stop with nothing to stop returns.
StopMarks(c) ==
    /\ \/ Enter(c, "stop", "setAbort") /\ state \in Busy
       \/ /\ call[c].at = "stopFirst" /\ UNCHANGED calls
          /\ Goto(c, IF state \in Busy THEN "setAbort" ELSE "restart")
    /\ state' = IF state \in Busy THEN "stopping" ELSE state
    /\ UNCHANGED <<abort, workerThread, initializing, project, step, runLock, ownVars,
                   pathVars, motionCancel, scanVars, work, init, drops>>

StopSetsAbort(c) ==
    /\ call[c].at = "setAbort"
    /\ abort' = TRUE
    /\ Goto(c, "cancel")
    /\ UNCHANGED <<state, workerThread, initializing, project, step, runLock, ownVars,
                   pathVars, motionCancel, scanVars, work, init, counts>>

StopCancelsMotion(c) ==
    /\ call[c].at = "cancel"
    /\ motionCancel' = (points # NoClient)
    /\ Goto(c, "join")
    /\ UNCHANGED <<serviceVars, runLock, ownVars, pathVars, scanVars, work, init, counts>>

\* Mutant: stop_cycle clears the event it has set when its join is over.
StopClearsAfterJoin(c) ==
    /\ call[c].at = "join"
    /\ workerThread \in Workers => work[workerThread].at \in Slow \cup {"dead"}
    /\ abort' = FALSE
    /\ IF call[c].op = "reload" THEN Goto(c, "restart") ELSE Return(c)
    /\ UNCHANGED <<state, workerThread, initializing, project, step, runLock, ownVars,
                   pathVars, motionCancel, scanVars, work, init, counts>>

\* worker.join(timeout=5.0)
StopJoins(c) ==
    /\ call[c].at = "join"
    /\ workerThread \in Workers => work[workerThread].at \in Slow \cup {"dead"}
    /\ IF call[c].op = "reload" THEN Goto(c, "restart") ELSE Return(c)
    /\ UNCHANGED <<serviceVars, runLock, ownVars, pathVars, motionCancel, scanVars, work, init, counts>>

\* reload_scanner and reconnect_scanner look at _state under _lock.
ReloadChecks(c) ==
    /\ Enter(c, "reload", IF state \in Busy THEN "stopFirst" ELSE "restart")
    /\ UNCHANGED <<serviceVars, runLock, ownVars, pathVars, motionCancel, scanVars, work, init, drops>>

\* scanner_service.start / restart / force_reconnect: a failure propagates.
ReloadRestarts(c) ==
    /\ call[c].at = "restart"
    /\ \/ scannerUp' = TRUE /\ Goto(c, "forget")
       \/ scannerUp' = FALSE /\ Return(c)
    /\ UNCHANGED <<serviceVars, runLock, ownVars, pathVars, motionCancel, created, scanned,
                   skipped, leftExport, work, init, counts>>

\* _clear_resume_state
Forget == project' = None /\ step' = None

ReloadForgets(c) ==
    /\ call[c].at = "forget"
    /\ Forget
    /\ Return(c)
    /\ UNCHANGED <<state, abort, workerThread, initializing, runLock, ownVars, pathVars,
                   motionCancel, scanVars, work, init, counts>>

StopProceeds(c) ==
    \/ StopMarks(c) /\ call[c].at # "idle"
    \/ StopSetsAbort(c) \/ StopCancelsMotion(c) \/ StopJoins(c)
    \/ ReloadRestarts(c) \/ ReloadForgets(c)

----------------------------------------------------------------------------
(* A new active path (api/paths.py), the "paths" section of the settings,   *)
(* and a jog to a position of the path.                                     *)

\* _ensure_pipeline_idle
SelectChecks(c) ==
    /\ state \notin Busy
    /\ Enter(c, "select", "select")
    /\ UNCHANGED <<serviceVars, runLock, ownVars, pathVars, motionCancel, scanVars, work, init, drops>>

SelectReloads(c, p) ==
    /\ call[c].at = "select"
    /\ active' = p /\ loaded' = p
    /\ Goto(c, "updated")
    /\ UNCHANGED <<serviceVars, runLock, ownVars, points, motionCancel, scanVars, work, init, counts>>

\* on_path_updated: the check of _state is a block under _lock of its own.
PathChecks(c) ==
    /\ call[c].at = "updated"
    /\ IF state \in Busy THEN Return(c) ELSE Goto(c, "setPoints")
    /\ UNCHANGED <<serviceVars, runLock, ownVars, pathVars, motionCancel, scanVars, work, init, counts>>

PathSets(c) ==
    /\ call[c].at = "setPoints"
    /\ points' = PointsFromSnapshot
    /\ Return(c)
    /\ UNCHANGED <<serviceVars, runLock, ownVars, active, loaded, motionCancel, scanVars, work, init, counts>>

\* apply_settings_section("paths") reloads the snapshot, whatever runs.
SettingsReload(c, p) ==
    /\ call[c].at = "idle" /\ "settings" \in Ops /\ calls < MaxCalls
    /\ calls' = calls + 1
    /\ active' = p /\ loaded' = p
    /\ UNCHANGED <<serviceVars, runLock, ownVars, points, motionCancel, scanVars, call, work, init, drops>>

\* move_to_path_position
JogChecks(c) ==
    /\ state \notin Busy
    /\ Enter(c, "jog", "jogClient")
    /\ UNCHANGED <<serviceVars, runLock, ownVars, pathVars, motionCancel, scanVars, work, init, drops>>

\* _ensure_jog_robot_client and the connection attempts, which may fail.
JogEnsuresClient(c) ==
    /\ call[c].at = "jogClient"
    /\ points' = IF points = NoClient THEN NoPoints ELSE points
    /\ motionCancel' = (points # NoClient /\ motionCancel)
    /\ Goto(c, "jogClear") \/ Return(c)
    /\ UNCHANGED <<serviceVars, runLock, ownVars, active, loaded, scanVars, work, init, counts>>

JogClearsMotion(c) ==
    /\ call[c].at = "jogClear"
    /\ motionCancel' = FALSE
    /\ Goto(c, "jogging")
    /\ UNCHANGED <<serviceVars, runLock, ownVars, pathVars, scanVars, work, init, counts>>

\* The hops of _travel_by_id_route, to the goal or to an error.
JogEnds(c) ==
    /\ call[c].at = "jogging"
    /\ Return(c)
    /\ UNCHANGED <<serviceVars, runLock, ownVars, pathVars, motionCancel, scanVars, work, init, counts>>

PathProceeds(c) ==
    \/ \E p \in Paths : SelectReloads(c, p)
    \/ PathChecks(c) \/ PathSets(c)
    \/ JogEnsuresClient(c) \/ JogClearsMotion(c) \/ JogEnds(c)

CallerBegins(c) ==
    \/ Start(c) \/ (StopMarks(c) /\ call[c].at = "idle") \/ ReloadChecks(c)
    \/ SelectChecks(c) \/ JogChecks(c) \/ \E p \in Paths : SettingsReload(c, p)
CallerProceeds(c) == StartProceeds(c) \/ StopProceeds(c) \/ PathProceeds(c)

----------------------------------------------------------------------------
(* _init_worker_loop and _run_init_pass.  The check of _state and the write *)
(* of _initializing are separate blocks under _lock.                        *)

InitChecks ==
    /\ init.at = "wait" /\ state \notin Busy
    /\ InitGoto("begin")
    /\ UNCHANGED <<serviceVars, runLock, ownVars, pathVars, motionCancel, scanVars, call, work, counts>>

InitBegins ==
    /\ init.at = "begin"
    /\ initializing' = TRUE
    /\ InitGoto("scanner")
    /\ UNCHANGED <<state, abort, workerThread, project, step, runLock, ownVars, pathVars,
                   motionCancel, scanVars, call, work, counts>>

\* scanner_service.start, skipped when connected or busy connecting.
InitScanner ==
    /\ init.at = "scanner"
    /\ \/ ~scannerUp /\ scannerUp' = TRUE /\ InitGoto("forget")
       \/ InitGoto("client") /\ UNCHANGED scannerUp
    /\ UNCHANGED <<serviceVars, runLock, ownVars, pathVars, motionCancel, created, scanned,
                   skipped, leftExport, call, work, counts>>

\* _clear_scanner_project
InitForgets ==
    /\ init.at = "forget"
    /\ Forget
    /\ InitGoto("client")
    /\ UNCHANGED <<state, abort, workerThread, initializing, runLock, ownVars, pathVars,
                   motionCancel, scanVars, call, work, counts>>

\* _ensure_robot_client reads the snapshot before it looks for a client; the
\* check and the assignment of _robot are separate blocks under _lock.
\* Connecting the client changes nothing kept here.
InitChecksClient ==
    /\ init.at = "client"
    /\ IF points = NoClient /\ loaded # Broken
         THEN init' = [at |-> "create", path |-> loaded]
         ELSE InitGoto("end")
    /\ UNCHANGED <<serviceVars, runLock, ownVars, pathVars, motionCancel, scanVars, call, work, counts>>

InitCreatesClient ==
    /\ init.at = "create"
    /\ points' = init.path
    /\ motionCancel' = FALSE
    /\ init' = [NoInit EXCEPT !.at = "end"]
    /\ UNCHANGED <<serviceVars, runLock, ownVars, active, loaded, scanVars, call, work, counts>>

InitEnds ==
    /\ init.at = "end"
    /\ initializing' = FALSE
    /\ InitGoto("wait")
    /\ UNCHANGED <<state, abort, workerThread, project, step, runLock, ownVars, pathVars,
                   motionCancel, scanVars, call, work, counts>>

InitWorker ==
    \/ InitChecks \/ InitBegins \/ InitScanner \/ InitForgets
    \/ InitChecksClient \/ InitCreatesClient \/ InitEnds

\* The scanner process goes away: on_scanner_disconnected runs in the thread
\* that receives from it.
ScannerDrops ==
    /\ scannerUp /\ drops < MaxDrops
    /\ drops' = drops + 1
    /\ scannerUp' = FALSE
    /\ Forget
    /\ UNCHANGED <<state, abort, workerThread, initializing, runLock, ownVars, pathVars,
                   motionCancel, created, scanned, skipped, leftExport, call, work, init, calls>>

----------------------------------------------------------------------------
(* The cycle worker: _run_cycle_worker with its laps, and                   *)
(* _run_calibration_worker.                                                 *)

\* An exception: a calibration run leaves calibration mode first.
Raise(w, outcome) ==
    WorkGoto(w, IF work[w].op = "calibration" /\ work[w].at # "enter"
                  THEN (IF outcome = "aborted" THEN "exitAborted" ELSE "exitFailed")
                  ELSE outcome)

\* The run's mesh worker was started after the last scan, or when a run goes on
\* past it.  A run that raises then leaves it behind.
HasMeshWorker(w) ==
    /\ work[w].op # "calibration" /\ RunMode # "single_last_scan"
    /\ work[w].i = End /\ work[w].at \in {"loop", "moving", "ended"}
LeavesExport(w) ==
    IF HasMeshWorker(w)
      THEN leftExport' \in IF leftExport = "holds" THEN {"holds"} ELSE {leftExport, "waits", "holds"}
      ELSE UNCHANGED leftExport

\* Mutant: the waits for the robot do not get the abort event.
SeesAbortBetweenSteps(w) ==
    abort /\ work[w].at \in {"top", "loop", "scanning", "ended", "record"}

\* Where the run looks at _abort_event itself, or waits for the robot and
\* finds it set ("Cycle aborted").  capture_calibration does not look.
SeesAbort(w) ==
    /\ abort
    /\ work[w].at \in {"top", "travel", "loop", "moving", "scanning", "home", "ended", "record"}
    /\ work[w].at = "scanning" => work[w].op # "calibration"
    /\ work[w].at = "record" => RunMode = "repeat_on_success"

WorkerSeesAbort(w) ==
    /\ SeesAbort(w)
    /\ Raise(w, "aborted")
    /\ LeavesExport(w)
    /\ UNCHANGED <<serviceVars, runLock, ownVars, pathVars, motionCancel, scannerUp, created,
                   scanned, skipped, call, init, counts>>

\* A cancelled motion: a jog raises "Cycle aborted", a move raises "Robot motion failed".
WorkerSeesCancel(w) ==
    /\ ~abort /\ motionCancel
    /\ \/ work[w].at \in {"travel", "home"} /\ Raise(w, "aborted")
       \/ work[w].at = "moving" /\ Raise(w, "failed")
    /\ LeavesExport(w)
    /\ UNCHANGED <<serviceVars, runLock, ownVars, pathVars, motionCancel, scannerUp, created,
                   scanned, skipped, call, init, counts>>

\* One SDK command: once it has the command lock it ends with its timeout at the
\* latest.
Commands == {"create", "enter", "prepare"}

\* Any other exception: the scanner, the robot, a route, a file.
WorkerFails(w) ==
    /\ work[w].at \in Commands \cup {"travel", "moving", "scanning", "home", "ended", "record"}
    /\ work[w].at \in {"enter", "scanning"} => CommandLockFree
    /\ Raise(w, "failed")
    /\ LeavesExport(w)
    /\ UNCHANGED <<serviceVars, runLock, ownVars, pathVars, motionCancel, scannerUp, created,
                   scanned, skipped, call, init, counts>>

\* A lap begins; the first one of a new run has its project created here.
LapBegins(w) ==
    /\ work[w].at = "top" /\ ~abort
    /\ WorkGoto(w, IF defer THEN "create" ELSE "ready")
    /\ UNCHANGED <<serviceVars, runLock, ownVars, pathVars, motionCancel, scanVars, call, init, counts>>

\* _create_project: the project name is new (its counter is advanced).
NewProject ==
    /\ scannerUp /\ CommandLockFree /\ created < MaxProjects
    /\ created' = created + 1
    /\ project' = created + 1
    /\ UNCHANGED <<state, abort, workerThread, initializing, step, scannerUp, scanned, skipped,
                   leftExport>>

WorkerCreates(w) ==
    /\ work[w].at = "create"
    /\ NewProject
    /\ defer' = FALSE
    /\ WorkGoto(w, "ready")
    /\ UNCHANGED <<runLock, resumeStart, startup, pathVars, motionCancel, call, init, counts>>

\* The lap reads the robot and the project under _lock.
LapReads(w) ==
    /\ work[w].at = "ready"
    /\ project # None /\ points # NoClient
    /\ work' = [work EXCEPT ![w] = [@ EXCEPT !.project = project,
                                             !.at = IF startup THEN "travel" ELSE "first"]]
    /\ UNCHANGED <<serviceVars, runLock, ownVars, pathVars, motionCancel, scanVars, call, init, counts>>

\* "Scanner project is not ready", "Robot is not connected", or no points.
RunCannotBegin(w) ==
    /\ \/ work[w].at = "ready" /\ (project = None \/ points = NoClient)
       \/ work[w].at = "first" /\ points \in {NoPoints, Scanless}
    /\ Raise(w, "failed")
    /\ UNCHANGED <<serviceVars, runLock, ownVars, pathVars, motionCancel, scanVars, call, init, counts>>

\* enter_calibration
CalibrationEnters(w) ==
    /\ work[w].at = "enter" /\ scannerUp /\ CommandLockFree
    /\ WorkGoto(w, IF startup THEN "travel" ELSE "first")
    /\ UNCHANGED <<serviceVars, runLock, ownVars, pathVars, motionCancel, scanVars, call, init, counts>>

\* _execute_startup_travel
WorkerTravels(w) ==
    /\ work[w].at = "travel" /\ ~abort
    /\ WorkGoto(w, "first")
    /\ UNCHANGED <<serviceVars, runLock, ownVars, pathVars, motionCancel, scanVars, call, init, counts>>

StopsAtLastScan(w) == RunMode = "single_last_scan" /\ work[w].op # "calibration"

\* run_cycle / run_calibration_cycle up to its loop.
RunBegins(w) ==
    /\ work[w].at = "first" /\ points \notin {NoPoints, Scanless}
    /\ work' = [work EXCEPT ![w] = [@ EXCEPT !.i = resumeStart,
           !.at = IF StopsAtLastScan(w) /\ resumeStart = End THEN "home" ELSE "loop"]]
    /\ UNCHANGED <<serviceVars, runLock, ownVars, pathVars, motionCancel, scanVars, call, init, counts>>

\* One turn of the loop starts: on_step is one block under _lock.  It follows
\* the check of _abort_event at once; no other thread waits that long.
OnStep(w) ==
    /\ work[w].at = "loop" /\ ~abort
    /\ step' = work[w].i
    /\ project' = IF work[w].op = "calibration" THEN project ELSE work[w].project
    /\ WorkGoto(w, "moving")
    /\ UNCHANGED <<state, abort, workerThread, initializing, runLock, ownVars, pathVars,
                   motionCancel, scanVars, call, init, counts>>

\* move_robot_to_point, or the END move.
WorkerMoves(w) ==
    /\ work[w].at = "moving" /\ ~abort /\ ~motionCancel
    /\ work' = [work EXCEPT ![w] = [@ EXCEPT !.path = points,
           !.at = IF work[w].i # End THEN "scanning"
                  ELSE IF work[w].op = "calibration" THEN "record" ELSE "ended"]]
    /\ UNCHANGED <<serviceVars, runLock, ownVars, pathVars, motionCancel, scanVars, call, init, counts>>

\* The next turn of the loop, or the way home.
AfterScan(w) ==
    work' = [work EXCEPT ![w] = [@ EXCEPT !.i = work[w].i + 1,
        !.at = IF StopsAtLastScan(w) /\ work[w].i = LastScan THEN "home" ELSE "loop"]]

\* _run_scan_until_aligned or capture_calibration.
WorkerScans(w) ==
    /\ work[w].at = "scanning" /\ scannerUp /\ CommandLockFree
    /\ scanned' = IF work[w].op = "calibration" THEN scanned
                  ELSE [scanned EXCEPT ![work[w].project] = @ \cup {<<work[w].path, work[w].i>>}]
    /\ AfterScan(w)
    /\ UNCHANGED <<serviceVars, runLock, ownVars, pathVars, motionCancel, scannerUp, created,
                   skipped, leftExport, call, init, counts>>

\* A scan that cannot be aligned is left out, when the settings say so: the run
\* counts it and goes on.
WorkerSkipsScan(w) ==
    /\ work[w].at = "scanning" /\ work[w].op # "calibration" /\ scannerUp /\ CommandLockFree
    /\ SkipFailedScans
    /\ skipped' = [skipped EXCEPT ![work[w].project] = @ \cup {<<work[w].path, work[w].i>>}]
    /\ AfterScan(w)
    /\ UNCHANGED <<serviceVars, runLock, ownVars, pathVars, motionCancel, scannerUp, created,
                   scanned, leftExport, call, init, counts>>

\* The lap's result: the mesh export has ended, or the robot is back home.
LapEnds(w) ==
    /\ work[w].at = "ended" \/ (work[w].at = "home" /\ ~abort)
    /\ project' = work[w].project
    /\ WorkGoto(w, "record")
    /\ UNCHANGED <<state, abort, workerThread, initializing, step, runLock, ownVars, pathVars,
                   motionCancel, scanVars, call, init, counts>>

\* The history entry is written; a single run is over, and so is a calibration.
RunEnds(w) ==
    /\ work[w].at = "record"
    /\ RunMode # "repeat_on_success" \/ work[w].op = "calibration"
    /\ state' = "idle" /\ step' = None
    /\ WorkGoto(w, IF work[w].op = "calibration" THEN "exitDone" ELSE "clearAbort")
    /\ UNCHANGED <<abort, workerThread, initializing, project, runLock, ownVars, pathVars,
                   motionCancel, scanVars, call, init, counts>>

\* repeat_on_success goes on to _prepare_next_repeat_lap, which reads the snapshot
\* before it has the project created.  One without a scan point raises: WorkerFails.
RunRepeats(w) ==
    /\ work[w].at = "record" /\ work[w].op # "calibration"
    /\ RunMode = "repeat_on_success" /\ ~abort
    /\ loaded \notin {Broken, Scanless}
    /\ work' = [work EXCEPT ![w] = [@ EXCEPT !.at = "prepare", !.path = loaded]]
    /\ UNCHANGED <<serviceVars, runLock, ownVars, pathVars, motionCancel, scanVars, call, init, counts>>

NextLapCreates(w) ==
    /\ work[w].at = "prepare"
    /\ NewProject
    /\ resumeStart' = First /\ startup' = TRUE
    /\ WorkGoto(w, "rest")
    /\ UNCHANGED <<runLock, defer, pathVars, motionCancel, call, init, counts>>

NextLapSetsPoints(w) ==
    /\ work[w].at = "rest"
    /\ points' = IF points = NoClient THEN points ELSE work[w].path
    /\ motionCancel' = FALSE
    /\ WorkGoto(w, "top")
    /\ UNCHANGED <<serviceVars, runLock, ownVars, active, loaded, scanVars, call, init, counts>>

\* exit_calibration: its own failure is only logged.
CalibrationExits(w) ==
    /\ CommandLockFree
    /\ \/ work[w].at = "exitDone" /\ WorkGoto(w, "clearAbort")
       \/ work[w].at = "exitAborted" /\ WorkGoto(w, "aborted")
       \/ work[w].at = "exitFailed" /\ WorkGoto(w, "failed")
    /\ UNCHANGED <<serviceVars, runLock, ownVars, pathVars, motionCancel, scanVars, call, init, counts>>

\* Mutant: a run that fails while it is being stopped stays "stopping".
FailStaysStopping(w) ==
    /\ work[w].at \in {"aborted", "failed"}
    /\ state' = IF work[w].at = "aborted" THEN "idle"
                ELSE IF state = "stopping" THEN "stopping" ELSE "error"
    /\ WorkGoto(w, "clearAbort")
    /\ UNCHANGED <<abort, workerThread, initializing, project, step, runLock, ownVars,
                   pathVars, motionCancel, scanVars, call, init, counts>>

\* The except branches: an abort makes the service idle, a failure makes it error.
RunFails(w) ==
    /\ work[w].at \in {"aborted", "failed"}
    /\ state' = IF work[w].at = "aborted" THEN "idle" ELSE "error"
    /\ WorkGoto(w, "clearAbort")
    /\ UNCHANGED <<abort, workerThread, initializing, project, step, runLock, ownVars,
                   pathVars, motionCancel, scanVars, call, init, counts>>

\* The finally branches.
WorkerClearsAbort(w) ==
    /\ work[w].at = "clearAbort"
    /\ abort' = FALSE
    /\ WorkGoto(w, "clearMotion")
    /\ UNCHANGED <<state, workerThread, initializing, project, step, runLock, ownVars,
                   pathVars, motionCancel, scanVars, call, init, counts>>

WorkerClearsMotion(w) ==
    /\ work[w].at = "clearMotion"
    /\ motionCancel' = FALSE
    /\ WorkGoto(w, IF work[w].op = "calibration" THEN "restore" ELSE "release")
    /\ UNCHANGED <<serviceVars, runLock, ownVars, pathVars, scanVars, call, init, counts>>

\* Mutant: the active trajectory is not loaded again.
RestoresNothing(w) ==
    /\ work[w].at = "restore"
    /\ WorkGoto(w, "updated")
    /\ UNCHANGED <<serviceVars, runLock, ownVars, pathVars, motionCancel, scanVars, call, init, counts>>

\* reload_active, then on_path_updated with its check and its assignment.
CalibrationRestores(w) ==
    /\ work[w].at = "restore"
    /\ loaded' = active
    /\ WorkGoto(w, "updated")
    /\ UNCHANGED <<serviceVars, runLock, ownVars, active, points, motionCancel, scanVars,
                   call, init, counts>>

CalibrationChecksState(w) ==
    /\ work[w].at = "updated"
    /\ WorkGoto(w, IF state \in Busy THEN "release" ELSE "setPoints")
    /\ UNCHANGED <<serviceVars, runLock, ownVars, pathVars, motionCancel, scanVars, call, init, counts>>

CalibrationRestoresPoints(w) ==
    /\ work[w].at = "setPoints"
    /\ points' = PointsFromSnapshot
    /\ WorkGoto(w, "release")
    /\ UNCHANGED <<serviceVars, runLock, ownVars, active, loaded, motionCancel, scanVars,
                   call, init, counts>>

WorkerReleases(w) ==
    /\ work[w].at = "release"
    /\ runLock' = FALSE
    /\ work' = [work EXCEPT ![w] = NoWork]
    /\ UNCHANGED <<serviceVars, ownVars, pathVars, motionCancel, scanVars, call, init, counts>>

Lap(w) ==
    \/ LapBegins(w) \/ WorkerCreates(w) \/ LapReads(w) \/ CalibrationEnters(w)
    \/ RunCannotBegin(w) \/ RunBegins(w) \/ OnStep(w)
    \/ RunEnds(w) \/ RunRepeats(w) \/ NextLapCreates(w) \/ NextLapSetsPoints(w)
\* What takes as long as the robot, the scanner and the mesh export take.
Machine(w) ==
    \/ WorkerTravels(w) \/ WorkerMoves(w) \/ WorkerScans(w) \/ WorkerSkipsScan(w) \/ LapEnds(w)
Outcome(w) ==
    \/ WorkerSeesAbort(w) \/ WorkerSeesCancel(w) \/ CalibrationExits(w) \/ RunFails(w)
Cleanup(w) ==
    \/ WorkerClearsAbort(w) \/ WorkerClearsMotion(w) \/ CalibrationRestores(w)
    \/ CalibrationChecksState(w) \/ CalibrationRestoresPoints(w) \/ WorkerReleases(w)
CycleWorker(w) == Lap(w) \/ Machine(w) \/ WorkerFails(w) \/ Outcome(w) \/ Cleanup(w)

----------------------------------------------------------------------------
(* The mesh workers of runs that are over: generate_mesh_and_save takes      *)
(* _sdk_command_lock and keeps it over commands without a timeout.           *)

ExportTakesLock ==
    /\ leftExport = "waits"
    /\ leftExport' = "holds"
    /\ UNCHANGED <<serviceVars, runLock, ownVars, pathVars, motionCancel, scannerUp, created,
                   scanned, skipped, call, work, init, counts>>

\* It may be the last one, or another one may be waiting.
ExportEnds ==
    /\ leftExport = "holds"
    /\ leftExport' \in {"none", "waits"}
    /\ UNCHANGED <<serviceVars, runLock, ownVars, pathVars, motionCancel, scannerUp, created,
                   scanned, skipped, call, work, init, counts>>

LeftExports == ExportTakesLock \/ ExportEnds

----------------------------------------------------------------------------

Next ==
    \/ \E c \in Callers : CallerBegins(c) \/ CallerProceeds(c)
    \/ \E w \in Workers : CycleWorker(w)
    \/ InitWorker
    \/ ScannerDrops
    \/ LeftExports

Spec == Init /\ [][Next]_vars

(* The code's scheduling: every thread goes on when it can, and an SDK        *)
(* command that has the command lock ends at its timeout.  Nothing says how   *)
(* long the robot, a scan that is retried or a mesh export takes: what waits  *)
(* for them is not fair, nor is the end of an export that was left behind;    *)
(* only the looks at _abort_event on the way are.                             *)
CommandFails(w) ==
    /\ \/ work[w].at \in Commands
       \/ work[w].at = "scanning" /\ work[w].op = "calibration"
    /\ CommandLockFree
    /\ WorkerFails(w)
Fairness ==
    /\ \A c \in Callers : WF_vars(CallerProceeds(c))
    /\ \A w \in Workers : WF_vars(Lap(w) \/ Outcome(w) \/ Cleanup(w) \/ CommandFails(w))
FairSpec == Spec /\ Fairness

----------------------------------------------------------------------------
(* Properties. *)

ServiceTypeOK ==
    /\ state \in {"idle", "running", "stopping", "error"}
    /\ runLock \in BOOLEAN /\ abort \in BOOLEAN /\ initializing \in BOOLEAN
    /\ workerThread \in Workers \cup {NoWorker}
    /\ project \in {None} \cup Projects /\ step \in {None} \cup Indices
    /\ resumeStart \in Indices /\ startup \in BOOLEAN /\ defer \in BOOLEAN
PathTypeOK ==
    /\ active \in Paths
    /\ loaded \in Paths \cup {Calibration, Scanless, Broken}
    /\ points \in Trajectories
    /\ motionCancel \in BOOLEAN
ScannerTypeOK ==
    /\ scannerUp \in BOOLEAN /\ created \in 0..MaxProjects
    /\ scanned \in [Projects -> SUBSET (Trajectories \X Indices)]
    /\ skipped \in [Projects -> SUBSET (Trajectories \X Indices)]
    /\ leftExport \in {"none", "waits", "holds"}
ThreadTypeOK ==
    /\ call \in [Callers -> [at : CallerAt, op : AllOps, step : {None} \cup Indices,
                             project : {None} \cup Projects]]
    /\ work \in [Workers -> [at : WorkerAt, op : AllOps, i : Indices,
                             project : {None} \cup Projects,
                             path : Trajectories]]
    /\ init \in [at : InitAt, path : Paths \cup {Calibration, Scanless, NoPoints}]
    /\ calls \in 0..MaxCalls /\ drops \in 0..MaxDrops

\* Every variable and every thread is in its domain: indices stay in the path,
\* a project number is one that was created.
TypeOK == ServiceTypeOK /\ PathTypeOK /\ ScannerTypeOK /\ ThreadTypeOK

\* The threads that have taken the run: callers between acquiring _run_lock
\* and starting a worker, and workers that have not returned.
Owners == {c \in Callers : call[c].at \in Starting} \cup {w \in Workers : work[w].at # "dead"}

\* One run at a time: _run_lock is taken by one thread and released by
\* another, and never lets two of them start or work on a run together.
OneRun ==
    /\ Owners # {} => runLock
    /\ \A x, y \in Owners : x = y

\* _state says "running" or "stopping" exactly while there is a run to stop: a
\* caller about to start its worker, or a worker with its outcome to write.
\* Otherwise a stop would be lost, or would wait for a run that is over.
StateTellsRun ==
    state \in Busy <=> \/ \E c \in Callers : call[c].at = "spawn"
                      \/ \E w \in Workers : work[w].at \in Going

\* A stop that has signalled its run stays signalled until the run has ended,
\* whatever starts, jogs and other stops do meanwhile.
StopIsKept == [][state = "stopping" /\ abort /\ state' = "stopping" => abort']_vars

\* stop_cycle's promise: a run told to stop ends -- unless the mesh worker of an
\* earlier run has the scanner's command lock, which a command of this run waits
\* for without a timeout.
StopEndsRun == (state = "stopping") ~> (state \in {"idle", "error"} \/ ~CommandLockFree)

\* What a run has done with the positions of a project: scanned them, or left
\* them out where the settings allow that.
Treated(p) == scanned[p] \cup (IF SkipFailedScans THEN skipped[p] ELSE {})

\* What the scans are for: a run that reports success has scanned every scan
\* position of the path it drove into the project it names, but for those whose
\* scan failed and was to be skipped, whether it was stopped and continued on the
\* way or not.
FinishedMeansScanned ==
    \A w \in Workers :
        work[w].at = "record" /\ work[w].op # "calibration" =>
            {work[w].path} \X (First..LastScan) \subseteq Treated(work[w].project)

\* A resume point is one of its project: what a continued run leaves out has
\* been scanned into the project it goes on with, or skipped as it should be.
ResumeSkipsNothing ==
    CanResume => \A i \in First..(step - 1) : \E p \in Paths : <<p, i>> \in Treated(project)

\* Only a thread that runs a cycle, or is starting one, keeps _run_lock:
\* "Pipeline cycle is already running" is true when it is said.
RunLockHasOwner == runLock => Owners # {}

\* A run drives the trajectory it is for: a calibration run that of
\* calibration.json, any other run the active one that is loaded; and when nobody
\* runs a cycle the calibration trajectory is gone again.  What a calibration
\* start that found no scan point leaves behind cannot be driven by a run.
RunDrivesItsPath ==
    /\ \A w \in Workers : work[w].at = "moving" =>
          points = IF work[w].op = "calibration" THEN Calibration ELSE active
    /\ Owners = {} => loaded # Calibration /\ points # Calibration

\* move_to_path_position: "Cannot move robot while pipeline is running".
JogsAloneOnTheRobot ==
    (\E c \in Callers : call[c].at = "jogging") =>
        \A w \in Workers : work[w].at \notin {"travel", "moving", "home"}

----------------------------------------------------------------------------
(* The promise: PipelineRun implements RunLifecycle. *)

\* The phase of the run, told by _state and the threads that own it.
Phase ==
    IF state \in Busy THEN "going"
    ELSE IF \E c \in Callers : call[c].at \in Starting THEN "starting"
    ELSE IF \E w \in Workers : work[w].at # "dead" THEN "closing"
    ELSE "none"

Lifecycle == INSTANCE RunLifecycle WITH
    phase <- Phase, asked <- state = "stopping", signal <- abort

\* Whatever two callers, their workers, the initialisation and the scanner do
\* together, what comes of it is one run after another, each started, going, over and
\* cleaned up in turn, with no stop taken back while its run goes.
ImplementsLifecycle == Lifecycle!Spec

=============================================================================
