---------------------------- MODULE ScannerService ----------------------------
(***************************************************************************)
(* The scanner service (app/scanner/service.py), composed with the parts   *)
(* of the pipeline service that drive it: the threads that connect, apply  *)
(* settings or reload the scanner, the run that opens a project and scans, *)
(* the mesh worker it starts after its last scan (pipeline/cycle.py), and  *)
(* the receiver thread of every client, which calls the service back.      *)
(*                                                                         *)
(* What happens inside one client is in SdkClient; a command here has the  *)
(* outcomes that module shows.  Every start makes a client of its own, so  *)
(* a client is a number.  _sdk and _connected change together, and so do   *)
(* _sdk_project_name and _sdk_project_ready: each pair is one variable.    *)
(***************************************************************************)
EXTENDS Naturals, FiniteSets

CONSTANTS
    Callers,      \* request threads and the init worker
    Worker,       \* the thread that begins a run, then its worker
    Exporters,    \* threads for mesh workers
    NoThread,
    MaxClients,   \* bound: clients that are made
    MaxProjects,  \* bound: project names that are given out
    MaxOps,       \* bound: operations that are asked for, but for the init worker's start
    MaxScans,     \* bound: scans in a run, or in what is left of it
    MaxLosses     \* bound: lost connections, offline reports and commands that are given up

Clients == 1..MaxClients   \* also names the receiver thread of each
Threads == Callers \cup {Worker} \cup Exporters \cup Clients
NoProject == 0
Preview == MaxProjects + 1 \* SETTINGS_PREVIEW_PROJECT_NAME

ASSUME ThreadAssumption ==
    /\ Worker \notin Callers \cup Exporters /\ Callers \cap Exporters = {}
    /\ NoThread \notin Threads
    /\ (Callers \cup {Worker} \cup Exporters) \cap Clients = {}
ASSUME BoundAssumption ==
    /\ MaxClients \in Nat \ {0} /\ MaxProjects \in Nat /\ MaxOps \in Nat
    /\ MaxScans \in Nat /\ MaxLosses \in Nat

VARIABLES
    startLock,    \* who holds _start_lock
    cmdLock,      \* who holds _sdk_command_lock
    sdk,          \* _sdk when _connected (0: not connected)
    connecting,   \* _connecting
    restarting,   \* _restarting
    handling,     \* _handling_offline
    project,      \* _sdk_project_name when _sdk_project_ready
    link,         \* per client: none, up, lost (not noticed), told (waiters are woken),
                  \* closed, told and closed
    callbacks,    \* per client: the service's callbacks are set
    th,           \* per thread: where it is, in which operation, with which client
    run,          \* the pipeline's _state: idle, running, or over (not resumable)
    projectName,  \* the pipeline's _project_name
    runProject,   \* the project the run works in
    abort,        \* the pipeline's _abort_event
    past,         \* the run has got past its last scan
    mesh,         \* the run's mesh worker
    meshFailed,   \* mesh_worker_error
    exportOf,     \* per mesh worker: the project it exports
    opened,       \* per client: the project the SDK has open
    setUp,        \* per client: the open project got its parameters
    late,         \* per client: what the SDK may still answer, the project of a createSln that was
                  \* given up, or NoProject for a command of a set-up
    abandoned,    \* history: per client that is open, a createSln or a set-up was given up before its answer
    saved,        \* per project: the one whose data the file of its name holds
    overlap,      \* history: a start or a save overlapped the beginning of the run
    setUpFailed,  \* history: a continue failed during the set-up of its project
    astray,       \* history of the exports: "cut", a save was cut, and its command came back as if
                  \* it had ended; "left", a mesh worker outlived its run, its run began in an overlap,
                  \* or it saved where a createSln had been abandoned
    exported,     \* history: the projects whose run ended well with its export
    clients, projects, ops, scans, losses

lockVars == <<startLock, cmdLock>>
flagVars == <<connecting, restarting, handling>>
clientVars == <<link, callbacks>>
sdkVars == <<opened, setUp, late, abandoned>>
runVars == <<run, projectName, runProject, abort>>
meshVars == <<past, mesh, meshFailed, exportOf, saved, astray, exported>>
histVars == <<overlap, setUpFailed>>
countVars == <<clients, projects, ops, scans, losses>>
vars == <<lockVars, sdk, flagVars, project, clientVars, th, runVars, meshVars, sdkVars, histVars, countVars>>

-----------------------------------------------------------------------------
Idle == [pc |-> "idle", op |-> "none", c |-> 0]

\* Operations that begin with _start_lock.
Starting == {"start", "restart", "force", "ensure", "apply"}

Goto(t, pc) == th' = [th EXCEPT ![t].pc = pc]
Leaves(t) == th' = [th EXCEPT ![t] = Idle]

\* Threads that may still make a client, which the bound keeps room for.
MayMakeClient ==
    {t \in Callers : th[t].op \in Starting
                       /\ th[t].pc \in {"ensure", "lockStart", "waitConn", "take", "quiet", "close", "begin"}}
RoomForClient == clients + Cardinality(MayMakeClient) < MaxClients

\* The project a thread opens with createSln.
Opens(t) ==
    IF t # Worker THEN Preview ELSE IF th[t].op = "new" THEN projects ELSE runProject

\* Where an operation goes when it has what it came for.
AfterStop(t) ==
    CASE t \in Clients -> "report"
      [] t \in Callers /\ th[t].op \in {"restart", "force"} -> "begin"
      [] OTHER -> "finished"

\* The mesh worker of the run is at work.
Exports == mesh # NoThread /\ th[mesh].pc # "idle"

\* History: the export is from now on its own.
StrayIf(cond) == IF cond THEN "left" ELSE astray

-----------------------------------------------------------------------------
(* What the pipeline asks of the service. *)

\* Mutant: a settings section is applied while a run is on.
ChecksNothing == TRUE

\* apply_settings_section, the init worker: not while a run is on.
NotRunning == run # "running"

\* reload_scanner and reconnect_scanner stop a run first; the init worker starts
\* the scanner when it is not connected; a save applies a section.
Asks(t, op) ==
    /\ th[t].pc = "idle" /\ (op # "start" => ops < MaxOps)
    /\ op \in {"start", "apply"} => NotRunning
    /\ op = "start" => sdk = 0 /\ ~connecting /\ ~restarting
    /\ op = "restart" => sdk # 0
    /\ op # "stop" => RoomForClient
    /\ abort' = (abort \/ (op \in {"restart", "force", "stop"} /\ run = "running"))
    /\ overlap' = (overlap \/ (th[Worker].pc # "idle" /\ run # "running"))
    /\ astray' = StrayIf(abort' /\ Exports)
    /\ th' = [th EXCEPT ![t] = [Idle EXCEPT !.op = op,
                !.pc = CASE op = "stop" -> "waitConn" [] op = "apply" -> "ensure" [] OTHER -> "lockStart"]]
    /\ ops' = IF op = "start" THEN ops ELSE ops + 1
    /\ UNCHANGED <<lockVars, sdk, flagVars, project, clientVars, run, projectName, runProject, sdkVars, past, mesh,
                   meshFailed, exportOf, saved, exported, setUpFailed, clients, projects, scans, losses>>

\* ensure_connected: connected now, or after the wait for a connect in progress,
\* which has a timeout; else start, until that succeeds or 30 s have passed.
EnsureConnected(t) ==
    /\ th[t].pc = "ensure"
    /\ \/ sdk # 0 /\ Goto(t, "lockCmd")
       \/ sdk = 0 /\ Goto(t, "lockStart")
    /\ UNCHANGED <<lockVars, sdk, flagVars, project, clientVars, runVars, sdkVars, meshVars, histVars, countVars>>

-----------------------------------------------------------------------------
(* start, restart, force_reconnect *)

LockStart(t) ==
    /\ th[t].pc = "lockStart" /\ startLock = NoThread
    /\ startLock' = t
    /\ restarting' = (restarting \/ th[t].op = "restart")
    /\ Goto(t, CASE th[t].op = "restart" -> "take" [] th[t].op = "force" -> "waitConn" [] OTHER -> "begin")
    /\ UNCHANGED <<cmdLock, sdk, connecting, handling, project, clientVars, runVars, sdkVars, meshVars, histVars, countVars>>

\* "already started"
AlreadyStarted(t) ==
    /\ th[t].pc = "begin" /\ sdk # 0
    /\ Goto(t, "unlock")
    /\ UNCHANGED <<lockVars, sdk, flagVars, project, clientVars, runVars, sdkVars, meshVars, histVars, countVars>>

BeginStart(t) ==
    /\ th[t].pc = "begin" /\ sdk = 0 /\ clients < MaxClients
    /\ connecting' = TRUE
    /\ clients' = clients + 1
    /\ callbacks' = [callbacks EXCEPT ![clients + 1] = TRUE]
    /\ th' = [th EXCEPT ![t].pc = "connect", ![t].c = clients + 1]
    /\ UNCHANGED <<lockVars, sdk, restarting, handling, project, link, runVars, sdkVars, meshVars, histVars, projects,
                   ops, scans, losses>>

\* _connect_with_retry, then _invalidate_sdk_project_state.
Connects(t) ==
    /\ th[t].pc = "connect"
    /\ link' = [link EXCEPT ![th[t].c] = "up"]
    /\ project' = NoProject
    /\ Goto(t, "lockCmd")
    /\ UNCHANGED <<lockVars, sdk, flagVars, callbacks, runVars, sdkVars, meshVars, histVars, countVars>>

\* Under the command lock: _release_stale_sdk_session resets the connection, and
\* so may every failed init.  The old receiver has a second to end.
Initializes(t) ==
    /\ th[t].pc = "init" /\ th[th[t].c].pc \in {"idle", "over"}
    /\ link' = [link EXCEPT ![th[t].c] = "up"]
    /\ opened' = [opened EXCEPT ![th[t].c] = NoProject]
    /\ th' = [th EXCEPT ![t].pc = "open", ![th[t].c].pc = "idle"]
    /\ UNCHANGED <<lockVars, sdk, flagVars, project, callbacks, runVars, meshVars, setUp, late, abandoned, histVars,
                   countVars>>

\* Mutant: a start leaves _handling_offline as it is.
PublishKeepsHandling(t) ==
    /\ th[t].pc = "publish"
    /\ sdk' = th[t].c
    /\ Goto(t, "connected")
    /\ UNCHANGED <<lockVars, flagVars, project, clientVars, runVars, sdkVars, meshVars, histVars, countVars>>

Publish(t) ==
    /\ th[t].pc = "publish"
    /\ sdk' = th[t].c /\ handling' = FALSE
    /\ Goto(t, "connected")
    /\ UNCHANGED <<lockVars, connecting, restarting, project, clientVars, runVars, sdkVars, meshVars, histVars, countVars>>

\* The finally clause of _start_unlocked.
ClearConnecting(t) ==
    /\ th[t].pc \in {"connected", "failed"}
    /\ connecting' = FALSE
    /\ Goto(t, IF th[t].pc = "failed" /\ th[t].op = "apply" THEN "unlockRetry" ELSE "unlock")
    /\ UNCHANGED <<lockVars, sdk, restarting, handling, project, clientVars, runVars, sdkVars, meshVars, histVars, countVars>>

\* The client's own disconnect wakes nobody; there is none if it never connected.
Closed(l) == IF l = "told" THEN "cut" ELSE IF l = "none" THEN "none" ELSE "closed"

\* Mutant: a start that fails keeps its connection.
FailKeepsLink(t) ==
    /\ th[t].pc = "fail"
    /\ callbacks' = [callbacks EXCEPT ![th[t].c] = FALSE]
    /\ th' = [th EXCEPT ![t].pc = "failed", ![t].c = 0]
    /\ UNCHANGED <<lockVars, sdk, flagVars, project, link, runVars, sdkVars, meshVars, histVars, countVars>>

\* The except clause: callbacks off, disconnect.
FailStart(t) ==
    /\ th[t].pc = "fail"
    /\ callbacks' = [callbacks EXCEPT ![th[t].c] = FALSE]
    /\ link' = [link EXCEPT ![th[t].c] = Closed(@)]
    /\ opened' = [opened EXCEPT ![th[t].c] = NoProject] /\ setUp' = [setUp EXCEPT ![th[t].c] = FALSE]
    /\ late' = [late EXCEPT ![th[t].c] = {}] /\ abandoned' = [abandoned EXCEPT ![th[t].c] = FALSE]
    /\ th' = [th EXCEPT ![t].pc = "failed", ![t].c = 0]
    /\ UNCHANGED <<lockVars, sdk, flagVars, project, runVars, meshVars, histVars, countVars>>

\* The start lock is given back; a save goes on to the section it applies, tries
\* again, or gives up.
UnlockStart(t) ==
    /\ th[t].pc \in {"unlock", "unlockRetry"}
    /\ startLock' = NoThread
    /\ restarting' = (restarting /\ th[t].op # "restart")
    /\ IF th[t].op = "apply"
       THEN \/ th[t].pc = "unlock" /\ th' = [th EXCEPT ![t].pc = "lockCmd", ![t].c = 0]
            \/ th[t].pc = "unlockRetry" /\ Leaves(t)
            \/ th[t].pc = "unlockRetry" /\ RoomForClient /\ Goto(t, "lockStart")
       ELSE Leaves(t)
    /\ UNCHANGED <<cmdLock, sdk, connecting, handling, project, clientVars, runVars, sdkVars, meshVars, histVars, countVars>>

-----------------------------------------------------------------------------
(* _stop_unlocked, after the wait for a connect in progress *)

\* _wait_for_connecting_to_finish ends when the flag is down, or after 10 s; then
\* force_reconnect clears the flag.
WaitConnecting(t) ==
    /\ th[t].pc = "waitConn"
    /\ connecting' = (connecting /\ th[t].op # "force")
    /\ Goto(t, "take")
    /\ UNCHANGED <<lockVars, sdk, restarting, handling, project, clientVars, runVars, sdkVars, meshVars, histVars, countVars>>

Finishes(t) ==
    IF AfterStop(t) = "finished" THEN Leaves(t)
    ELSE th' = [th EXCEPT ![t].pc = AfterStop(t), ![t].c = 0]

Take(t) ==
    /\ th[t].pc = "take"
    /\ sdk' = 0 /\ project' = NoProject
    /\ IF sdk = 0 THEN Finishes(t) ELSE th' = [th EXCEPT ![t].pc = "quiet", ![t].c = sdk]
    /\ UNCHANGED <<lockVars, flagVars, clientVars, runVars, sdkVars, meshVars, histVars, countVars>>

Quiet(t) ==
    /\ th[t].pc = "quiet"
    /\ callbacks' = [callbacks EXCEPT ![th[t].c] = FALSE]
    /\ Goto(t, "close")
    /\ UNCHANGED <<lockVars, sdk, flagVars, project, link, runVars, sdkVars, meshVars, histVars, countVars>>

\* release (or not: its outcome is ignored), then disconnect.
Close(t) ==
    /\ th[t].pc = "close"
    /\ link' = [link EXCEPT ![th[t].c] = Closed(@)]
    /\ opened' = [opened EXCEPT ![th[t].c] = NoProject] /\ setUp' = [setUp EXCEPT ![th[t].c] = FALSE]
    /\ late' = [late EXCEPT ![th[t].c] = {}] /\ abandoned' = [abandoned EXCEPT ![th[t].c] = FALSE]
    /\ Finishes(t)
    /\ UNCHANGED <<lockVars, sdk, flagVars, project, callbacks, runVars, meshVars, histVars, countVars>>

-----------------------------------------------------------------------------
(* Commands.  A command needs a client that is not known to be cut; a cut   *)
(* that is told while it waits ends it as a success without an answer.      *)

Usable(c) == link[c] \in {"up", "lost"}

\* A command that waits comes back: answered, or woken when the loss was told.
Returns(c) == link[c] \in {"up", "told", "cut"}

\* _sdk_command_lock, and _require_sdk except for the thread that starts.
LockCmd(t) ==
    /\ th[t].pc = "lockCmd" /\ cmdLock = NoThread
    /\ startLock = t \/ sdk # 0
    /\ cmdLock' = t
    /\ th' = [th EXCEPT ![t].c = IF startLock = t THEN @ ELSE sdk,
                        ![t].pc = CASE startLock = t          -> "init"
                                    [] th[t].op = "scan"      -> "scan"
                                    [] th[t].op = "export"    -> "generate"
                                    [] th[t].op = "resume" /\ project = runProject -> "unlockCmd"
                                    [] OTHER                  -> "open"]
    /\ UNCHANGED <<startLock, sdk, flagVars, project, clientVars, runVars, sdkVars, meshVars, histVars, countVars>>

\* Mutant: the project is not invalidated before createSln.
OpenKeepsProject(t) ==
    /\ th[t].pc = "open" /\ Usable(th[t].c)
    /\ Goto(t, "opening")
    /\ UNCHANGED <<lockVars, sdk, flagVars, project, clientVars, runVars, sdkVars, meshVars, histVars, countVars>>

\* _open_sdk_project: invalidate, createSln, mark.
Open(t) ==
    /\ th[t].pc = "open" /\ Usable(th[t].c)
    /\ project' = NoProject
    /\ Goto(t, "opening")
    /\ UNCHANGED <<lockVars, sdk, flagVars, clientVars, runVars, sdkVars, meshVars, histVars, countVars>>

Opened(t) ==
    /\ th[t].pc = "opening" /\ Returns(th[t].c)
    /\ IF link[th[t].c] = "up"
       THEN /\ opened' = [opened EXCEPT ![th[t].c] = Opens(t)]
            /\ setUp' = [setUp EXCEPT ![th[t].c] = FALSE]
       ELSE UNCHANGED <<opened, setUp>>
    /\ Goto(t, "mark")
    /\ UNCHANGED <<lockVars, sdk, flagVars, project, clientVars, runVars, meshVars, late, abandoned, histVars, countVars>>

\* Mutant: a new project is not set up.
MarkIsEnough(t) ==
    /\ th[t].pc = "mark"
    /\ project' = Opens(t)
    /\ Goto(t, IF startLock = t THEN "setup" ELSE "unlockCmd")
    /\ UNCHANGED <<lockVars, sdk, flagVars, clientVars, runVars, sdkVars, meshVars, histVars, countVars>>

\* A section that only moves the preview project ends here.
Mark(t) ==
    /\ th[t].pc = "mark"
    /\ project' = Opens(t)
    /\ \/ Goto(t, "setup")
       \/ t # Worker /\ startLock # t /\ Goto(t, "unlockCmd")
    /\ UNCHANGED <<lockVars, sdk, flagVars, clientVars, runVars, sdkVars, meshVars, histVars, countVars>>

\* _setup_scanner_for_project, _apply_scanner_parameters: several commands.
SetUp(t) ==
    /\ th[t].pc = "setup" /\ Usable(th[t].c)
    /\ Goto(t, "setting")
    /\ UNCHANGED <<lockVars, sdk, flagVars, project, clientVars, runVars, sdkVars, meshVars, histVars, countVars>>

IsSetUp(t) ==
    /\ th[t].pc = "setting" /\ Returns(th[t].c)
    /\ setUp' = [setUp EXCEPT ![th[t].c] = @ \/ link[th[t].c] = "up"]
    /\ Goto(t, "unlockCmd")
    /\ UNCHANGED <<lockVars, sdk, flagVars, project, clientVars, runVars, meshVars, opened, late, abandoned, histVars,
                   countVars>>

\* The SDK comes to an end with a command that was given up, well or not.
LateFinish(c, p) ==
    /\ link[c] = "up"
    /\ \/ p # NoProject
          /\ opened' = [opened EXCEPT ![c] = p] /\ setUp' = [setUp EXCEPT ![c] = FALSE]
       \/ UNCHANGED <<opened, setUp>>

Waits(t, c, p) == th[t].c = c /\ th[t].pc = IF p = NoProject THEN "setting" ELSE "opening"

\* Its finish is dropped when nobody waits for one of that name ...
LateAnswer(c) ==
    /\ \E p \in late[c] :
          /\ \A t \in Threads : ~Waits(t, c, p)
          /\ LateFinish(c, p)
          /\ late' = [late EXCEPT ![c] = @ \ {p}]
    /\ UNCHANGED <<lockVars, sdk, flagVars, project, clientVars, th, runVars, meshVars, abandoned, histVars, countVars>>

\* ... else it is taken for the answer of the command that waits, which is now what
\* the SDK may still answer.  (A late startScan ends the next scan just as its own
\* answer does.)
TakesLateAnswer(t) ==
    /\ th[t].pc \in {"opening", "setting"}
    /\ \E p \in late[th[t].c] :
          /\ Waits(t, th[t].c, p)
          /\ LateFinish(th[t].c, p)
          /\ late' = [late EXCEPT ![th[t].c] = (@ \ {p}) \cup {IF p = NoProject THEN p ELSE Opens(t)}]
    /\ Goto(t, IF th[t].pc = "setting" THEN "unlockCmd" ELSE "mark")
    /\ UNCHANGED <<lockVars, sdk, flagVars, project, clientVars, runVars, meshVars, abandoned, histVars, countVars>>

\* run_scan.
Scan(t) ==
    /\ th[t].pc = "scan" /\ Usable(th[t].c)
    /\ Goto(t, "scanning")
    /\ UNCHANGED <<lockVars, sdk, flagVars, project, clientVars, runVars, sdkVars, meshVars, histVars, countVars>>

\* Only an answer ends a scan well.
Scanned(t) ==
    /\ th[t].pc = "scanning" /\ link[th[t].c] = "up"
    /\ Goto(t, "unlockCmd")
    /\ UNCHANGED <<lockVars, sdk, flagVars, project, clientVars, runVars, sdkVars, meshVars, histVars, countVars>>

\* generate_mesh_and_save: the global optimization and the mesh, where they are asked
\* for, then the save, one after the other under the lock and without a timeout.
\* What they come back with is not looked at, unless it is an error.
Generate(x) ==
    /\ th[x].pc = "generate" /\ Usable(th[x].c)
    /\ Goto(x, "generating") \/ Goto(x, "saving")
    /\ UNCHANGED <<lockVars, sdk, flagVars, project, clientVars, runVars, sdkVars, meshVars, histVars, countVars>>

Generated(x) ==
    /\ th[x].pc = "generating" /\ Returns(th[x].c)
    /\ Goto(x, "save")
    /\ UNCHANGED <<lockVars, sdk, flagVars, project, clientVars, runVars, sdkVars, meshVars, histVars, countVars>>

Save(x) ==
    /\ th[x].pc = "save" /\ Usable(th[x].c)
    /\ Goto(x, "saving")
    /\ UNCHANGED <<lockVars, sdk, flagVars, project, clientVars, runVars, sdkVars, meshVars, histVars, countVars>>

Saved(x) ==
    /\ th[x].pc = "saving" /\ Returns(th[x].c)
    /\ IF link[th[x].c] = "up"
       THEN /\ saved' = [saved EXCEPT ![exportOf[x]] = opened[th[x].c]]
            /\ astray' = StrayIf(abandoned[th[x].c])
       ELSE /\ astray' = IF astray = "no" THEN "cut" ELSE astray
            /\ UNCHANGED saved
    /\ Goto(x, "unlockCmd")
    /\ UNCHANGED <<lockVars, sdk, flagVars, project, clientVars, runVars, sdkVars, past, mesh, meshFailed,
                   exportOf, exported, histVars, countVars>>

\* The lock is given back; a new run learns its project, a continued one runs on.
UnlockCmd(t) ==
    /\ th[t].pc = "unlockCmd"
    /\ cmdLock' = NoThread
    /\ CASE startLock = t -> Goto(t, "publish") /\ UNCHANGED runVars
         [] startLock # t /\ t # Worker -> Leaves(t) /\ UNCHANGED runVars
         [] t = Worker ->
              /\ th' = [th EXCEPT ![t] = [Idle EXCEPT !.pc = "ready", !.op = "scan"]]
              /\ runProject' = Opens(t) /\ projectName' = Opens(t)
              /\ run' = "running"
              /\ abort' = (abort /\ th[t].op # "resume")
    /\ UNCHANGED <<startLock, sdk, flagVars, project, clientVars, sdkVars, meshVars, histVars, countVars>>

\* Mutant: a command that fails leaves the lock taken.
CmdLockKept(t) == cmdLock

\* The with statement ends.
CmdLockAfter(t) == IF cmdLock = t THEN NoThread ELSE cmdLock

\* Mutant: what the mesh worker failed with is forgotten.
NoError(t) == meshFailed

\* worker_error["error"], which the run raises in its turn.
WorkerError(t) == meshFailed \/ t = mesh

\* A command that times out on a connection that is up may be answered later.
GivesUp(t) ==
    /\ link[th[t].c] = "up" /\ losses < MaxLosses
    /\ losses' = losses + 1
    /\ late' = [late EXCEPT ![th[t].c] = @ \cup {IF th[t].pc = "opening" THEN Opens(t) ELSE NoProject}]
    /\ abandoned' = [abandoned EXCEPT ![th[t].c] = TRUE]
    /\ UNCHANGED <<opened, setUp>>

\* _require_sdk raises, send_command raises, or the command fails (a createSln that
\* did may have opened its project) or times out.
Fails(t) ==
    /\ \/ th[t].pc \in {"connect", "init", "opening", "setting", "scanning"}
       \/ th[t].pc \in {"open", "setup", "scan", "generate", "save"} /\ ~Usable(th[t].c)
       \/ th[t].pc \in {"generating", "saving"} /\ link[th[t].c] = "up"
       \/ th[t].pc = "lockCmd" /\ startLock # t /\ cmdLock = NoThread /\ sdk = 0
    /\ cmdLock' = CmdLockAfter(t)
    /\ project' = IF th[t].pc = "open" THEN NoProject ELSE project
    /\ \/ UNCHANGED <<sdkVars, losses>>
       \/ /\ th[t].pc = "opening"
          /\ opened' = [opened EXCEPT ![th[t].c] = Opens(t)]
          /\ setUp' = [setUp EXCEPT ![th[t].c] = FALSE]
          /\ UNCHANGED <<late, abandoned, losses>>
       \/ th[t].pc \in {"opening", "setting"} /\ GivesUp(t)
    /\ setUpFailed' = (setUpFailed \/ (th[t].op = "resume" /\ th[t].pc \in {"setup", "setting"}))
    /\ meshFailed' = WorkerError(t)
    /\ IF startLock = t THEN Goto(t, "fail") ELSE Leaves(t)
    /\ IF t = Worker /\ run = "running"
       THEN run' = "over" /\ abort' = FALSE
       ELSE UNCHANGED <<run, abort>>
    /\ UNCHANGED <<startLock, sdk, flagVars, clientVars, projectName, runProject, past, mesh, exportOf, saved,
                   astray, exported, overlap, clients, projects, ops, scans>>

-----------------------------------------------------------------------------
(* The run. *)

CanResume == run = "idle" /\ projectName # NoProject

\* _validate_ready_to_start.
RunBegins(op) ==
    /\ th[Worker].pc = "idle" /\ run # "running"
    /\ sdk # 0 /\ ~connecting /\ ~restarting
    /\ IF op = "resume" THEN CanResume ELSE projects < MaxProjects
    /\ th' = [th EXCEPT ![Worker] = [Idle EXCEPT !.pc = "begin", !.op = op]]
    /\ overlap' = \E t \in Callers : th[t].pc # "idle"
    /\ UNCHANGED <<lockVars, sdk, flagVars, project, clientVars, runVars, sdkVars, meshVars, setUpFailed, countVars>>

\* The state becomes running and a new project is made; or the project of the
\* stopped run is asked for first.
RunStarts ==
    /\ th[Worker].pc = "begin"
    /\ scans' = 0
    /\ IF th[Worker].op = "new"
       THEN /\ run' = "running" /\ abort' = FALSE /\ projectName' = NoProject /\ past' = FALSE
            /\ projects' = projects + 1
            /\ Goto(Worker, "lockCmd")
            /\ UNCHANGED runProject
       ELSE /\ runProject' = projectName
            /\ IF projectName = NoProject THEN Leaves(Worker) ELSE Goto(Worker, "lockCmd")
            /\ UNCHANGED <<run, abort, projectName, projects, past>>
    /\ UNCHANGED <<lockVars, sdk, flagVars, project, clientVars, sdkVars, mesh, meshFailed, exportOf, saved, astray,
                   exported, histVars, clients, ops, losses>>

\* Before every scan the abort event is looked at; on_step reports the project.
NextScan ==
    /\ th[Worker].pc = "ready" /\ ~abort /\ ~past /\ scans < MaxScans
    /\ scans' = scans + 1
    /\ projectName' = runProject
    /\ Goto(Worker, "lockCmd")
    /\ UNCHANGED <<lockVars, sdk, flagVars, project, clientVars, run, runProject, abort, sdkVars, meshVars, histVars,
                   clients, projects, ops, losses>>

\* _start_mesh_worker, after the last scan or past it; then the run goes on to END,
\* unless the next look at the abort event keeps it at the last scan.
StartMeshWorker(x) ==
    /\ th[Worker].pc = "ready" /\ (scans > 0 \/ past)
    /\ th[x].pc = "idle"
    /\ th' = [th EXCEPT ![x] = [Idle EXCEPT !.op = "export", !.pc = "lockCmd"], ![Worker].pc = "end"]
    /\ mesh' = x /\ meshFailed' = FALSE
    /\ exportOf' = [exportOf EXCEPT ![x] = runProject]
    /\ past' \in {past, TRUE}
    /\ astray' = StrayIf(abort \/ overlap)
    /\ UNCHANGED <<lockVars, sdk, flagVars, project, clientVars, runVars, sdkVars, saved, exported, histVars,
                   countVars>>

\* _finalize_mesh_worker, when the robot is at END: the worker has ended.
Finalize ==
    /\ th[Worker].pc = "end" /\ ~Exports
    /\ exported' = IF meshFailed THEN exported ELSE exported \cup {runProject}
    /\ run' = "over" /\ abort' = FALSE /\ mesh' = NoThread
    /\ Leaves(Worker)
    /\ UNCHANGED <<lockVars, sdk, flagVars, project, clientVars, projectName, runProject, sdkVars, past, meshFailed,
                   exportOf, saved, astray, histVars, countVars>>

\* The run is stopped, or the robot fails; nobody tells the mesh worker.
LeaveMeshWorker ==
    /\ th[Worker].pc = "end"
    /\ run' = IF abort THEN "idle" ELSE "over"
    /\ astray' = StrayIf(Exports)
    /\ abort' = FALSE /\ mesh' = NoThread
    /\ Leaves(Worker)
    /\ UNCHANGED <<lockVars, sdk, flagVars, project, clientVars, projectName, runProject, sdkVars, past, meshFailed,
                   exportOf, saved, exported, histVars, countVars>>

RunEnds ==
    /\ th[Worker].pc = "ready"
    /\ run' = IF abort THEN "idle" ELSE "over"
    /\ abort' = FALSE
    /\ Leaves(Worker)
    /\ UNCHANGED <<lockVars, sdk, flagVars, project, clientVars, projectName, runProject, sdkVars, meshVars, histVars,
                   countVars>>

-----------------------------------------------------------------------------
(* The receiver of a client. *)

\* wrapped() of the client, which wakes the command that waits, then the service's
\* callback; neither when the callbacks are off.
NoticeLoss(c) ==
    /\ th[c].pc = "idle" /\ link[c] = "lost"
    /\ link' = IF callbacks[c] THEN [link EXCEPT ![c] = "told"] ELSE link
    /\ Goto(c, IF callbacks[c] THEN "handle" ELSE "over")
    /\ UNCHANGED <<lockVars, sdk, flagVars, project, callbacks, runVars, sdkVars, meshVars, histVars, countVars>>

DeviceOffline(c) ==
    /\ th[c].pc = "idle" /\ link[c] = "up" /\ callbacks[c] /\ losses < MaxLosses
    /\ losses' = losses + 1
    /\ Goto(c, "handle")
    /\ UNCHANGED <<lockVars, sdk, flagVars, project, clientVars, runVars, sdkVars, meshVars, histVars, clients, projects, ops,
                   scans>>

\* The receiver goes on reading, unless its connection is gone.
Listens(c) == Goto(c, IF Usable(c) THEN "idle" ELSE "over")

\* Mutant: a loss is ignored during a run too.
IgnoreLossInRun(c) ==
    /\ th[c].pc = "handle" /\ (connecting \/ handling \/ run = "running")
    /\ Listens(c)
    /\ UNCHANGED <<lockVars, sdk, flagVars, project, clientVars, runVars, sdkVars, meshVars, histVars, countVars>>

IgnoreLoss(c) ==
    /\ th[c].pc = "handle" /\ (connecting \/ handling)
    /\ Listens(c)
    /\ UNCHANGED <<lockVars, sdk, flagVars, project, clientVars, runVars, sdkVars, meshVars, histVars, countVars>>

\* _handle_scanner_disconnect; stop(release=False) follows.
HandleLoss(c) ==
    /\ th[c].pc = "handle" /\ ~connecting /\ ~handling
    /\ handling' = TRUE
    /\ Goto(c, "waitConn")
    /\ UNCHANGED <<lockVars, sdk, connecting, restarting, project, clientVars, runVars, sdkVars, meshVars, histVars, countVars>>

\* on_scanner_disconnected.
Report(c) ==
    /\ th[c].pc = "report"
    /\ projectName' = NoProject
    /\ Listens(c)
    /\ UNCHANGED <<lockVars, sdk, flagVars, project, clientVars, run, runProject, abort, sdkVars, meshVars, histVars,
                   countVars>>

\* External: the connection breaks.
LoseLink(c) ==
    /\ link[c] = "up" /\ losses < MaxLosses
    /\ link' = [link EXCEPT ![c] = "lost"]
    /\ losses' = losses + 1
    /\ UNCHANGED <<lockVars, sdk, flagVars, project, callbacks, th, runVars, sdkVars, meshVars, histVars, clients, projects,
                   ops, scans>>

-----------------------------------------------------------------------------
Init ==
    /\ startLock = NoThread /\ cmdLock = NoThread
    /\ sdk = 0 /\ connecting = FALSE /\ restarting = FALSE /\ handling = FALSE
    /\ project = NoProject
    /\ link = [c \in Clients |-> "none"] /\ callbacks = [c \in Clients |-> FALSE]
    /\ th = [t \in Threads |-> Idle]
    /\ run = "idle" /\ projectName = NoProject /\ runProject = NoProject /\ abort = FALSE
    /\ opened = [c \in Clients |-> NoProject] /\ setUp = [c \in Clients |-> FALSE]
    /\ late = [c \in Clients |-> {}] /\ abandoned = [c \in Clients |-> FALSE]
    /\ past = FALSE /\ mesh = NoThread /\ meshFailed = FALSE /\ exportOf = [x \in Exporters |-> NoProject]
    /\ saved = [n \in 1..MaxProjects |-> NoProject] /\ exported = {} /\ astray = "no"
    /\ overlap = FALSE /\ setUpFailed = FALSE
    /\ clients = 0 /\ projects = 0 /\ ops = 0 /\ scans = 0 /\ losses = 0

Starts(t) ==
    \/ LockStart(t) \/ AlreadyStarted(t) \/ BeginStart(t) \/ Connects(t) \/ Initializes(t)
    \/ Publish(t) \/ ClearConnecting(t) \/ FailStart(t) \/ UnlockStart(t)
Stops(t) == WaitConnecting(t) \/ Take(t) \/ Quiet(t) \/ Close(t)
Commands(t) ==
    \/ LockCmd(t) \/ Open(t) \/ Opened(t) \/ Mark(t) \/ SetUp(t) \/ IsSetUp(t)
    \/ Scan(t) \/ Scanned(t) \/ UnlockCmd(t) \/ Fails(t) \/ TakesLateAnswer(t)
Receives(c) == NoticeLoss(c) \/ IgnoreLoss(c) \/ HandleLoss(c) \/ Report(c)
Generates(x) == Generate(x) \/ Generated(x) \/ Save(x) \/ Saved(x)
Runs ==
    \/ RunStarts \/ NextScan \/ RunEnds \/ Finalize \/ LeaveMeshWorker
    \/ \E x \in Exporters : StartMeshWorker(x)

Next ==
    \/ \E t \in Callers : \/ \E op \in {"start", "restart", "force", "stop", "apply"} : Asks(t, op)
                          \/ EnsureConnected(t) \/ Starts(t)
    \/ \E t \in Callers \cup Clients : Stops(t)
    \/ \E t \in Callers \cup {Worker} \cup Exporters : Commands(t)
    \/ \E x \in Exporters : Generates(x)
    \/ \E op \in {"new", "resume"} : RunBegins(op)
    \/ Runs
    \/ \E c \in Clients : Receives(c) \/ DeviceOffline(c) \/ LoseLink(c) \/ LateAnswer(c)

Spec == Init /\ [][Next]_vars

\* Every thread runs on; nobody has to ask, to begin a run or to lose a link.
Fairness ==
    /\ \A t \in Callers : WF_vars(EnsureConnected(t) \/ Starts(t) \/ Stops(t) \/ Commands(t))
    /\ \A c \in Clients : WF_vars(Receives(c) \/ Stops(c))
    /\ \A x \in Exporters : WF_vars(Generates(x) \/ Commands(x))
    /\ WF_vars(Runs \/ Commands(Worker))
FairSpec == Spec /\ Fairness

-----------------------------------------------------------------------------
(* Properties. *)

LocksTypeOK ==
    /\ startLock \in Callers \cup {NoThread} /\ cmdLock \in Callers \cup Exporters \cup {Worker, NoThread}
    /\ sdk \in 0..MaxClients /\ project \in 0..Preview
    /\ connecting \in BOOLEAN /\ restarting \in BOOLEAN /\ handling \in BOOLEAN

ClientsTypeOK ==
    /\ link \in [Clients -> {"none", "up", "lost", "told", "closed", "cut"}]
    /\ callbacks \in [Clients -> BOOLEAN]
    /\ opened \in [Clients -> 0..Preview] /\ setUp \in [Clients -> BOOLEAN]
    /\ late \in [Clients -> SUBSET (0..Preview)] /\ abandoned \in [Clients -> BOOLEAN]

Places == {"idle", "ensure", "lockStart", "begin", "connect", "lockCmd", "init", "open", "opening", "mark",
           "setup", "setting", "unlockCmd", "publish", "connected", "fail", "failed", "unlock", "unlockRetry",
           "waitConn", "take", "quiet", "close", "handle", "report", "over", "ready", "scan", "scanning", "end",
           "generate", "generating", "save", "saving"}
Operations == {"none", "start", "restart", "force", "stop", "apply", "new", "resume", "scan", "export"}
ThreadsTypeOK == th \in [Threads -> [pc : Places, op : Operations, c : 0..MaxClients]]

RunTypeOK ==
    /\ run \in {"idle", "running", "over"} /\ abort \in BOOLEAN
    /\ projectName \in 0..MaxProjects /\ runProject \in 0..MaxProjects
    /\ overlap \in BOOLEAN /\ setUpFailed \in BOOLEAN

ExportTypeOK ==
    /\ mesh \in Exporters \cup {NoThread} /\ exportOf \in [Exporters -> 0..MaxProjects]
    /\ saved \in [1..MaxProjects -> 0..Preview] /\ exported \subseteq 1..MaxProjects
    /\ past \in BOOLEAN /\ meshFailed \in BOOLEAN /\ astray \in {"no", "cut", "left"}

CountsTypeOK ==
    /\ clients \in 0..MaxClients /\ projects \in 0..MaxProjects
    /\ ops \in 0..MaxOps /\ scans \in 0..MaxScans /\ losses \in 0..MaxLosses

TypeOK ==
    LocksTypeOK /\ ClientsTypeOK /\ ThreadsTypeOK /\ RunTypeOK /\ ExportTypeOK /\ CountsTypeOK

\* While the service believes itself connected, a loss that is being handled has
\* a receiver that will stop the service: the flag never outlives a reconnect,
\* which would make every later loss go unhandled.
HandlingEnds ==
    sdk # 0 /\ handling => \E c \in Clients : th[c].pc \in {"waitConn", "take"}

\* Every open connection is the service's, or in the hands of a thread that will
\* hand it over or close it.
NoLeakedConnection ==
    \A c \in Clients :
        link[c] \notin {"none", "closed", "cut"}
          => \/ sdk = c
             \/ \E t \in Callers \cup Clients :
                   th[t].c = c /\ (startLock = t \/ th[t].pc \in {"quiet", "close"})

\* The connection is up and no command was given up on it.
Trusted(c) == link[c] = "up" /\ ~abandoned[c]

\* The project the service believes open is the one the SDK has open, on a
\* connection that is up, unless a command was given up on it: the late finish of
\* a createSln is then taken for the next one's.
ProjectIsOpen ==
    sdk # 0 /\ project # NoProject /\ Trusted(sdk) => opened[sdk] = project

\* A scan goes into the project of its run, unless a start or a save overlapped
\* the beginning of the run, a command was given up on the connection before, or
\* the run is being stopped.
ScanInRunProject ==
    th[Worker].pc = "scanning" /\ Trusted(th[Worker].c) /\ ~overlap /\ ~abort
      => opened[th[Worker].c] = runProject

\* That project has its parameters, unless an earlier continue failed while it
\* set them (the next one finds the project open and leaves the set-up out) or a
\* command was given up before (its late finish ends the set-up early).
ScanIsSetUp ==
    th[Worker].pc = "scanning" /\ Trusted(th[Worker].c) /\ ~overlap /\ ~abort
      => setUp[th[Worker].c] \/ setUpFailed

\* A loss of the connection in use is handled, if it comes after the start that
\* made it has finished.
LossIsHandled ==
    \A c \in Clients :
        (sdk = c /\ ~connecting /\ link[c] = "lost" /\ th[c].pc = "idle") ~> sdk # c

\* What is saved under the name of a project is its data, unless its mesh worker
\* outlived the run (it then saves whatever project is open when it gets the lock),
\* a start or a save overlapped the beginning of the run, or a command was given up
\* on the connection before.
SavedUnderItsName == astray = "left" \/ \A n \in 1..MaxProjects : saved[n] \in {NoProject, n}

\* A run that ends well has its project saved, unless the connection was cut in the
\* middle: a command that is woken without an answer counts as done.
ExportedIsSaved == astray = "no" => \A n \in exported : saved[n] = n

\* Every request for the scanner comes to an end, and so does the start that is scheduled
\* after a loss ("scheduling reconnect").  A mesh worker breaks this: it holds the command
\* lock and waits without a timeout, and a client that is closed, or whose callbacks are
\* off when the loss is noticed, never wakes it.
RequestsEnd == \A t \in Callers : th[t].pc # "idle" ~> th[t].pc = "idle"
=============================================================================
