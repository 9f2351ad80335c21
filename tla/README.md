# Verification of the robotic scanning cell backend

TLA+ specifications of the backend that drives a scanning cell: a KUKA robot
and a turntable (XML over two TCP links, "EKI"), and a Shining3D scanner (JSON
over TCP through its SDK process). Paths below are relative to `src/`.

## 1. Inventory

### Components, their state and how they meet

| Component | State | Operations | Hard because |
|---|---|---|---|
| Pipeline service, `app/pipeline/service.py` | `_state`, `_run_lock`, `_abort_event`, resume point (`_project_name`, `_current_step_index`, `_scan_count`), `_robot`, `_initializing` | start, continue, calibration, stop, reload, reconnect, jog, apply settings, initialisation pass | API requests run in a pool of threads, beside the initialisation worker, the cycle worker and the scanner's receiver |
| Cycles, `app/pipeline/cycle.py`, `calibration_cycle.py` | position index, scan index, mesh worker | move to a point, scan until aligned, export the mesh | one thread, aborted from outside; the export is a thread of its own |
| Robot client, `app/eki/path_client.py` | two sockets, current target, pending/ready/sent flags, robot status, stop and cancel events | connect, trigger, jog, wait, cancel, stop | four threads and the callers share it; links come and go |
| Units and packets, `app/eki/turntable_units.py`, `xml_*.py`, `path_parser.py` | none | conversions | rounding and clamping decide which angles are equal on the wire |
| SDK client, `q12_client.py` | command in progress, last begin and finish messages | send a command, wait for its finish, connect, reset | late answers, no correlation id, disconnects during a wait |
| Scanner service, `app/scanner/service.py` | SDK client, connecting, restarting, offline flags, open project | start, stop, restart, project, scan, calibration, mesh | several locks, callbacks out of the receiver thread |
| Project names, `app/scanner/project_name.py` | counter in the settings | advance, suggest | read-modify-write without a lock |
| Trajectory, `app/trajectory/service.py`, `path_store.py` | snapshot of the active path | load, reload, save | its snapshot, the robot's points and the settings are three copies |
| Routing, `app/trajectory/routing.py` and the node modules | none | travel between positions | pure graph algorithm |
| KUKA import and watcher, `app/trajectory/kuka_*.py` | pending files | import a file that is stable | files that are still written |
| Axis telemetry, `app/axis/` | snapshot, queue of 8 | publish, forward | the oldest sample is dropped by a thread that races the reader |
| Scan folder watcher, `auto_import.py` | active job | pick, await, finalise | files made by another program |
| Settings, history, logs, `app/core/` | settings, history file | load, save | input and output mostly |
| HTTP API, `app/api/` | none | requests | checks `_state` before it acts |

The legacy scripts in the root and `generated_kuka/` are not used by the service.

A request reaches `PipelineService`, which takes `_run_lock` in the request's
thread and starts a cycle worker that releases it. The worker calls `run_cycle`,
which asks the robot client for one motion at a time and the scanner service for
one scan at a time. The scanner's receiver thread calls back into the pipeline
when the scanner goes away. Stops arrive through two events: `_abort_event`, and
the robot client's `_motion_cancel_event`.

### What makes each part correct

* Pipeline: one run at a time; `_state` can be trusted by a stop; a stop is not
  lost and ends its run; a continued run leaves nothing out; a run drives the
  trajectory it was started for; the run lock always has an owner.
* Robot client: the robot executes a pose only with the turntable at (or on its
  way to) that pose's angle; "motion done" means done; waits end when cancelled; a lost
  link never leaves half a dispatch to be executed.
* SDK and scanner: a command is answered by its own finish message or reports nothing but
  that its connection went; every wait ends; the project a scan goes into is the run's, and is set up;
  no connection is left open that nobody has; a loss is handled.
* Paths: a stored document reads as it was written, every node of it is run once, over moves
  that were marked safe, with the table turning with the robot; a travel is the shortest.
* Files and settings: no file is torn or lost; what is loaded is what is active; project
  numbers are not reused.
* Cycle: bounded resends; a project is exported under its own name, and a run that ends well has exported it.
* Axis queue and watchers: newest sample is kept; a file is handled once, when complete.

`PROJECT.json` lists the hazards one by one, at their lines.

## 2. What is modelled

### PathClient.tla: the robot client

| In the model | In `path_client.py` |
|---|---|
| `conn`, `turnConn` | `sock`/`connected`, `turn_sock`/`turn_connected`, and the link behind each; "broken" is lost but not yet noticed |
| `pendingExecute`, `turnReady`, `executeSent`, `awaitingIdle`, `currentTarget`, `robotStatus` | the fields of these names |
| `stopEvent`, `motionCancel` | `stop_event`, `_motion_cancel_event` |
| `tx`, `rx`, `turnTx`, `turnRx` | where each of the four loops is, and its local variables; `sock` says what became of the socket it holds |
| `starter` | a thread in `connect_path_service` or `connect_turntable_service`: `connect` dials without a lock, so it may race the sender's own dial |
| `worker` | the thread in `_trigger_and_wait_motion` or `jog_to_target` |
| `toRobot`, `fromRobot`, `robot` | packets in flight and the controller (external) |
| `turnSent`, `unsettled` | history, for the properties only: what was sent to the turntable; whether the cycle began before the last one had settled |

One action is what a thread does between two points where another can
intervene: a block under `lock`, a blocking call, a look at an event. Targets
are model values; `WireTurn` is `turntable_wire_display_value`. The module and its proofs
let two poses have one angle; in the instances each has its own, the harder case. A partial packet is the flag
`rxPartial`. Heartbeats without Execute=1 change nothing and stay out of the channel.
Left out: `start` after `stop` on the same object (the service makes a new
client), `load_*`, `run_loaded_points` (not called by the service), the content of XML.

`LateExecute` chooses the controller. FALSE: a motion lasts longer than a
packet takes to go there and its status to come back; this is what `wait_motion_done` (MOVING, then IDLE,
polled each 20 ms) relies on. TRUE: no such assumption. The permission to execute
(`TurnAllowsExecute`, `ExecuteAfterTurn`) does not depend on it: the proofs hold for both.

`clear_motion_cancel` looks at nothing, and so does `ClearMotionCancel`: a dispatch that was made after the cancel withdrew
the one before, an Execute=1 on its way or an old status may meet the motions of the next cycle. `MotionDone` and `MovesWithTable`
fail then, so they speak of cycles that began with nothing of the kind (`~unsettled`, `Settled`); the other four
properties hold of all.

### PipelineRun.tla: the run lifecycle

| In the model | In the code |
|---|---|
| `state`, `abort`, `workerThread`, `initializing`, `project`, `step`, `resumeStart`, `startup`, `defer`, `runLock` | `PipelineService._state`, `_abort_event`, `_worker_thread`, `_initializing`, `_project_name`, `_current_step_index` (with `_scan_count`), `_resume_start_list_index`, `_cycle_requires_startup_travel`, `_defer_project_creation`, `_run_lock` |
| `active`, `loaded`, `points` | the settings' active file, the trajectory service's snapshot, the robot client's copy of the points |
| `motionCancel` | the robot client's `_motion_cancel_event` |
| `scannerUp`, `created`, `scanned`, `skipped` | the scanner: connected, projects made, positions scanned into each, positions left out because their scan failed under `skip_failed_scans` |
| `leftExport` | what the mesh workers of runs that are over do: none, one waits for `_sdk_command_lock`, one holds it |
| `call[c]`, `work[w]`, `init` | where each request thread, cycle worker and the initialisation worker is, and its locals (a snapshot it has read, for example) |

The eight operations are `start_cycle`, `continue_cycle`, `start_calibration_cycle`,
`stop_cycle`, `reload_scanner`/`reconnect_scanner`, the path requests of
`app/api/paths.py`, the "paths" section of the settings, and `move_to_path_position`. Each is one
sequence of steps (`StartAcquires` ... `StartSpawns`; `StopMarks` ... `StopJoins`;
and so on), with its failures. `run_cycle` is kept as what touches the
service: look at the abort, report the step, move, scan, next; END or, for
`single_last_scan`, home. Projects are numbered; positions are `1..LastScan` and `End`.
`stop_cycle`'s join of 5 s is: it returns when the worker is dead or in a step that can
outlast it (`Slow`).

A run's commands wait for `_sdk_command_lock` without a timeout and without a look at the abort event (`CommandLockFree`). A run that
raises while its mesh worker is at work leaves that behind (`LeavesExport`); what it exports then is `ScannerService`'s.
A calibration start reads `calibration.json` several times and may load, the last time, one without a scan point (`Scanless`): it raises when the snapshot and
the robot's points are replaced already, and restores nothing (`CalibrationHasNoScan`).

Abstracted: the scan, the mesh export and the routes are single steps that
succeed or raise, a scan also one that is skipped; a resend of a position repeats a move. One robot client at a time. Not modelled:
the reconnection of the robot that saving settings causes, shutdown, the folder watcher, timers and history.

`RunLifecycle.tla` is the abstract specification of all this: a run is asked for, goes, has its outcome
written and is cleaned up, in this order; a stop can be asked for exactly while it goes; its
signal may come late but is taken back only before a run goes or after. `PipelineRun`
implements it by `Phase` (none: the run lock is free; starting: a caller holds it and `_state` is not running;
going: the worker has not yet written the outcome; closing: it has), with `asked` for `_state = stopping` and
`signal` for `_abort_event` (`ImplementsLifecycle`).

### SdkClient.tla: one life of the SDK client

From the connection `_start_unlocked` makes to the disconnect of a failed start or of a stop.

| In the model | In the code |
|---|---|
| `sock`, `stopRx`, `receiver` | `TcpJsonTransport._socket`, `_stop_event`, where `_receive_loop` is |
| `connected`, `initialized`, `slot`, `event`, `finish` | `Sn3dSdkClient._is_connected`, `_sdk_initialized`, `_command_in_progress`, `_command_finished_event`, `_last_finish_message` |
| `callbacks`, `stage`, `inits`, `holder` | what the service does with this client: its callbacks, release - init - parameters - serving - over, attempts of init, the owner of `_sdk_command_lock` |
| `th[t]` | where a thread is in `send_command`, `disconnect` or `connect`; `Stopper` is a stop, which does not take the command lock, from another thread or from the receiver itself |
| `toSdk`, `sdk`, `fromSdk` | commands sent, the one executed, whole messages to read (external) |
| `abandoned`, `sendFailed` | history, for the properties |

The answer to a command is found by its name, so the model numbers commands only for the properties. The SDK executes in order, and
answers well, badly or never; the network may drop the link with or without the last messages. A receiver that calls back into a
stop joins itself, which raises, so the flags are not reset; the model has that.

### ScannerService.tla: the service, the pipeline's calls and the receivers

Its three locks, the flags `_connecting`, `_restarting`, `_handling_offline`, the client in use, the project believed open, each client's
link and callbacks, and what the SDK really has open (`opened`, `setUp`). Operations: start, restart, force_reconnect,
ensure_connected with a section to apply, stop, create_project and ensure_project for a run that begins or goes on,
scans, the mesh export, the callbacks for a lost connection and an offline report. A client is a number; a command has the outcomes
`SdkClient` shows it can have: an answer, an error, or, when its connection is cut while it waits, a success without an answer (except for a
scan, which needs one); a client that the service closes wakes nobody. A command that times out may be answered later (`late`): the SDK then
comes to its end, and its finish message is dropped or, if a command of that name waits, taken for the answer of that one (`TakesLateAnswer`). Commands are
told apart as createSln, with the project it opens, and the rest of the set-up.

After its last scan a run starts its mesh worker (`mesh`, a thread of `Exporters`), which takes the command lock, asks for the mesh and the save
without a timeout, and keeps its error (`meshFailed`) for the run to raise. A run that is stopped or fails leaves it behind.
`saved` is whose data the file of a project's name holds; `exported` the projects whose run ended well; `astray` (history) says
whether a worker outlived its run or its save was cut, `abandoned` (history) whether a command was given up on a client's connection. Without `Exporters` a run ends after its scans, as `single_last_scan` does.
Left out: `_initializing`, which keeps the initialisation worker and a run's start apart a little further; the calibration
commands (commands like a scan).

### Turntable.tla and PathDocument.tla: angles, documents, routes

Pure operators, one per function, and the way of a document: sent by a client, normalised, checked and stored (`Save`), answered and
saved again, travelled (`StartupTravel`, `HomeTravel`, `MoveTo`). An angle is a number of encoder counts, a joint position the id of its
catalogue point, the matrix of safe routes its set of true cells. Reference definitions: reachability in k moves (`Within`) for the
breadth-first search, the order of the client's nodes for the linked list. Nobody checks that the ids of nodes differ, so they may repeat: the dictionaries
of the code keep the last of two, and the walk of `ordered_nodes` drops a node whose id it has been at. `prev_node_id` is kept because
it counts as a link (`HasLinks`). A matrix of another size than its list of ids ("unmatched") is treated as if there were none, but that
the routes between neighbours are then not added. A travel is planned on a document that is normalised again (`Planned`).
Missing or malformed fields, which the code refuses, and nodes without an id are not sent;
`path_optimize.py` and `normalize_point_ids` are called by no part of the service.

### PathStore.tla: files, settings, the loaded trajectory

`files`, `tmp`, `opened` are the folder; `settings` the active file and the project counter; `snapshot` the trajectory service's; `points` the robot
client's. Requests (save, create, copy, select, delete, rename, PUT settings, load of a stored project), the KUKA import by its watcher or by a
request, a run and a calibration, each in steps: look at `_state`, write the
temporary file, replace, write the settings back, read, publish, refresh. A copy writes its target in place, without the temporary file
(`CopyOpens`, `CopyWrites`), and leaves a part of it when it breaks off. The settings a PUT or a stored project writes back are the client's or the file's, of any
age: any active file, and the present counter or an older one (`CounterOf`), which is also what `suggest_project_name_counter` may find free.
A calibration is the thread `Worker`: it loads `calibration.json` into the snapshot, gives the client its points, works and restores the active
file, or fails on the way and restores nothing. The load of a stored project leaves out the migration of an old `path.json` and the
robot's reconnection. A document is a number. Files behave as on Windows, for which the program is
installed (`core/fixed_paths.py`): what is open cannot be replaced. History variables tell which overlaps there were; the properties name
the overlaps they except, which are the ones that really break them.

## 3. Runs

Every run has `CHECK_DEADLOCK FALSE`: motions, requests, cancels, losses and saves are bounded
and nobody must ask for one, and a stopped client has no thread left. That threads do not wait for each
other for ever is checked as `RequestsEnd`, `StopEndsRun`, `AbortEndsMotion` and `LossEndsWait`.

| Run | Checks | Instance |
|---|---|---|
| path_prompt | `MotionDone`, `TurnAllowsExecute`, `MovesWithTable`, `ExecuteAfterTurn` | 2 poses, 2 motions, 1 cancel, a stop, 1 lost link or refused dial, 2 packets each way |
| path_live | `AbortEndsMotion`, `DispatchResolves` | 1 pose, 1 motion, 1 cancel, a stop, 1 loss, 2 packets each way, with fairness |
| run_all | `OneRun`, `StateTellsRun`, `ResumeSkipsNothing`, `FinishedMeansScanned`, `StopIsKept`, `ImplementsLifecycle` | all operations, 2 callers, 2 workers, 3 calls, 2 scan positions, 2 projects, 1 scanner loss and those of reloads that fail; `single_last_scan`, scans may be skipped |
| run_calibration | `RunLockHasOwner`, `RunDrivesItsPath`, `StopEndsRun` | new (repeating), calibration, stop; 3 calls, 2 projects; with fairness, no symmetry |
| sdk_life | `SilentOnlyWhenCut`, `AnswerIsOwnOrLate`, `SlotHasUser`, `LossEndsWait` | 2 users, a stopper, a command with and one without a timeout, 4 commands, 2 attempts of init, 1 loss, 1 offline report; with fairness |
| scanner_session | `HandlingEnds`, `NoLeakedConnection`, `ProjectIsOpen`, `ScanInRunProject`, `ScanIsSetUp`, `SavedUnderItsName`, `ExportedIsSaved` | 2 callers, the run's thread, 1 mesh worker at a time, 2 clients with their receivers, 1 project, 1 operation and the starts of the initialisation worker, 1 scan before every stop, 1 loss or command given up |
| scanner_loss | `LossIsHandled`, `RequestsEnd` | 1 caller, no mesh worker, otherwise the same; with fairness, no symmetry |
| document_all | `ReadsAsWritten`, `MovesAreSafe`, `EveryNodeInItsPlace`, `RevolutionIsCutEvenly`, `TableTurnsOnTheWay`, `TravelIsShortest`, `RunBeginsWhereTravelEnds` | 10 lists of up to 5 nodes, three of them with ids that come twice, and 6 ways to link them, every upper or lower matrix of 4 points, none, an empty and an unmatched one; a revolution of 12 counts; up to 2 points under the robot |
| store_shared | `TornByTwoWriters`, `LoadedIsActive`, `DrivesWhatItTravelledTo`, `ProjectNumberIsNew`, `NothingOverwritten` | 2 requests, the watcher and the calibration's thread, 3 names of which 2 exist, one of them `calibration.json`, 2 operations, 2 runs or calibrations, an old counter of 1 |

Why the bounds are enough: a race of the robot client needs a motion that ends or is
cancelled and the next one, hence two motions and one cancel, to poses of different
angles; a race of the dispatch with a reconnection needs one loss, and a refused dial of a
sender needs one loss before it. In the pipeline two callers and a worker are the most that
one hazard needs; three calls are new, stop and continue; two scan positions tell
"skipped" from "not reached"; two projects tell a stale project from the present one. In the SDK client
a late answer needs a command that times out and one after it; four commands are those of a start (release, init), and two.
In the scanner service a start beside a client that is being left needs two clients; a project of the run and the preview
project tell whose is open. A way over other points has up to two of them in four points; nodes of every type, order and
mode occur; 12 counts divide evenly into some of the counts of scans and not into others. A lost update or a torn file needs two writers,
a run that drives something else a run beside one; a number used again needs one older counter. A late answer that is taken for another one needs one command given up. Callers, users, request threads
and workers are interchangeable, and so are poses together with their angles: most
safety runs use these symmetries, the liveness runs do not.

The type invariants are proved and in no run. `run_calibration` leaves out the operations that break its
properties, `scanner_loss` the export, which breaks `RequestsEnd`; the next section has those. `run_all` needs the mode
`single_last_scan` for the way home, `run_calibration` has `repeat_on_success`; the mode `single` is a lap of the latter that is not repeated.

### Disagreements between the code and what it says

Three are runs that find the property violated.

| Run | What happens |
|---|---|
| run_leak | `SdkCommandError` from `ensure_project` in `_begin_cycle` leaves `_run_lock` held: every start is refused from then on. |
| run_jog | A jog that passed its check moves the robot together with a run started after the check. |
| scanner_export | The scanner goes offline (or is restarted) during a mesh export: `_stop_unlocked` takes the callbacks off and closes the client, which wakes nobody; the export waits with `math.inf` and keeps `_sdk_command_lock`; the start that is scheduled waits for it with `_start_lock`, and so does every later one. |

The others are behaviours of the models without a run of their own:

* A cancel between the abort check and `trigger_point_by_list_index` is undone: `pending_execute` is set again and stays set
  after the waiter gave up (`WorkerTriggers`). The next cycle clears the cancel without a look at it (`ClearMotionCancel`), and the old dispatch is
  executed under it: without `~unsettled`, `MotionDone` and `MovesWithTable` fail.
* `_mark_turntable_ready_if_pending` may come after the link was closed and gives back the permission `_safe_close_turn` took: Execute=1 may then
  precede the angle on the new link (`TurnTxMarks`).
* A repeat lap stopped before its first step pairs the new project with the old step index: continue goes on at the end
  of a project with no scans. With "repeat_on_success" and continue together `ResumeSkipsNothing` fails.
* A path request is checked like a jog, so that it may replace the trajectory of a run started after the
  check (`SelectChecks`, `SelectReloads`; `crossed` of PathStore). The "paths" section of the settings reloads
  the trajectory without `on_path_updated` (`SettingsReload`), so that the next run drives the
  points of the path before; with "settings" among the `Ops`, `RunDrivesItsPath` fails.
* A scan that is skipped under `skip_failed_scans` counts like one that was made: a run reports success with a project that lacks it
  (`FinishedMeansScanned` and `ResumeSkipsNothing` speak of positions scanned or so skipped, `Treated`).
* A calibration start that finds no scan point leaves `calibration.json` loaded and in the robot's points and releases the run lock. No run can drive it: the
  next start refuses a trajectory without a scan point (`RunDrivesItsPath`), but what is loaded is no longer what is active
  (`behind` of PathStore) until something reloads it.
* A run that is stopped while it waits for `_sdk_command_lock` ends only when the export that holds it does; after `scanner_export` that is never. `StopEndsRun`
  excepts it.
* A createSln that timed out may open its project later, and its finish message be taken for that of the next createSln: the service then believes a
  project open that is not. `ProjectIsOpen`, `ScanInRunProject` and `ScanIsSetUp` speak of connections on which no command was given up (`Trusted`).
* A command cut while it waits without an answer reads as done (`SilentOnlyWhenCut` says when). One with no timeout that is sent
  after the loss was told waits for ever.
* A connection lost while the service is connecting is ignored, and believed when the start ends: `LossIsHandled` starts after it. `_connecting`
  itself cannot be stuck, so that the forced clearing of it is never needed.
* A save of settings or a start that overlaps the beginning of a run may put its scans into the preview project (`overlap`). A run that was
  told to stop, but waits for the command lock, may scan on a fresh session. A continue that fails while it sets its
  project up leaves it marked ready, and the next one leaves the set-up out (`setUpFailed`).
* The mesh worker of a run that was stopped goes on: when it gets the command lock, it exports the project that is open then, perhaps the preview
  project, under its own project's name. A save whose connection is cut comes back as if it had ended, and the run reports success
  (`astray`).
* A range scan of one angle plans the transition after it from the end of its range, where the table never was
  (`TableTurnsOnTheWay` leaves it out).
* Two writers of one file may tear it, and so may a copy that breaks off or is read half-way (`shared`, `broken`); a select that overlaps another request
  writes an older active file or project counter back (`crossed`), a PUT of settings or the load of a stored project does so without any
  overlap (`rewound`); an import over the active file reloads nothing, and most sections of the settings do not either (`behind`).
* Of two nodes with one id `ordered_nodes` may drop one; what is stored then need not read as it was written, and its node is not run.
  `MovesAreSafe` holds all the same where there is a matrix.

### Fairness

PathClient: weak fairness of the steps of each thread (they are plain threads that loop with
short sleeps), of the controller reading and ending its motions, and of a dial that is retried;
refusals are bounded by `MaxLosses`. No fairness for cancels, stops, losses or
new motions. `RobotReports` is not fair: nothing may rely on a repeated status.

PipelineRun: weak fairness of a request once it has begun and of the worker's own
steps; SDK commands end with their timeout at the latest (`CommandFails`) once they have the command lock. Nothing
is assumed of motions, scans, the mesh export and the exports of earlier runs (`LeftExports`): a stop ends a run only through
the places where the code looks at `_abort_event`, and that is what `StopEndsRun` checks. A wait for the command lock is not such a place.

SdkClient: weak fairness of `send_command` (a timeout comes in the end), of disconnect and connect, and of the receiver. None for the SDK, which owes no
answer, or for users who might send more.

ScannerService: weak fairness of the steps of every thread once it has an operation, of the receivers, of the run and of mesh workers. A command ends
with an answer, an error or its timeout; an export, which has none, is assumed to be answered while its connection is up, so that
`scanner_export` does not blame the SDK. A late answer is not fair. None for new requests, runs and losses.

## 4. Proofs

`PathClientProofs.tla`, `PipelineRunProofs.tla`, `RunWorkProofs.tla`, `PathStoreProofs.tla`, `SdkClientProofs.tla`,
`ScannerServiceProofs.tla`, `PathDocumentProofs.tla` and `TrajectoryProofs.tla`, checked by TLAPS for all constants that satisfy the named assumptions: any number of poses, angles, callers, workers, paths, names,
requests, clients and any bounds.

Robot client (`PathClientProofs`)

* `TypeCorrect`: `TypeOK` is inductive, taken apart into the fields, the threads'
  locals, the channels and the counters.
* `TurnAllowsExecuteCorrect`: needs `TurnInv`. `TurnAllowsExecute` alone is not
  inductive: the sender marks what it holds in `wire`, so one must know that
  `wire` is what was sent while it is about to mark, and that while the permission stands
  it is not about to send the angle of another target.
* `ExecuteAfterTurnCorrect`: only `TxBuilds` hands an Execute=1 to the sender
  (`OnlyTxBuilds`), and its guard with `TurnInv` gives the angle.
* `MotionDoneCorrect`, `MovesWithTableCorrect`: from `CycleInv`, which is `MotionInv` as long as the present cycle did not begin `unsettled`, for a controller whose motions outlast a round trip (`LateExecute` is
  FALSE, as in `path_prompt`; the client cannot tell an Execute=1 that arrives after the motion it asked for, and `MotionDone` fails then).
  `wait_motion_done` polls `robot_status` only, so the invariant is about what the statuses still on their way can say. A wait is in one
  of three stages: the client has heard of nothing since it asked (`NotStarted`), the robot is on its way (`OnTheMove`), or it is there and
  nothing can send it off again (`Arrived`); `Settles` says that after the status of its stage the client hears no other. `RestInv` is the same
  between two motions: nothing is under way that the next wait would take for an answer. After a cancel it need not hold; a cycle that begins `Settled` has it
  again. `PacketInv` keeps every Execute=1 on the way with
  the present target and the turntable sent there, which is `MovesWithTable`; `PendingInv`, `TargetInv` and `LinkInv` are what these rest on.

Pipeline service (`PipelineRunProofs`)

* `RunTypeCorrect`, `OneRunCorrect`, `StateTellsRunCorrect`: from `IInv`, which is
  `TypeOK`, `LocalsOK`, `RunInv` and `StateTellsRun` together. `RunInv` is `OneRun` spelled out
  (each starter and each live worker holds the lock and there are no two); without
  it the "exactly while" of `StateTellsRun` is not kept, as the end of one run
  would erase the state of another. `LocalsOK` keeps the step index in its range
  when a continued run takes it over and when a scan advances it.
* `StopIsKeptCorrect`: only `StartClearsAbort` and `WorkerClearsAbort` clear
  `_abort_event`, and `IInv` excludes both while `_state` is "stopping".
* `LifecycleImplemented`: `Spec => Lifecycle!Spec` under the refinement mapping `Phase`, `state = "stopping"`, `abort`. One lemma per group of
  actions maps its steps to a step of `RunLifecycle` or a stutter. That a step of one thread moves the phase by one needs `IInv`: another
  starter or worker would be in the mapping's way.

What pipeline runs work on (`RunWorkProofs`)

* All of it from `OpInv` (a request or a run is of the kind its place tells), `PathInv` and `WorkInv`, on top of `IInv`.
* `ResumeSkipsNothingCorrect` (`RunMode` is not "repeat_on_success"): `WorkInv`. `ResumeInv` alone is not inductive: a request between its
  read of the resume point and its run (`StartInv`) and a lap (`LapInv`) carry project and position apart, and each place says which of
  its copies belong together. What is treated of a project only grows, by a scan or a skip. With repeated laps it fails: `_prepare_next_repeat_lap` makes the next project while the step is still the last lap's.
* `FinishedFillsProject`: a run that reports success has scanned, or skipped under `skip_failed_scans`, every position, from a path file's trajectory, into the project it
  names, whatever is selected meanwhile, if no repeated lap was continued. `FinishedMeansScannedCorrect` is the property of `run_all`, whose instance
  has one path file to select; with two, a path that changes between a stop and a continue leaves a project with scans of both.
* `RunLockHasOwnerCorrect`: `LockOwned`, if no request continues a run; a continue that the SDK refuses leaks the lock (`run_leak`).
* `RunDrivesItsPathCorrect`: `OneTrajectory`, if nobody selects another path or saves settings; a select or a save may change the path under a run (section 3).
* `CalibrationIsGone`: `CalibrationInv`, with all operations. A calibration trajectory that can be driven is loaded or in the robot client only while a
  calibration holds the lock; one without a scan point may stay there, but a run that moves the robot has been through a start, a repeated lap or a resume
  that looks for the first scan point, so it drives a path file's.

Files and settings (`PathStoreProofs`)

* `TypeCorrect`: the type needs to know which document a thread holds in which of its stages (`StagesOK`).
* `StoredWhole`: `WritersApart`. As long as no two threads wrote to one name, what a writer holds open is its alone, so its
  temporary file is what it wrote, and whole when it replaces the file. A copy writes its target in place: that is torn while the copy is under way, and
  the copy that ends makes it whole if its source is, which nobody was copying to.
* `NumbersAreNew`, `NothingLost`: `Alone`. As long as nothing overlapped, at most one request, or a run that begins, is at work; what it
  looked at is still so when it acts: its copy of the settings is the settings, the name it found free is free. A counter that a form or a stored project brings is above every used
  number, or `rewound` is set.
* `ActiveIsLoaded`, `RunsDriveTheirPath`: `Loads`, on top of `Alone`. While a request that changes the active file is between its steps the snapshot may
  be stale; it says in which stage of which request, and that each such request still has the load that makes it good again. A calibration is one more thread with stages of this kind; its failing start sets `behind`.

SDK client (`SdkClientProofs`)

* `TypeCorrect`: `TypeInv`, which adds to the type that a thread in `send_command` has a command and that what is on its way has its number.
* `SlotHasUserCorrect`: `SlotInv`. The event is never set while a command is in the slot, so no waiter takes a stale event for its answer, and a slot that is taken has a user.
* `SilentOnlyWhenCutCorrect`, `AnswerIsOwnOrLateCorrect`: `ResultInv`. The command lock keeps the users apart (`Alone`); `UserOK` follows
  one command from its claim to its return, `WireInv` says that whatever is on its way is a command in flight or an abandoned one, once.
  A stop passes the lock by, so both are claimed until a stop begins.

Scanner service (`ScannerServiceProofs`)

* `TypeCorrect`: `TypeInv`. Besides the type it must say who may be where with the start lock, and which client an exporter holds.
* `HandlingEndsCorrect`: inductive with `TypeInv`. A publication clears the mark, and the receiver that sets it goes on to the stop that
  takes the client away.
* `NoLeakedConnectionCorrect`: `ConnInv`. The owner of the start lock is alone between making a client and publishing it, and `sdk` is empty
  meanwhile, so an open connection is the service's or of a thread that holds it. That a stop may go on while a start still connects is
  covered: the client it does not see is the starter's.
* `ProjectIsOpenCorrect`: `ProjInv`. The client in the hand of the owner of the command lock is the service's only one, or has been given up;
  what that thread makes of the project is what it will say of it; numbers of clients are not used twice. A late answer needs a command that
  was given up (`late` is empty while `abandoned` is not set), which the property excepts.

Runs of the scanner service (`ScannerServiceProofs`)

* `ScanInRunProjectCorrect`, `ScanIsSetUpCorrect`, `SavedUnderItsNameCorrect`, `ExportedIsSavedCorrect`: from `RunInv` on top of the above. While
  nobody disturbs a run (no start or save overlapped its beginning, nobody is stopping it: `Undisturbed`) no caller is in any operation
  (`CallersAway`), so what the service believes open stays the run's project (`OpenInv`). A project open under the name of a run that may
  be continued has its parameters, or a continue failed while it set them (`SetUpInv`); a start publishes its client with the preview
  project or none (`PreviewInv`). A mesh worker that has not outlived its run holds a connection with that run's project open
  (`MeshAtWork`), so what it saves is that project.

Documents and travels (`PathDocumentProofs`), trajectories (`TrajectoryProofs`)

* For every document: any number of points and nodes, any ids, links and matrix. What needs ids that differ has it as an antecedent of the
  property (`UniqueIds`): `EveryNodeInItsPlace`, `TableTurnsOnTheWay`, `RevolutionIsCutEvenly`, `RunBeginsWhereTravelEnds`, `ReadsAsWritten` of a document
  that keeps no link, and the moves of `MovesAreSafe` where there is no matrix. Their invariants hold of every document and name it only where it is used.
* `ReadsAsWrittenCorrect`: what normalising makes is left alone by each of its three parts. What was stripped has no transitions and keeps its
  links; the walk of `ordered_nodes` over nodes in the walk's own order goes where it went, and leaves out the same nodes; the
  resolved routes are symmetric, off the diagonal and among the document's points. With ids that repeat the walk
  drops nodes, but what is left is in the walk's order again, unless no link is left and the file is linked anew when it is read.
* `TravelIsShortestCorrect`: `SearchInv` of `find_id_route`. A path in the queue is a way of safe moves and as short as any to its end; lengths in the queue
  differ by at most one and do not fall; every point nearer than the head is behind, with all it leads to seen. `Ahead`, the paths queued and the points not
  seen, falls with every look, so that the code's loop ends and the number of looks the model allows is enough (`SearchFinishes`).
* `MovesAreSafeCorrect`: `LoadInv`, the trajectory is that of the document that is loaded, which can be expanded (`StoredIsDriven`, `DrivenIsStored`: with ids
  that differ that is the stored one). Each part of it, the stops of a node with
  the transition before it, is `Chained` by safe moves and begins where the one before ends; `FlattenChained` puts them together.
* `RunBeginsWhereTravelEndsCorrect`: `StartupInv`, a startup travel goes to the first scan node of what is stored and ends there; and the first
  item of a trajectory that belongs to a scan is the first stop of that node (`TrajectoryFinds`).
* `EveryNodeInItsPlaceCorrect`: links are followed by the walk of `ordered_nodes` and nothing else is (`LedIsWalked`, `OrderedPlaces`), so that of two
  linked nodes the second comes right after the first or was run earlier, and what no link leads to keeps its order at the end. A trajectory is the parts of
  its nodes one after the other (`LaidOut`): a node's own items are the last of its part, as many as it has scans, and what is before them belongs to no node.
* `TableTurnsOnTheWayCorrect`: rounding keeps the order of fractions with one denominator (`RoundGrows`) and does nothing to a whole number
  (`RoundWhole`), so the interpolated angles run monotonically from the one to the other (`InterpolateLies`); that the last scan leaves the table at `Exit`, but for a
  range of one scan, is `LastStop`.
* `RevolutionIsCutEvenlyCorrect`: `SideStep`. With `Rev = c * q + m` the ends of two parts that follow each other are `q` or `q + 1` apart after rounding, `q` if
  `m = 0`; which way a tie is rounded does not matter. The ends grow strictly as there are no more parts than counts, and the last is the first.
* `TypeCorrect`: whatever its document says, every angle of a trajectory or travel is in a revolution: what is rounded or added is clamped.

The walk, the search and the choice of entries are recursive functions over positions, so that facts about them go by induction over numbers.

Left to TLC: liveness under fairness (`AbortEndsMotion`, `DispatchResolves`, `StopEndsRun`, `LossEndsWait`, `LossIsHandled`, `RequestsEnd`). No
invariant of a passing run is only model-checked. Out of the prover's reach altogether: `ENABLED`, induction over data, and RECURSIVE operators.

## 5. Plan

Done: robot client, pipeline service with its abstract life of a run, SDK client, scanner service with the mesh worker, angles, documents
and routes, files and settings. What is left, in this order:

1. The identity of the robot client: two threads that create one, and its reconnection when settings are saved (a constant for the clients in
   `PipelineRun`, as `ScannerService` has it).
2. `Cycle`: resends by motion time and the alignment retry, refining what `PipelineRun` takes a scan to be.
3. `AxisForward`, `FolderWatchers`: the queue of 8 and the tests that a file is complete.

### Not modelled

* Scripts of the root other than `q12_client.py` and `auto_import.py`, and the generated robot programs: no part of the service uses them.
* Packets, logs, camera pictures and exposure values, history, request and response models: input, output and field conversions, which no property is about.
* Axis telemetry and the two watchers: no other part depends on them, but for the import, which is a writer of `PathStore`.
* Parts of modelled components: `PROJECT.json` names them with each component.
