------------------------------ MODULE PathStore ------------------------------
(***************************************************************************)
(* The files of path documents, the settings that name the active one, and *)
(* the trajectory loaded from it, under the requests that change them: a   *)
(* thread each (app/api/paths.py, settings.py, projects.py), the watcher   *)
(* that imports KUKA trajectories (kuka_folder_watcher.py, kuka_import.py) *)
(* and the run that reads them (pipeline/service.py, pipeline/cycle.py).   *)
(*                                                                         *)
(* A document is a number, a new one for each that is written.  The        *)
(* program is installed on Windows (core/fixed_paths.py): a file that is   *)
(* open cannot be replaced, renamed or deleted, but two threads may have   *)
(* it open for writing.                                                    *)
(***************************************************************************)
EXTENDS Integers, FiniteSets

CONSTANTS
    Requests,   \* request threads
    Watcher,    \* the thread of KukaFolderWatcher
    Worker,     \* the thread of a calibration, which starts, works and restores
    Names,      \* file names 1..n, in the order of their listing
    Existing,   \* the files there are in the beginning
    AutoParsed, \* auto_parsed_trajectory_filename: what an import is stored as
    NewPath,    \* "new_path.json"
    Calibration,    \* "calibration.json", a file among the others
    Counters,   \* bound: the older project counters a form or a stored project may hold
    MaxOps,     \* bound: requests and imports
    MaxRuns     \* bound: runs and calibrations

ASSUME NamesAssumption == IsFiniteSet(Names) /\ Names = 1..Cardinality(Names)
ASSUME FilesAssumption == Existing \subseteq Names /\ {AutoParsed, NewPath, Calibration} \subseteq Names
ASSUME CountersAssumption == Counters \subseteq Nat
ASSUME BoundAssumption == MaxOps \in Nat /\ MaxRuns \in Nat

Missing == 0
Torn == -1      \* part of a document, or the bytes of two: no JSON
Threads == Requests \cup {Watcher, Worker}
Documents == 1..(Cardinality(Names) + MaxOps)

VARIABLES
    files,      \* the document of each name
    tmp,        \* the temporary file next to it, a document, Torn or Missing
    opened,     \* the threads that have it open
    settings,   \* the runtime settings: the active file, the project counter
    snapshot,   \* the loaded trajectory: the document, Missing for a load error
    points,     \* the document the robot's client has its points from
    thread,     \* what each thread does
    run,        \* what the run does
    ops, runs,  \* counts for the bounds
    used,       \* history: counters of the projects created
    crossed,    \* history: two threads that change files or settings overlapped,
                \* or one did with the start of a run
    shared,     \* history: two threads wrote to one name at once, or one copied what
                \* another was copying to
    broken,     \* history: a copy was broken off
    behind,     \* history: the active file was imported over or changed by a settings
                \* request, which tell the robot's client nothing, or the last file was
                \* deleted and the new one not written, or a calibration failed to start
    rewound     \* history: a form or a stored project wrote back a counter that some
                \* project's number is not below

fileVars == <<files, tmp, opened>>
loadVars == <<snapshot, points>>
histVars == <<used, crossed, shared, broken, behind, rewound>>
vars == <<fileVars, settings, loadVars, thread, run, ops, runs, histVars>>

\* read_document and parse_path_document refuse anything else.
IsDocument(d) == d \in Documents

NoCopy == [active |-> 0, counter |-> 0]
Idle == [op |-> "none", at |-> "idle", name |-> 0, other |-> 0, doc |-> 0, copy |-> NoCopy]
Stopped == [at |-> "idle", copy |-> NoCopy, doc |-> Missing, driven |-> Missing]

Init ==
    /\ files = [n \in Names |-> IF n \in Existing THEN n ELSE Missing]
    /\ tmp = [n \in Names |-> Missing]
    /\ opened = [n \in Names |-> {}]
    /\ \E n \in Existing :
          /\ settings = [active |-> n, counter |-> 1]
          /\ snapshot = n /\ points = n
    /\ thread = [t \in Threads |-> Idle]
    /\ run = Stopped
    /\ ops = 0 /\ runs = 0
    /\ used = {} /\ crossed = FALSE /\ shared = FALSE /\ broken = FALSE
    /\ behind = FALSE /\ rewound = FALSE

Busy(t) == thread[t].at # "idle"
IsRunning == run.at \in {"creating", "created", "driving"} \/ thread[Worker].at = "calibrating"
Ends(t) == thread' = [thread EXCEPT ![t] = Idle]
GoesOn(t, at) == IF at = "idle" THEN Ends(t) ELSE thread' = [thread EXCEPT ![t].at = at]

-----------------------------------------------------------------------------
(* Requests begin: _ensure_pipeline_idle, the checks and the copy of the     *)
(* settings that is changed later.                                           *)

\* PUT /settings and the load of a project store settings of any earlier time; the
\* counter of a form may be the lowest free one (suggest_project_name_counter).
FromOutside == {"put", "load"}

CounterOf(op) == {settings.counter} \cup (IF op \in FromOutside THEN Counters ELSE {})

\* Mutant: the request does not look at the pipeline.
NotLooked == TRUE

EnsurePipelineIdle == ~IsRunning

Begins(t, op, at, name, other) ==
    /\ ~Busy(t)
    /\ ops < MaxOps
    /\ ops' = ops + 1
    /\ \E c \in CounterOf(op) :
          thread' = [thread EXCEPT ![t] =
              [op |-> op, at |-> at, name |-> name, other |-> other,
               doc |-> IF op \in {"save", "create", "import", "delete"} THEN Cardinality(Names) + ops + 1 ELSE 0,
               copy |-> IF op \in {"select", "put", "load", "delete", "rename"}
                        THEN [settings EXCEPT !.counter = c] ELSE NoCopy]]
    /\ crossed' = (crossed \/ (\E u \in Threads : Busy(u)) \/ run.at \in {"starting", "creating"})
    /\ UNCHANGED <<fileVars, settings, loadVars, run, runs, used, shared, broken, behind, rewound>>

\* PUT /paths/active: save_active_document writes to the active file.
BeginSave(t) == t \in Requests /\ EnsurePipelineIdle /\ Begins(t, "save", "open", settings.active, 0)

\* Mutant: an existing file is written over.
MayExist(n) == TRUE

IsNew(n) == files[n] = Missing

\* create_path, and POST /paths/import-kuka, which may not overwrite.
BeginCreate(t) ==
    /\ t \in Requests /\ EnsurePipelineIdle
    /\ \E n \in Names : IsNew(n) /\ Begins(t, "create", "open", n, 0)

BeginCopy(t) ==
    /\ t \in Requests /\ EnsurePipelineIdle
    /\ \E m, n \in Names : files[m] # Missing /\ IsNew(n) /\ Begins(t, "copy", "copy", n, m)

\* POST /paths/select does not ask whether the file exists.
BeginSelect(t) ==
    /\ t \in Requests /\ EnsurePipelineIdle
    /\ \E n \in Names : Begins(t, "select", "update", n, 0)

BeginDelete(t) ==
    /\ t \in Requests /\ EnsurePipelineIdle
    /\ \E n \in Names : files[n] # Missing /\ Begins(t, "delete", "unlink", n, 0)

BeginRename(t) ==
    /\ t \in Requests /\ EnsurePipelineIdle
    /\ \E m, n \in Names : files[m] # Missing /\ IsNew(n) /\ Begins(t, "rename", "rename", n, m)

\* PUT /settings, also during a run; save_project stores the client's settings too.
BeginPut(t) == t \in Requests /\ \E n \in Names : Begins(t, "put", "update", n, 0)

\* load_project
BeginLoad(t) == t \in Requests /\ EnsurePipelineIdle /\ \E n \in Names : Begins(t, "load", "update", n, 0)

\* KukaFolderWatcher: a stable file is imported over the last import.
BeginImport == EnsurePipelineIdle /\ Begins(Watcher, "import", "open", AutoParsed, 0)

-----------------------------------------------------------------------------
(* write_document: the temporary file has the same name for every writer.    *)

\* A copy under way has its target open, and its source.
CopiesTo(t, n) == thread[t].at = "copying" /\ thread[t].name = n
InUse(n) == \E t \in Threads : thread[t].at = "copying" /\ n \in {thread[t].name, thread[t].other}

AfterWriting == [save |-> "read", create |-> "idle", import |-> "idle", delete |-> "update"]

\* Mutant: the document is written in place.
WritesInPlace(t) ==
    LET n == thread[t].name
    IN /\ thread[t].at = "open"
       /\ \/ files' = [files EXCEPT ![n] = thread[t].doc] /\ GoesOn(t, AfterWriting[thread[t].op])
          \/ files' = [files EXCEPT ![n] = Torn] /\ GoesOn(t, "open")
       /\ UNCHANGED <<tmp, opened, settings, loadVars, run, ops, runs, histVars>>

Open(t) ==
    LET n == thread[t].name
    IN /\ thread[t].at = "open"
       /\ tmp' = [tmp EXCEPT ![n] = Torn]
       /\ opened' = [opened EXCEPT ![n] = @ \cup {t}]
       /\ shared' = (shared \/ tmp[n] # Missing)
       /\ GoesOn(t, "write")
       /\ UNCHANGED <<files, settings, loadVars, run, ops, runs, used, crossed, broken, behind, rewound>>

\* Written over what another has written since, the longer text shows its end.
Write(t) ==
    LET n == thread[t].name
    IN /\ thread[t].at = "write"
       /\ \/ tmp' = [tmp EXCEPT ![n] = thread[t].doc]
          \/ tmp[n] # Torn /\ tmp' = [tmp EXCEPT ![n] = Torn]
       /\ opened' = [opened EXCEPT ![n] = @ \ {t}]
       /\ GoesOn(t, "replace")
       /\ UNCHANGED <<files, settings, loadVars, run, ops, runs, histVars>>

\* temp_path.replace
Replace(t) ==
    LET n == thread[t].name
    IN /\ thread[t].at = "replace"
       /\ tmp[n] # Missing /\ opened[n] = {} /\ ~InUse(n)
       /\ files' = [files EXCEPT ![n] = tmp[n]]
       /\ tmp' = [tmp EXCEPT ![n] = Missing]
       /\ behind' = (behind \/ (thread[t].op = "import" /\ n = settings.active))
       /\ GoesOn(t, AfterWriting[thread[t].op])
       /\ UNCHANGED <<opened, settings, loadVars, run, ops, runs, used, crossed, shared, broken, rewound>>

\* It fails when another writer replaced the file or has it open, or the target is
\* being read or copied; the temporary file is removed if that can be done.
ReplaceFails(t) ==
    LET n == thread[t].name
    IN /\ thread[t].at = "replace"
       /\ tmp' = IF opened[n] = {} THEN [tmp EXCEPT ![n] = Missing] ELSE tmp
       /\ behind' = (behind \/ thread[t].op = "delete")
       /\ Ends(t)
       /\ UNCHANGED <<files, opened, settings, loadVars, run, ops, runs, used, crossed, shared, broken, rewound>>

-----------------------------------------------------------------------------
(* The other changes of files.                                               *)

\* shutil.copy2 opens the target in place, also one that was made since the check.
CopyOpens(t) ==
    LET n == thread[t].name
        source == thread[t].other
    IN /\ thread[t].at = "copy" /\ files[source] # Missing
       /\ files' = [files EXCEPT ![n] = Torn]
       /\ shared' = (shared \/ InUse(n) \/ \E u \in Threads : CopiesTo(u, source))
       /\ GoesOn(t, "copying")
       /\ UNCHANGED <<tmp, opened, settings, loadVars, run, ops, runs, used, crossed, broken, behind, rewound>>

\* A source that is gone by then ends the request.
CopyFindsNothing(t) ==
    /\ thread[t].at = "copy" /\ files[thread[t].other] = Missing
    /\ Ends(t)
    /\ UNCHANGED <<fileVars, settings, loadVars, run, ops, runs, histVars>>

CopyWrites(t) ==
    LET n == thread[t].name
    IN /\ thread[t].at = "copying"
       /\ \/ files' = [files EXCEPT ![n] = files[thread[t].other]]
          \/ files[n] # Torn /\ files' = [files EXCEPT ![n] = Torn]
       /\ Ends(t)
       /\ UNCHANGED <<tmp, opened, settings, loadVars, run, ops, runs, histVars>>

\* A full disk or a program that ends; nothing takes the part away.
CopyBreaks(t) ==
    /\ thread[t].at = "copying"
    /\ broken' = TRUE
    /\ Ends(t)
    /\ UNCHANGED <<fileVars, settings, loadVars, run, ops, runs, used, crossed, shared, behind, rewound>>

\* delete_path: when the active file went, the first that is left becomes active,
\* or a new empty one.
Unlink(t) ==
    LET n == thread[t].name
        left == {m \in Names \ {n} : files[m] # Missing}
        deleted == files[n] # Missing /\ ~InUse(n)
    IN /\ thread[t].at = "unlink"
       /\ files' = IF deleted THEN [files EXCEPT ![n] = Missing] ELSE files
       /\ IF ~deleted \/ thread[t].copy.active # n THEN Ends(t)
          ELSE \E next \in Names :
                  /\ IF left = {} THEN next = NewPath ELSE next \in left /\ \A k \in left : next <= k
                  /\ thread' = [thread EXCEPT ![t].name = next, ![t].at = IF left = {} THEN "open" ELSE "update"]
       /\ UNCHANGED <<tmp, opened, settings, loadVars, run, ops, runs, histVars>>

\* rename_path: Path.rename refuses an existing target.
Rename(t) ==
    LET from == thread[t].other
        to == thread[t].name
        renamed == files[from] # Missing /\ files[to] = Missing /\ ~InUse(from)
    IN /\ thread[t].at = "rename"
       /\ files' = IF renamed THEN [files EXCEPT ![to] = files[from], ![from] = Missing] ELSE files
       /\ GoesOn(t, IF renamed /\ thread[t].copy.active = from THEN "update" ELSE "idle")
       /\ UNCHANGED <<tmp, opened, settings, loadVars, run, ops, runs, histVars>>

-----------------------------------------------------------------------------
(* The settings change and the trajectory is loaded.                         *)

\* Mutant: the trajectory is loaded before the settings name it.
LoadsTooEarly(t) ==
    /\ thread[t].at = "update"
    /\ settings' = [thread[t].copy EXCEPT !.active = thread[t].name]
    /\ thread' = [thread EXCEPT ![t].at = "publish", ![t].doc = files[settings.active]]
    /\ UNCHANGED <<fileVars, loadVars, run, ops, runs, histVars>>

\* update_runtime_settings with the copy the request began with; most sections of
\* the settings load nothing.
Update(t) ==
    /\ thread[t].at = "update"
    /\ settings' = [thread[t].copy EXCEPT !.active = thread[t].name]
    /\ behind' = (behind \/ thread[t].op = "put")
    /\ rewound' = (rewound \/ (thread[t].op \in FromOutside /\ \E k \in used : thread[t].copy.counter <= k))
    /\ \/ GoesOn(t, "read")
       \/ thread[t].op = "put" /\ Ends(t)
    /\ UNCHANGED <<fileVars, loadVars, run, ops, runs, used, crossed, shared, broken>>

\* reload_active reads the file the settings name; a save the one it wrote, a
\* calibration its own.
Read(t) ==
    /\ thread[t].at = "read"
    /\ thread' = [thread EXCEPT ![t].at = "publish",
          ![t].doc = files[IF thread[t].op \in {"save", "calibrate"} THEN thread[t].name ELSE settings.active]]
    /\ UNCHANGED <<fileVars, settings, loadVars, run, ops, runs, histVars>>

AfterLoading(op) == CASE op = "put" -> "idle" [] op = "calibrate" -> "prepare" [] OTHER -> "refresh"

Publish(t) ==
    /\ thread[t].at = "publish"
    /\ snapshot' = IF IsDocument(thread[t].doc) THEN thread[t].doc ELSE Missing
    /\ GoesOn(t, AfterLoading(thread[t].op))
    /\ UNCHANGED <<fileVars, settings, points, run, ops, runs, histVars>>

\* on_path_updated
Refresh(t) ==
    /\ thread[t].at = "refresh"
    /\ points' = IF IsRunning \/ snapshot = Missing THEN points ELSE snapshot
    /\ Ends(t)
    /\ UNCHANGED <<fileVars, settings, snapshot, run, ops, runs, histVars>>

-----------------------------------------------------------------------------
(* A run.                                                                    *)

\* _begin_cycle: _validate_ready_to_start wants a trajectory, and
\* _preflight_startup_travel reads the active file.
RunChecks ==
    /\ run.at = "idle" /\ ~Busy(Worker) /\ runs < MaxRuns
    /\ snapshot # Missing /\ IsDocument(files[settings.active])
    /\ run' = [run EXCEPT !.at = "starting"]
    /\ runs' = runs + 1
    /\ crossed' = (crossed \/ \E t \in Threads : Busy(t))
    /\ UNCHANGED <<fileVars, settings, loadVars, thread, ops, used, shared, broken, behind, rewound>>

\* The state is "running"; the worker calls prepare_next_project, which reads the
\* settings and creates the project of their counter.
RunCreates ==
    /\ run.at = "starting"
    /\ run' = [run EXCEPT !.at = "creating", !.copy = settings]
    /\ UNCHANGED <<fileVars, settings, loadVars, thread, ops, runs, histVars>>

\* Mutant: the counter is not advanced.
CounterStays ==
    /\ run.at = "creating"
    /\ settings' = run.copy
    /\ used' = used \cup {run.copy.counter}
    /\ run' = [Stopped EXCEPT !.at = "created"]
    /\ UNCHANGED <<fileVars, loadVars, thread, ops, runs, crossed, shared, broken, behind, rewound>>

\* It is created, and the counter goes up in the copy of the settings.
RunAdvances ==
    /\ run.at = "creating"
    /\ settings' = [run.copy EXCEPT !.counter = @ + 1]
    /\ used' = used \cup {run.copy.counter}
    /\ run' = [Stopped EXCEPT !.at = "created"]
    /\ UNCHANGED <<fileVars, loadVars, thread, ops, runs, crossed, shared, broken, behind, rewound>>

\* _execute_startup_travel plans on the active file, run_cycle drives the points of
\* the client; a file that cannot be read ends the run.
RunDrives ==
    /\ run.at = "created"
    /\ run' = IF IsDocument(files[settings.active])
              THEN [run EXCEPT !.at = "driving", !.doc = files[settings.active], !.driven = points]
              ELSE Stopped
    /\ UNCHANGED <<fileVars, settings, loadVars, thread, ops, runs, histVars>>

RunEnds ==
    /\ run.at \in {"creating", "driving"}
    /\ run' = Stopped
    /\ UNCHANGED <<fileVars, settings, loadVars, thread, ops, runs, histVars>>

-----------------------------------------------------------------------------
(* A calibration loads its own file into the one snapshot.                   *)

\* start_calibration_cycle: its checks read the file.
CalibrationBegins ==
    /\ run.at = "idle" /\ ~Busy(Worker) /\ runs < MaxRuns
    /\ IsDocument(files[Calibration])
    /\ thread' = [thread EXCEPT ![Worker] = [Idle EXCEPT !.op = "calibrate", !.at = "read", !.name = Calibration]]
    /\ runs' = runs + 1
    /\ crossed' = (crossed \/ \E t \in Threads : Busy(t))
    /\ UNCHANGED <<fileVars, settings, loadVars, run, ops, used, shared, broken, behind, rewound>>

\* The robot's client gets the points that are loaded.
CalibrationStarts ==
    /\ thread[Worker].at = "prepare" /\ snapshot # Missing
    /\ points' = snapshot
    /\ GoesOn(Worker, "calibrating")
    /\ UNCHANGED <<fileVars, settings, snapshot, run, ops, runs, histVars>>

\* A load error ends it, or a trajectory without a scan once the client has it:
\* what was loaded stays.
CalibrationFails ==
    /\ thread[Worker].at = "prepare"
    /\ points' = IF snapshot = Missing THEN points ELSE snapshot
    /\ behind' = TRUE
    /\ Ends(Worker)
    /\ UNCHANGED <<fileVars, settings, snapshot, run, ops, runs, used, crossed, shared, broken, rewound>>

\* The worker is through, however it went: reload_active and on_path_updated.
CalibrationEnds ==
    /\ thread[Worker].at = "calibrating"
    /\ thread' = [thread EXCEPT ![Worker].op = "restore", ![Worker].at = "read"]
    /\ UNCHANGED <<fileVars, settings, loadVars, run, ops, runs, histVars>>

-----------------------------------------------------------------------------
Next ==
    \/ \E t \in Requests : \/ BeginSave(t) \/ BeginCreate(t) \/ BeginCopy(t) \/ BeginSelect(t)
                           \/ BeginDelete(t) \/ BeginRename(t) \/ BeginPut(t) \/ BeginLoad(t)
    \/ BeginImport
    \/ \E t \in Threads : Open(t) \/ Write(t) \/ Replace(t) \/ ReplaceFails(t)
    \/ \E t \in Requests : \/ CopyOpens(t) \/ CopyFindsNothing(t) \/ CopyWrites(t) \/ CopyBreaks(t)
                           \/ Unlink(t) \/ Rename(t) \/ Update(t)
    \/ \E t \in Requests \cup {Worker} : Read(t) \/ Publish(t) \/ Refresh(t)
    \/ CalibrationBegins \/ CalibrationStarts \/ CalibrationFails \/ CalibrationEnds
    \/ RunChecks \/ RunCreates \/ RunAdvances \/ RunDrives \/ RunEnds

Spec == Init /\ [][Next]_vars

-----------------------------------------------------------------------------
(* Properties. *)

Quiet == \A t \in Threads : ~Busy(t)

Settings == [active : Names, counter : Nat]
Stored == Documents \cup {Missing, Torn}
Activities ==
    [op : {"none", "save", "create", "copy", "select", "delete", "rename", "put", "load", "import",
           "calibrate", "restore"},
     at : {"idle", "open", "write", "replace", "copy", "copying", "unlink", "rename", "update", "read",
           "publish", "refresh", "prepare", "calibrating"},
     name : Names \cup {0}, other : Names \cup {0}, doc : Stored, copy : Settings \cup {NoCopy}]

\* Every document that is stored, loaded or driven is one that was written; the
\* active file is one of the names, even when it does not exist.
TypeOK ==
    /\ files \in [Names -> Stored] /\ tmp \in [Names -> Stored]
    /\ opened \in [Names -> SUBSET Threads]
    /\ settings \in Settings
    /\ snapshot \in Documents \cup {Missing} /\ points \in Documents
    /\ thread \in [Threads -> Activities]
    /\ run \in [at : {"idle", "starting", "creating", "created", "driving"}, copy : Settings \cup {NoCopy},
                doc : Documents \cup {Missing}, driven : Documents \cup {Missing}]
    /\ ops \in 0..MaxOps /\ runs \in 0..MaxRuns
    /\ used \subseteq Nat
    /\ crossed \in BOOLEAN /\ shared \in BOOLEAN /\ broken \in BOOLEAN
    /\ behind \in BOOLEAN /\ rewound \in BOOLEAN

\* A stored file is whole, but for one that is being copied to: it stays torn only
\* when a copy was broken off, or two threads wrote to one name at once.
TornByTwoWriters ==
    (~shared /\ ~broken) => \A n \in Names : files[n] = Torn => \E t \in Threads : CopiesTo(t, n)

\* When no request and no calibration is on, the loaded trajectory is that of the
\* active file, or a load error (which stays when a missing file that was selected is
\* made); only overlapping requests, an import over it, a settings request, a failed
\* write or a calibration that failed to start undo it.
LoadedIsActive ==
    (Quiet /\ ~crossed /\ ~behind) => snapshot \in {files[settings.active], Missing}

\* A run drives the trajectory its travel to the first scan was planned for, though
\* one is read from the file and the other from the client: only a request that
\* overlaps its start, an import, a settings request or a calibration that failed to
\* start parts them.
DrivesWhatItTravelledTo ==
    (run.at = "driving" /\ ~crossed /\ ~behind) => run.driven = run.doc

\* No project is created under a number that has been used, unless a request
\* overlapped the creation, or a form or a stored project wrote back a counter that
\* was not above every number used.
ProjectNumberIsNew ==
    (run.at = "creating" /\ ~crossed /\ ~rewound) => run.copy.counter \notin used

\* A stored document is not lost: it is replaced by a save of the active file or an
\* import over the last import, moved by a rename or deleted, never overwritten by
\* a file that was to be new, unless requests overlapped.
NothingOverwritten ==
    [][ \A n \in Names :
          (files[n] # Missing /\ files'[n] # files[n] /\ ~crossed) =>
              \E t \in Threads :
                 \/ thread[t].op \in {"save", "import"} /\ thread[t].name = n
                 \/ thread[t].at = "copying" /\ thread[t].name = n
                 \/ thread[t].op = "delete" /\ files'[n] = Missing
                 \/ thread[t].op = "rename" /\ thread[t].other = n /\ files'[thread[t].name] = files[n] ]_vars
=============================================================================
