---------------------------- MODULE RunWorkProofs ----------------------------
(***************************************************************************)
(* Proofs about what the runs of PipelineRun work on: the trajectory they  *)
(* drive, the project they scan into, the position they go on from, and    *)
(* the lock they hold.                                                     *)
(***************************************************************************)
EXTENDS PipelineRunProofs, FiniteSetTheorems

\* The types the proofs below rely on.
LEMMA IInvTypes == IInv => CallsOK /\ WorksOK /\ PathTypeOK /\ ServiceTypeOK /\ ScannerTypeOK
  BY DEF IInv, TypeOK, ThreadTypeOK, CallsOK, WorksOK, CallType, WorkType

\* What a scan, done or skipped, changes of the threads.
LEMMA ScanStep ==
    ASSUME WorksOK, NEW w \in Workers, WorkerScans(w) \/ WorkerSkipsScan(w)
    PROVE  /\ work[w].at = "scanning" /\ work'[w].at \in {"home", "loop"}
           /\ work'[w].at = "home" => work[w].op # "calibration"
           /\ work'[w].op = work[w].op /\ work'[w].project = work[w].project
           /\ work'[w].path = work[w].path
           /\ \A v \in Workers : v # w => work'[v] = work[v]
           /\ UNCHANGED <<serviceVars, runLock, ownVars, pathVars, motionCancel, call, init>>
  <1>1. work[w].at = "scanning" /\ AfterScan(w)
    BY DEF WorkerScans, WorkerSkipsScan
  <1>2. UNCHANGED <<serviceVars, runLock, ownVars, pathVars, motionCancel, call, init>>
    BY DEF WorkerScans, WorkerSkipsScan
  <1>3. work'[w] = [work[w] EXCEPT !.i = work[w].i + 1,
            !.at = IF StopsAtLastScan(w) /\ work[w].i = LastScan THEN "home" ELSE "loop"]
    BY <1>1 DEF AfterScan, WorksOK
  <1>4. \A v \in Workers : v # w => work'[v] = work[v]
    BY <1>1 DEF AfterScan, WorksOK
  <1>5. /\ work'[w].at = IF StopsAtLastScan(w) /\ work[w].i = LastScan THEN "home" ELSE "loop"
        /\ work'[w].op = work[w].op /\ work'[w].project = work[w].project
        /\ work'[w].path = work[w].path
    BY <1>3 DEF WorksOK, WorkType
  <1> QED
    BY <1>1, <1>2, <1>4, <1>5 DEF StopsAtLastScan

----------------------------------------------------------------------------
(* The requests.                                                            *)

\* A request is one the callers make, where it is tells what it was, and only
\* a continue has read a project and a step.
CallOps ==
    \A c \in Callers :
        /\ call[c].at # "idle" => call[c].op \in Ops
        /\ call[c].at \in {"acquire", "read", "ensure"} => call[c].op = "resume"
        /\ call[c].at \in {"load", "points"} => call[c].op = "calibration"
        /\ call[c].at \in Starting => call[c].op \in {"new", "resume", "calibration"}
        /\ call[c].op # "resume" => call[c].project = None /\ call[c].step = None

\* Only a calibration run enters calibration mode, and it has no laps.
WorkOps ==
    \A w \in Workers :
        /\ work[w].at = "enter" => work[w].op = "calibration"
        /\ work[w].op = "calibration" =>
              work[w].at \notin {"top", "create", "ready", "home", "ended", "prepare", "rest"}

OpInv == CallOps /\ WorkOps

\* A request that begins is one of Ops and remembers nothing.
LEMMA OpCallerBegins ==
    ASSUME IInv, OpInv, NEW c \in Callers, CallerBegins(c)
    PROVE  OpInv'
  <1> USE DEF OpInv, CallOps, WorkOps, Starting
  <1>t. CallsOK /\ WorksOK
    BY IInvTypes
  <1>1. ASSUME NEW op \in Ops, StartAcquires(c, op) PROVE OpInv'
    BY <1>t, <1>1 DEF StartAcquires, Enter, CallsOK, CallType, WorksOK, WorkType, NoCall, NoWork
  <1>2. CASE ContinueChecks(c)
    BY <1>t, <1>2 DEF ContinueChecks, Enter, CallsOK, CallType, WorksOK, WorkType, NoCall, NoWork
  <1>3. CASE StopMarks(c)
    <2>1. CASE Enter(c, "stop", "setAbort")
      BY <1>t, <1>3, <2>1 DEF StopMarks, Enter, CallsOK, CallType, NoCall
    <2>2. CASE call[c].at = "stopFirst" /\ Goto(c, "setAbort")
      BY <1>t, <1>3, <2>2 DEF StopMarks, Goto, CallsOK, CallType, NoCall
    <2>3. CASE call[c].at = "stopFirst" /\ Goto(c, "restart")
      BY <1>t, <1>3, <2>3 DEF StopMarks, Goto, CallsOK, CallType, NoCall
    <2> QED
      BY <1>3, <2>1, <2>2, <2>3 DEF StopMarks
  <1>4. CASE ReloadChecks(c)
    BY <1>t, <1>4 DEF ReloadChecks, Enter, CallsOK, CallType, WorksOK, WorkType, NoCall, NoWork
  <1>5. CASE SelectChecks(c)
    BY <1>t, <1>5 DEF SelectChecks, Enter, CallsOK, CallType, WorksOK, WorkType, NoCall, NoWork
  <1>6. CASE JogChecks(c)
    BY <1>t, <1>6 DEF JogChecks, Enter, CallsOK, CallType, WorksOK, WorkType, NoCall, NoWork
  <1>7. ASSUME NEW p \in Paths, SettingsReload(c, p) PROVE OpInv'
    BY <1>t, <1>7 DEF SettingsReload, CallsOK, CallType, WorksOK, WorkType, NoCall, NoWork
  <1> QED
    BY <1>1, <1>2, <1>3, <1>4, <1>5, <1>6, <1>7 DEF CallerBegins, Start

\* Only a continue reads what it goes on with.
LEMMA OpStartProceeds ==
    ASSUME IInv, OpInv, NEW c \in Callers, StartProceeds(c)
    PROVE  OpInv'
  <1> USE DEF OpInv, CallOps, WorkOps, Starting
  <1>t. CallsOK /\ WorksOK
    BY IInvTypes
  <1>1. CASE ContinueAcquires(c)
    BY <1>t, <1>1 DEF ContinueAcquires, Goto, Return, CallsOK, CallType, WorksOK, WorkType, NoCall,
      NoWork
  <1>2. CASE StartValidates(c)
    BY <1>t, <1>2 DEF StartValidates, Goto, CallsOK, CallType, WorksOK, WorkType, NoCall, NoWork
  <1>3. CASE StartRefused(c) \/ StartHasNoScan(c)
    BY <1>t, <1>3 DEF StartRefused, StartHasNoScan, Return, Raises, CallsOK, CallType, WorksOK,
      WorkType, NoCall,
      NoWork
  <1>4. CASE ResumeReads(c)
    BY <1>t, <1>4 DEF ResumeReads, Return, Raises, CallsOK, CallType, WorksOK, WorkType, NoCall,
      NoWork
  <1>5. CASE ResumeEnsures(c)
    BY <1>t, <1>5 DEF ResumeEnsures, Goto, CallsOK, CallType, WorksOK, WorkType, NoCall, NoWork
  <1>6. CASE EnsureFails(c)
    BY <1>t, <1>6 DEF EnsureFails, Return, Raises, CallsOK, CallType, WorksOK, WorkType, NoCall,
      NoWork
  <1>7. CASE EnsureRefused(c)
    BY <1>t, <1>7 DEF EnsureRefused, Return, CallsOK, CallType, WorksOK, WorkType, NoCall, NoWork
  <1>8. CASE CalibrationLoads(c)
    BY <1>t, <1>8 DEF CalibrationLoads, Goto, CallsOK, CallType, WorksOK, WorkType, NoCall, NoWork
  <1>9. CASE CalibrationLoadFails(c) \/ CalibrationHasNoScan(c)
    BY <1>t, <1>9 DEF CalibrationLoadFails, CalibrationHasNoScan, PointsFromSnapshot, Return,
      Raises, CallsOK, CallType, WorksOK, WorkType,
      NoCall, NoWork
  <1>10. CASE CalibrationSetsPoints(c)
    BY <1>t, <1>10 DEF CalibrationSetsPoints, PointsFromSnapshot, Goto, CallsOK, CallType,
      WorksOK, WorkType, NoCall,
      NoWork
  <1>11. CASE StartClearsAbort(c)
    BY <1>t, <1>11 DEF StartClearsAbort, Goto, CallsOK, CallType, WorksOK, WorkType, NoCall, NoWork
  <1>12. CASE StartClearsMotion(c)
    BY <1>t, <1>12 DEF StartClearsMotion, Goto, CallsOK, CallType, WorksOK, WorkType, NoCall,
      NoWork
  <1>13. CASE StartRuns(c)
    BY <1>t, <1>13 DEF StartRuns, Goto, CallsOK, CallType, WorksOK, WorkType, NoCall, NoWork
  <1>14. ASSUME NEW w \in Workers, StartSpawns(c, w) PROVE OpInv'
    BY <1>t, <1>14 DEF StartSpawns, Return, CallsOK, CallType, WorksOK, WorkType, NoCall, NoWork
  <1> QED
    BY <1>1, <1>2, <1>3, <1>4, <1>5, <1>6, <1>7, <1>8, <1>9, <1>10, <1>11, <1>12, <1>13, <1>14 DEF
      StartProceeds

\* A stop keeps what its request was.
LEMMA OpStopProceeds ==
    ASSUME IInv, OpInv, NEW c \in Callers, StopProceeds(c)
    PROVE  OpInv'
  <1> USE DEF OpInv, CallOps, WorkOps, Starting
  <1>t. CallsOK /\ WorksOK
    BY IInvTypes
  <1> QED
    BY <1>t DEF StopMarks, Enter, CallsOK, CallType, NoCall, Goto, StopSetsAbort, WorksOK,
      WorkType, NoWork, StopCancelsMotion, StopJoins, Return, ReloadRestarts, ReloadForgets,
      Forget, StopProceeds

\* A change of the path keeps what its request was.
LEMMA OpPathProceeds ==
    ASSUME IInv, OpInv, NEW c \in Callers, PathProceeds(c)
    PROVE  OpInv'
  <1> USE DEF OpInv, CallOps, WorkOps, Starting
  <1>t. CallsOK /\ WorksOK
    BY IInvTypes
  <1> QED
    BY <1>t DEF SelectReloads, Goto, CallsOK, CallType, WorksOK, WorkType, NoCall, NoWork,
      PathChecks, Return, PathSets, PointsFromSnapshot, JogEnsuresClient, JogClearsMotion, JogEnds,
      PathProceeds

\* A lap goes on as what it is.
LEMMA OpLap ==
    ASSUME IInv, OpInv, NEW w \in Workers, Lap(w)
    PROVE  OpInv'
  <1> USE DEF OpInv, CallOps, WorkOps
  <1>t. WorksOK
    BY IInvTypes
  <1>1. CASE LapBegins(w)
    BY <1>t, <1>1 DEF LapBegins, WorkGoto, WorksOK, WorkType, NoWork
  <1>2. CASE WorkerCreates(w)
    BY <1>t, <1>2 DEF WorkerCreates, WorkGoto, NewProject, WorksOK, WorkType, NoWork
  <1>3. CASE LapReads(w)
    BY <1>t, <1>3 DEF LapReads, WorksOK, WorkType, NoWork
  <1>4. CASE CalibrationEnters(w)
    BY <1>t, <1>4 DEF CalibrationEnters, WorkGoto, WorksOK, WorkType, NoWork
  <1>5. CASE RunCannotBegin(w)
    BY <1>t, <1>5 DEF RunCannotBegin, WorkGoto, Raise, WorksOK, WorkType, NoWork
  <1>6. CASE RunBegins(w)
    BY <1>t, <1>6 DEF RunBegins, WorksOK, WorkType, NoWork, StopsAtLastScan
  <1>7. CASE OnStep(w)
    BY <1>t, <1>7 DEF OnStep, WorkGoto, WorksOK, WorkType, NoWork
  <1>8. CASE RunEnds(w)
    BY <1>t, <1>8 DEF RunEnds, WorkGoto, WorksOK, WorkType, NoWork
  <1>9. CASE RunRepeats(w)
    BY <1>t, <1>9 DEF RunRepeats, WorkGoto, WorksOK, WorkType, NoWork
  <1>10. CASE NextLapCreates(w)
    BY <1>t, <1>10 DEF NextLapCreates, WorkGoto, NewProject, WorksOK, WorkType, NoWork
  <1>11. CASE NextLapSetsPoints(w)
    BY <1>t, <1>11 DEF NextLapSetsPoints, WorkGoto, PointsFromSnapshot, WorksOK, WorkType, NoWork
  <1> QED
    BY <1>1, <1>2, <1>3, <1>4, <1>5, <1>6, <1>7, <1>8, <1>9, <1>10, <1>11 DEF Lap

\* A run waits for the machine as what it is.
LEMMA OpMachine ==
    ASSUME IInv, OpInv, NEW w \in Workers, Machine(w)
    PROVE  OpInv'
  <1> USE DEF OpInv, CallOps, WorkOps
  <1>t. WorksOK
    BY IInvTypes
  <1>1. CASE WorkerTravels(w)
    BY <1>t, <1>1 DEF WorkerTravels, WorkGoto, WorksOK, WorkType, NoWork
  <1>2. CASE WorkerMoves(w)
    BY <1>t, <1>2 DEF WorkerMoves, WorksOK, WorkType, NoWork
  <1>3. CASE WorkerScans(w) \/ WorkerSkipsScan(w)
    BY <1>t, <1>3, ScanStep DEF WorksOK, WorkType, NoWork, StopsAtLastScan
  <1>4. CASE LapEnds(w)
    BY <1>t, <1>4 DEF LapEnds, WorkGoto, WorksOK, WorkType, NoWork
  <1> QED
    BY <1>1, <1>2, <1>3, <1>4 DEF Machine

\* A run that ends is still of its kind.
LEMMA OpOutcome ==
    ASSUME IInv, OpInv, NEW w \in Workers, Outcome(w)
    PROVE  OpInv'
  <1> USE DEF OpInv, CallOps, WorkOps
  <1>t. WorksOK
    BY IInvTypes
  <1> QED
    BY <1>t DEF WorkerSeesAbort, WorkGoto, Raise, WorksOK, WorkType, NoWork, WorkerSeesCancel,
      CalibrationExits, RunFails, Outcome

\* A run that fails is still of its kind.
LEMMA OpFails ==
    ASSUME IInv, OpInv, NEW w \in Workers, WorkerFails(w)
    PROVE  OpInv'
  <1> USE DEF OpInv, CallOps, WorkOps
  <1>t. WorksOK
    BY IInvTypes
  <1> QED
    BY <1>t DEF WorkerFails, WorkGoto, Raise, WorksOK, WorkType, NoWork

\* A calibration run restores the trajectory.
LEMMA OpCleanup ==
    ASSUME IInv, OpInv, NEW w \in Workers, Cleanup(w)
    PROVE  OpInv'
  <1> USE DEF OpInv, CallOps, WorkOps
  <1>t. WorksOK
    BY IInvTypes
  <1> QED
    BY <1>t DEF WorkerClearsAbort, WorkGoto, WorksOK, WorkType, NoWork, WorkerClearsMotion,
      CalibrationRestores, CalibrationChecksState, CalibrationRestoresPoints, PointsFromSnapshot,
      WorkerReleases, Cleanup

\* No other thread changes what callers and workers are at.
LEMMA OpOthers ==
    ASSUME OpInv, call' = call, work' = work
    PROVE  OpInv'
  BY DEF OpInv, CallOps, WorkOps




----------------------------------------------------------------------------
(* The project and the position.                                            *)

\* What has been done with the positions of each project.
Scans == [p \in Projects |-> Treated(p)]

\* The positions before n are among the scans of a project.
Filled(scans, n) == \A i \in First..(n - 1) : \E p \in Paths : <<p, i>> \in scans

\* A run may go on from n with these scans: it leaves out nothing, and a run
\* that ends at the last scan does not begin after it.
MayResume(scans, n) == Filled(scans, n) /\ (RunMode = "single_last_scan" => n # End)

\* A run that is to begin: with a project to be made it begins at the first
\* position, and nothing is known of a step.
FreshStart == resumeStart = First /\ step = None

StartInv ==
    \A c \in Callers :
        /\ call[c].at = "ensure" =>
              call[c].project # None /\ MayResume(Scans[call[c].project], call[c].step)
        /\ call[c].at \in {"clear", "clearMotion", "run"} =>
              /\ call[c].op = "new" => resumeStart = First
              /\ call[c].op = "resume" =>
                    /\ ~defer /\ call[c].project # None /\ call[c].step = resumeStart
                    /\ MayResume(Scans[call[c].project], resumeStart)
        /\ call[c].at = "spawn" =>
              /\ call[c].op = "calibration" => project = None
              /\ call[c].op # "calibration" =>
                    /\ project # None => MayResume(Scans[project], resumeStart)
                    /\ defer => FreshStart
                    /\ RunMode = "single_last_scan" => step # End

\* Where a production run has its project made, and where it has one.
Lapping == {"ready", "travel", "first", "loop", "moving", "scanning", "home", "ended",
            "record", "prepare", "rest"}

LapInv ==
    \A w \in Workers : work[w].at # "dead" /\ work[w].op # "calibration" =>
        /\ work[w].at \in {"top", "create", "ready"} /\ project # None
              => MayResume(Scans[project], resumeStart)
        /\ work[w].at = "create" \/ (work[w].at = "top" /\ defer) => FreshStart
        /\ work[w].at \in Lapping => ~defer
        /\ work[w].at \in {"travel", "first"} =>
              work[w].project # None /\ MayResume(Scans[work[w].project], resumeStart)
        /\ work[w].at \in {"loop", "moving", "scanning"} =>
              work[w].project # None /\ MayResume(Scans[work[w].project], work[w].i)
        /\ work[w].at \in {"home", "ended", "record"} =>
              work[w].project # None /\ Filled(Scans[work[w].project], End)
        /\ work[w].at = "rest" => resumeStart = First
        /\ work[w].at \in {"prepare", "rest"} => RunMode = "repeat_on_success"
        /\ RunMode = "single_last_scan" => step # End

\* A calibration run has no project.
CalibrationWork ==
    \A w \in Workers : work[w].at # "dead" /\ work[w].op = "calibration" => project = None

\* What continue finds can be gone on from, unless laps are repeated.
ResumeInv ==
    RunMode # "repeat_on_success" /\ project # None /\ step # None
        => MayResume(Scans[project], step)

WorkInv == StartInv /\ LapInv /\ CalibrationWork /\ ResumeInv

\* Nobody has stopped a repeated lap and continued it.
NoContinueOfRepeats == RunMode # "repeat_on_success" \/ "resume" \notin Ops

----------------------------------------------------------------------------
(* The trajectory.                                                          *)

\* A caller that has loaded the calibration trajectory, and a worker that has
\* not yet loaded the active one again, or has not yet given it to the client.
StartsCalibration(c) ==
    /\ call[c].op = "calibration"
    /\ call[c].at \in {"points", "clear", "clearMotion", "run", "spawn"}
KeepsSnapshot(w) ==
    /\ work[w].op = "calibration"
    /\ work[w].at \notin {"dead", "updated", "setPoints", "release"}
KeepsPoints(w) == work[w].op = "calibration" /\ work[w].at \notin {"dead", "release"}

\* The calibration trajectory is there for a calibration run only.
CalibrationInv ==
    /\ loaded = Calibration =>
          (\E c \in Callers : StartsCalibration(c)) \/ (\E w \in Workers : KeepsSnapshot(w))
    /\ points = Calibration =>
          (\E c \in Callers : StartsCalibration(c)) \/ (\E w \in Workers : KeepsPoints(w))
    /\ \A c \in Callers : call[c].at = "points" /\ loaded = Broken => points # Calibration
    /\ \A w \in Workers :
          work[w].op = "calibration" /\ work[w].at \in {"updated", "setPoints", "release"}
             => loaded \in Paths

\* A calibration is on its way, from where it may load its trajectory.
CalibrationCall(c) ==
    /\ call[c].op = "calibration"
    /\ call[c].at \in {"load", "points", "clear", "clearMotion", "run", "spawn"}
CalibrationWorker(w) == work[w].op = "calibration" /\ work[w].at # "dead"
CalibrationGoing ==
    (\E c \in Callers : CalibrationCall(c)) \/ (\E w \in Workers : CalibrationWorker(w))

\* There is no calibration until there is a client: what the initialisation makes
\* one with is a path file's.  And a calibration.json without a scan point that is
\* left in the snapshot is in the client too.
ClientInv ==
    /\ init.at \in {"scanner", "forget", "client", "create", "end"} => initializing
    /\ points = NoClient \/ init.at = "create" =>
          ~CalibrationGoing /\ loaded \notin {Calibration, Scanless}
    /\ init.at = "create" => init.path \in Paths
    /\ loaded = Scanless => points = Scanless \/ \E c \in Callers : call[c].at = "points"

\* Where a request that has been validated is, and a run that has its points.
Validated == {"read", "ensure", "clear", "clearMotion", "run", "spawn"}
Driving == {"loop", "moving", "scanning"}
Driven == {"scanning", "home", "ended", "record"}

\* Any other run drives a trajectory of a path file that is loaded; until it does
\* there may be one left by a calibration start that found no scan point.
SnapshotInv ==
    /\ \A c \in Callers :
          call[c].at \in Validated /\ call[c].op # "calibration" => loaded \in Paths \cup {Scanless}
    /\ \A w \in Workers : work[w].op # "calibration" =>
          /\ work[w].at # "dead" => loaded \in Paths \cup {Scanless}
          /\ work[w].at \in Driving \cup Driven \cup {"prepare", "rest"} => loaded \in Paths
          /\ work[w].at \in {"travel", "first"} => points # NoClient
          /\ work[w].at \in Driving => points \in Paths
          /\ work[w].at \in Driven \cup {"prepare", "rest"} => work[w].path \in Paths

PathInv == CalibrationInv /\ SnapshotInv /\ ClientInv

\* Five names of a set of five elements are distinct.
LEMMA FiveDistinct ==
    ASSUME NEW a, NEW b, NEW c, NEW d, NEW e, Cardinality({a, b, c, d, e}) = 5
    PROVE  a # b
  <1> SUFFICES ASSUME a = b PROVE FALSE
    OBVIOUS
  <1>1. IsFiniteSet({b}) /\ Cardinality({b}) = 1
    BY FS_Singleton
  <1>2. IsFiniteSet({b} \cup {c}) /\ Cardinality({b} \cup {c}) \in {1, 2}
    BY <1>1, FS_AddElement
  <1>3. /\ IsFiniteSet(({b} \cup {c}) \cup {d})
        /\ Cardinality(({b} \cup {c}) \cup {d}) \in {1, 2, 3}
    BY <1>2, FS_AddElement
  <1>4. Cardinality((({b} \cup {c}) \cup {d}) \cup {e}) \in {1, 2, 3, 4}
    BY <1>3, FS_AddElement
  <1>5. {a, b, c, d, e} = (({b} \cup {c}) \cup {d}) \cup {e}
    OBVIOUS
  <1> QED
    BY <1>4, <1>5

\* What is not a path file's trajectory is one thing at a time.
LEMMA NamesDistinct ==
    /\ Calibration \notin Paths /\ Scanless \notin Paths /\ Broken \notin Paths
    /\ NoClient \notin Paths /\ NoPoints \notin Paths
    /\ Calibration # Broken /\ Calibration # NoClient /\ Calibration # NoPoints
    /\ Scanless # Calibration /\ Scanless # Broken /\ Scanless # NoClient /\ Scanless # NoPoints
    /\ NoClient # NoPoints /\ Broken # NoClient
  <1> DEFINE Names == {Calibration, Scanless, Broken, NoClient, NoPoints}
  <1>0. Cardinality(Names) = 5
    BY PathsAssumption
  <1>1. /\ {Calibration, Broken, Scanless, NoClient, NoPoints} = Names
        /\ {Calibration, NoClient, Scanless, Broken, NoPoints} = Names
        /\ {Calibration, NoPoints, Scanless, Broken, NoClient} = Names
        /\ {Scanless, Calibration, Broken, NoClient, NoPoints} = Names
        /\ {Scanless, Broken, Calibration, NoClient, NoPoints} = Names
        /\ {Scanless, NoClient, Calibration, Broken, NoPoints} = Names
        /\ {Scanless, NoPoints, Calibration, Broken, NoClient} = Names
        /\ {NoClient, NoPoints, Calibration, Broken, Scanless} = Names
        /\ {Broken, NoClient, Calibration, NoPoints, Scanless} = Names
    OBVIOUS
  <1>2. Calibration # Broken
    <2>1. Cardinality({Calibration, Broken, Scanless, NoClient, NoPoints}) = 5
      BY <1>0, <1>1
    <2> QED
      BY <2>1, FiveDistinct
  <1>3. Calibration # NoClient
    <2>1. Cardinality({Calibration, NoClient, Scanless, Broken, NoPoints}) = 5
      BY <1>0, <1>1
    <2> QED
      BY <2>1, FiveDistinct
  <1>4. Calibration # NoPoints
    <2>1. Cardinality({Calibration, NoPoints, Scanless, Broken, NoClient}) = 5
      BY <1>0, <1>1
    <2> QED
      BY <2>1, FiveDistinct
  <1>5. Scanless # Calibration
    <2>1. Cardinality({Scanless, Calibration, Broken, NoClient, NoPoints}) = 5
      BY <1>0, <1>1
    <2> QED
      BY <2>1, FiveDistinct
  <1>6. Scanless # Broken
    <2>1. Cardinality({Scanless, Broken, Calibration, NoClient, NoPoints}) = 5
      BY <1>0, <1>1
    <2> QED
      BY <2>1, FiveDistinct
  <1>7. Scanless # NoClient
    <2>1. Cardinality({Scanless, NoClient, Calibration, Broken, NoPoints}) = 5
      BY <1>0, <1>1
    <2> QED
      BY <2>1, FiveDistinct
  <1>8. Scanless # NoPoints
    <2>1. Cardinality({Scanless, NoPoints, Calibration, Broken, NoClient}) = 5
      BY <1>0, <1>1
    <2> QED
      BY <2>1, FiveDistinct
  <1>9. NoClient # NoPoints
    <2>1. Cardinality({NoClient, NoPoints, Calibration, Broken, Scanless}) = 5
      BY <1>0, <1>1
    <2> QED
      BY <2>1, FiveDistinct
  <1>10. Broken # NoClient
    <2>1. Cardinality({Broken, NoClient, Calibration, NoPoints, Scanless}) = 5
      BY <1>0, <1>1
    <2> QED
      BY <2>1, FiveDistinct
  <1> QED
    BY <1>10, <1>2, <1>3, <1>4, <1>5, <1>6, <1>7, <1>8, <1>9, PathsAssumption

\* A request that begins leaves the trajectory to its owner.
LEMMA CalibrationCallerBegins ==
    ASSUME IInv, OpInv, CalibrationInv, SnapshotInv, ClientInv, NEW c \in Callers, CallerBegins(c)
    PROVE  CalibrationInv'
  <1> USE DEF CalibrationInv, SnapshotInv, Validated, StartsCalibration, KeepsSnapshot,
    KeepsPoints, pathVars
  <1>t. CallsOK /\ WorksOK /\ PathTypeOK
    BY IInvTypes
  <1>r. RunInv
    BY DEF IInv
  <1>s. StateTellsRun
    BY DEF IInv
  <1>1. ASSUME NEW op \in Ops, StartAcquires(c, op) PROVE CalibrationInv'
    BY <1>t, <1>r, NamesDistinct, ThreadsAssumption, <1>1 DEF StartAcquires, Enter, CallsOK,
      WorksOK, CallType, WorkType, PathTypeOK, RunInv, OpInv, CallOps, WorkOps, Starting, NoCall,
      NoWork
  <1>2. CASE ContinueChecks(c)
    BY <1>t, <1>r, NamesDistinct, ThreadsAssumption, <1>2 DEF ContinueChecks, Enter, CallsOK,
      WorksOK, CallType, WorkType, PathTypeOK, RunInv, OpInv, CallOps, WorkOps, Starting, NoCall,
      NoWork
  <1>3. CASE StopMarks(c)
    <2>1. CASE Enter(c, "stop", "setAbort")
      BY <1>t, <1>r, NamesDistinct, ThreadsAssumption, <1>3, <2>1 DEF StopMarks, Enter, CallsOK,
        WorksOK, CallType, WorkType, PathTypeOK, RunInv, OpInv, CallOps, WorkOps, Starting, NoCall,
        NoWork
    <2>2. CASE call[c].at = "stopFirst" /\ Goto(c, "setAbort")
      BY <1>t, <1>r, NamesDistinct, ThreadsAssumption, <1>3, <2>2 DEF StopMarks, Goto, CallsOK,
        WorksOK, CallType, WorkType, PathTypeOK, RunInv, OpInv, CallOps, WorkOps, Starting, NoCall,
        NoWork
    <2>3. CASE call[c].at = "stopFirst" /\ Goto(c, "restart")
      BY <1>t, <1>r, NamesDistinct, ThreadsAssumption, <1>3, <2>3 DEF StopMarks, Goto, CallsOK,
        WorksOK, CallType, WorkType, PathTypeOK, RunInv, OpInv, CallOps, WorkOps, Starting, NoCall,
        NoWork
    <2> QED
      BY <1>3, <2>1, <2>2, <2>3 DEF StopMarks
  <1>4. CASE ReloadChecks(c)
    BY <1>t, <1>r, NamesDistinct, ThreadsAssumption, <1>4 DEF ReloadChecks, Enter, CallsOK,
      WorksOK, CallType, WorkType, PathTypeOK, RunInv, OpInv, CallOps, WorkOps, Starting, NoCall,
      NoWork
  <1>5. CASE SelectChecks(c)
    BY <1>t, <1>r, NamesDistinct, ThreadsAssumption, <1>5 DEF SelectChecks, Enter, CallsOK,
      WorksOK, CallType, WorkType, PathTypeOK, RunInv, OpInv, CallOps, WorkOps, Starting, NoCall,
      NoWork
  <1>6. CASE JogChecks(c)
    BY <1>t, <1>r, NamesDistinct, ThreadsAssumption, <1>6 DEF JogChecks, Enter, CallsOK, WorksOK,
      CallType, WorkType, PathTypeOK, RunInv, OpInv, CallOps, WorkOps, Starting, NoCall, NoWork
  <1>7. ASSUME NEW p \in Paths, SettingsReload(c, p) PROVE CalibrationInv'
    BY <1>t, <1>r, NamesDistinct, ThreadsAssumption, <1>7 DEF SettingsReload, CallsOK, WorksOK,
      CallType, WorkType, PathTypeOK, RunInv, OpInv, CallOps, WorkOps, Starting, NoCall, NoWork
  <1> QED
    BY <1>1, <1>2, <1>3, <1>4, <1>5, <1>6, <1>7 DEF CallerBegins, Start

\* A request that begins leaves the trajectory to its owner.
LEMMA SnapshotCallerBegins ==
    ASSUME IInv, OpInv, CalibrationInv, SnapshotInv, ClientInv, NEW c \in Callers, CallerBegins(c)
    PROVE  SnapshotInv'
  <1> USE DEF SnapshotInv, CalibrationInv, StartsCalibration, KeepsSnapshot, KeepsPoints,
    Validated, Driving, Driven, pathVars
  <1>t. CallsOK /\ WorksOK /\ PathTypeOK
    BY IInvTypes
  <1>r. RunInv
    BY DEF IInv
  <1>s. StateTellsRun
    BY DEF IInv
  <1>1. ASSUME NEW op \in Ops, StartAcquires(c, op) PROVE SnapshotInv'
    BY <1>t, <1>r, NamesDistinct, ThreadsAssumption, <1>1 DEF StartAcquires, Enter, CallsOK,
      WorksOK, CallType, WorkType, PathTypeOK, RunInv, OpInv, CallOps, WorkOps, Starting, NoCall,
      NoWork
  <1>2. CASE ContinueChecks(c)
    BY <1>t, <1>r, NamesDistinct, ThreadsAssumption, <1>2 DEF ContinueChecks, Enter, CallsOK,
      WorksOK, CallType, WorkType, PathTypeOK, RunInv, OpInv, CallOps, WorkOps, Starting, NoCall,
      NoWork
  <1>3. CASE StopMarks(c)
    <2>1. CASE Enter(c, "stop", "setAbort")
      BY <1>t, <1>r, NamesDistinct, ThreadsAssumption, <1>3, <2>1 DEF StopMarks, Enter, CallsOK,
        WorksOK, CallType, WorkType, PathTypeOK, RunInv, OpInv, CallOps, WorkOps, Starting, NoCall,
        NoWork
    <2>2. CASE call[c].at = "stopFirst" /\ Goto(c, "setAbort")
      BY <1>t, <1>r, NamesDistinct, ThreadsAssumption, <1>3, <2>2 DEF StopMarks, Goto, CallsOK,
        WorksOK, CallType, WorkType, PathTypeOK, RunInv, OpInv, CallOps, WorkOps, Starting, NoCall,
        NoWork
    <2>3. CASE call[c].at = "stopFirst" /\ Goto(c, "restart")
      BY <1>t, <1>r, NamesDistinct, ThreadsAssumption, <1>3, <2>3 DEF StopMarks, Goto, CallsOK,
        WorksOK, CallType, WorkType, PathTypeOK, RunInv, OpInv, CallOps, WorkOps, Starting, NoCall,
        NoWork
    <2> QED
      BY <1>3, <2>1, <2>2, <2>3 DEF StopMarks
  <1>4. CASE ReloadChecks(c)
    BY <1>t, <1>r, NamesDistinct, ThreadsAssumption, <1>4 DEF ReloadChecks, Enter, CallsOK,
      WorksOK, CallType, WorkType, PathTypeOK, RunInv, OpInv, CallOps, WorkOps, Starting, NoCall,
      NoWork
  <1>5. CASE SelectChecks(c)
    BY <1>t, <1>r, NamesDistinct, ThreadsAssumption, <1>5 DEF SelectChecks, Enter, CallsOK,
      WorksOK, CallType, WorkType, PathTypeOK, RunInv, OpInv, CallOps, WorkOps, Starting, NoCall,
      NoWork
  <1>6. CASE JogChecks(c)
    BY <1>t, <1>r, NamesDistinct, ThreadsAssumption, <1>6 DEF JogChecks, Enter, CallsOK, WorksOK,
      CallType, WorkType, PathTypeOK, RunInv, OpInv, CallOps, WorkOps, Starting, NoCall, NoWork
  <1>7. ASSUME NEW p \in Paths, SettingsReload(c, p) PROVE SnapshotInv'
    BY <1>t, <1>r, NamesDistinct, ThreadsAssumption, <1>7 DEF SettingsReload, CallsOK, WorksOK,
      CallType, WorkType, PathTypeOK, RunInv, OpInv, CallOps, WorkOps, Starting, NoCall, NoWork
  <1> QED
    BY <1>1, <1>2, <1>3, <1>4, <1>5, <1>6, <1>7 DEF CallerBegins, Start

\* A start loads the calibration trajectory for its own run only.
LEMMA CalibrationStartProceeds ==
    ASSUME IInv, OpInv, CalibrationInv, SnapshotInv, ClientInv, NEW c \in Callers, StartProceeds(c)
    PROVE  CalibrationInv'
  <1> USE DEF CalibrationInv, SnapshotInv, Validated, StartsCalibration, KeepsSnapshot,
    KeepsPoints, pathVars
  <1>t. CallsOK /\ WorksOK /\ PathTypeOK
    BY IInvTypes
  <1>r. RunInv
    BY DEF IInv
  <1>s. StateTellsRun
    BY DEF IInv
  <1>1. CASE ContinueAcquires(c)
    BY <1>t, <1>r, NamesDistinct, ThreadsAssumption, <1>1 DEF ContinueAcquires, Goto, Return,
      CallsOK, WorksOK, CallType, WorkType, PathTypeOK, RunInv, OpInv, CallOps, WorkOps, Starting,
      NoCall, NoWork
  <1>2. CASE StartValidates(c)
    BY <1>t, <1>r, NamesDistinct, ThreadsAssumption, <1>2 DEF StartValidates, Goto, CallsOK,
      WorksOK, CallType, WorkType, PathTypeOK, RunInv, OpInv, CallOps, WorkOps, Starting, NoCall,
      NoWork
  <1>3. CASE StartRefused(c) \/ StartHasNoScan(c)
    BY <1>t, <1>r, NamesDistinct, ThreadsAssumption, <1>3 DEF StartRefused, StartHasNoScan,
      Return, Raises,
      CallsOK, WorksOK, CallType, WorkType, PathTypeOK, RunInv, OpInv, CallOps, WorkOps, Starting,
      NoCall, NoWork
  <1>4. CASE ResumeReads(c)
    BY <1>t, <1>r, NamesDistinct, ThreadsAssumption, <1>4 DEF ResumeReads, Return, Raises, CallsOK,
      WorksOK, CallType, WorkType, PathTypeOK, RunInv, OpInv, CallOps, WorkOps, Starting, NoCall,
      NoWork
  <1>5. CASE ResumeEnsures(c)
    BY <1>t, <1>r, NamesDistinct, ThreadsAssumption, <1>5 DEF ResumeEnsures, Goto, CallsOK,
      WorksOK, CallType, WorkType, PathTypeOK, RunInv, OpInv, CallOps, WorkOps, Starting, NoCall,
      NoWork
  <1>6. CASE EnsureFails(c)
    BY <1>t, <1>r, NamesDistinct, ThreadsAssumption, <1>6 DEF EnsureFails, Return, Raises, CallsOK,
      WorksOK, CallType, WorkType, PathTypeOK, RunInv, OpInv, CallOps, WorkOps, Starting, NoCall,
      NoWork
  <1>7. CASE EnsureRefused(c)
    BY <1>t, <1>r, NamesDistinct, ThreadsAssumption, <1>7 DEF EnsureRefused, Return, CallsOK,
      WorksOK, CallType, WorkType, PathTypeOK, RunInv, OpInv, CallOps, WorkOps, Starting, NoCall,
      NoWork
  <1>8. CASE CalibrationLoads(c)
    BY <1>t, <1>r, NamesDistinct, ThreadsAssumption, <1>8 DEF CalibrationLoads, Goto, CallsOK,
      WorksOK, CallType, WorkType, PathTypeOK, RunInv, OpInv, CallOps, WorkOps, Starting, NoCall,
      NoWork
  <1>9. CASE CalibrationLoadFails(c) \/ CalibrationHasNoScan(c)
    <2>1. CASE CalibrationLoadFails(c)
      BY <1>t, <1>r, NamesDistinct, ThreadsAssumption, <2>1 DEF CalibrationLoadFails, Return,
        Raises, CallsOK, WorksOK, CallType, WorkType, PathTypeOK, RunInv, OpInv, CallOps, WorkOps,
        Starting, NoCall, NoWork
    <2>2. CASE CalibrationHasNoScan(c)
      BY <1>t, <1>r, NamesDistinct, ThreadsAssumption, <2>2 DEF CalibrationHasNoScan,
        PointsFromSnapshot, Return, Raises, CallsOK, WorksOK, CallType, WorkType, PathTypeOK,
        RunInv, OpInv, CallOps, WorkOps, Starting, NoCall, NoWork
    <2> QED
      BY <1>9, <2>1, <2>2
  <1>10. CASE CalibrationSetsPoints(c)
    BY <1>t, <1>r, NamesDistinct, ThreadsAssumption, <1>10 DEF CalibrationSetsPoints,
      PointsFromSnapshot, Goto,
      CallsOK, WorksOK, CallType, WorkType, PathTypeOK, RunInv, OpInv, CallOps, WorkOps, Starting,
      NoCall, NoWork
  <1>11. CASE StartClearsAbort(c)
    BY <1>t, <1>r, NamesDistinct, ThreadsAssumption, <1>11 DEF StartClearsAbort, Goto, CallsOK,
      WorksOK, CallType, WorkType, PathTypeOK, RunInv, OpInv, CallOps, WorkOps, Starting, NoCall,
      NoWork
  <1>12. CASE StartClearsMotion(c)
    BY <1>t, <1>r, NamesDistinct, ThreadsAssumption, <1>12 DEF StartClearsMotion, Goto, CallsOK,
      WorksOK, CallType, WorkType, PathTypeOK, RunInv, OpInv, CallOps, WorkOps, Starting, NoCall,
      NoWork
  <1>13. CASE StartRuns(c)
    BY <1>t, <1>r, NamesDistinct, ThreadsAssumption, <1>13 DEF StartRuns, Goto, CallsOK, WorksOK,
      CallType, WorkType, PathTypeOK, RunInv, OpInv, CallOps, WorkOps, Starting, NoCall, NoWork
  <1>14. ASSUME NEW w \in Workers, StartSpawns(c, w) PROVE CalibrationInv'
    BY <1>t, <1>r, NamesDistinct, ThreadsAssumption, <1>14 DEF StartSpawns, Return, CallsOK,
      WorksOK, CallType, WorkType, PathTypeOK, RunInv, OpInv, CallOps, WorkOps, Starting, NoCall,
      NoWork
  <1> QED
    BY <1>1, <1>2, <1>3, <1>4, <1>5, <1>6, <1>7, <1>8, <1>9, <1>10, <1>11, <1>12, <1>13, <1>14 DEF
      StartProceeds

\* A start loads the calibration trajectory for its own run only.
LEMMA SnapshotStartProceeds ==
    ASSUME IInv, OpInv, CalibrationInv, SnapshotInv, ClientInv, NEW c \in Callers, StartProceeds(c)
    PROVE  SnapshotInv'
  <1> USE DEF SnapshotInv, CalibrationInv, StartsCalibration, KeepsSnapshot, KeepsPoints,
    Validated, Driving, Driven, pathVars
  <1>t. CallsOK /\ WorksOK /\ PathTypeOK
    BY IInvTypes
  <1>r. RunInv
    BY DEF IInv
  <1>s. StateTellsRun
    BY DEF IInv
  <1>1. CASE ContinueAcquires(c)
    BY <1>t, <1>r, NamesDistinct, ThreadsAssumption, <1>1 DEF ContinueAcquires, Goto, Return,
      CallsOK, WorksOK, CallType, WorkType, PathTypeOK, RunInv, OpInv, CallOps, WorkOps, Starting,
      NoCall, NoWork
  <1>2. CASE StartValidates(c)
    <2>1. call[c].op # "calibration" => loaded # Broken
      BY <1>2, <1>t DEF StartValidates, Ready
    <2> QED
      BY <2>1, <1>t, <1>r, <1>2, NamesDistinct
      DEF StartValidates, Goto, CallsOK, WorksOK, CallType, WorkType, PathTypeOK,
          RunInv, Starting
  <1>3. CASE StartRefused(c) \/ StartHasNoScan(c)
    BY <1>t, <1>r, NamesDistinct, ThreadsAssumption, <1>3 DEF StartRefused, StartHasNoScan,
      Return, Raises,
      CallsOK, WorksOK, CallType, WorkType, PathTypeOK, RunInv, OpInv, CallOps, WorkOps, Starting,
      NoCall, NoWork
  <1>4. CASE ResumeReads(c)
    BY <1>t, <1>r, NamesDistinct, ThreadsAssumption, <1>4 DEF ResumeReads, Return, Raises, CallsOK,
      WorksOK, CallType, WorkType, PathTypeOK, RunInv, OpInv, CallOps, WorkOps, Starting, NoCall,
      NoWork
  <1>5. CASE ResumeEnsures(c)
    BY <1>t, <1>r, NamesDistinct, ThreadsAssumption, <1>5 DEF ResumeEnsures, Goto, CallsOK,
      WorksOK, CallType, WorkType, PathTypeOK, RunInv, OpInv, CallOps, WorkOps, Starting, NoCall,
      NoWork
  <1>6. CASE EnsureFails(c)
    BY <1>t, <1>r, NamesDistinct, ThreadsAssumption, <1>6 DEF EnsureFails, Return, Raises, CallsOK,
      WorksOK, CallType, WorkType, PathTypeOK, RunInv, OpInv, CallOps, WorkOps, Starting, NoCall,
      NoWork
  <1>7. CASE EnsureRefused(c)
    BY <1>t, <1>r, NamesDistinct, ThreadsAssumption, <1>7 DEF EnsureRefused, Return, CallsOK,
      WorksOK, CallType, WorkType, PathTypeOK, RunInv, OpInv, CallOps, WorkOps, Starting, NoCall,
      NoWork
  <1>8. CASE CalibrationLoads(c)
    BY <1>t, <1>r, NamesDistinct, ThreadsAssumption, <1>8 DEF CalibrationLoads, Goto, CallsOK,
      WorksOK, CallType, WorkType, PathTypeOK, RunInv, OpInv, CallOps, WorkOps, Starting, NoCall,
      NoWork
  <1>9. CASE CalibrationLoadFails(c) \/ CalibrationHasNoScan(c)
    BY <1>t, <1>r, NamesDistinct, ThreadsAssumption, <1>9 DEF CalibrationLoadFails,
      CalibrationHasNoScan, PointsFromSnapshot, Return, Raises,
      CallsOK, WorksOK, CallType, WorkType, PathTypeOK, RunInv, OpInv, CallOps, WorkOps, Starting,
      NoCall, NoWork
  <1>10. CASE CalibrationSetsPoints(c)
    BY <1>t, <1>r, NamesDistinct, ThreadsAssumption, <1>10 DEF CalibrationSetsPoints,
      PointsFromSnapshot, Goto,
      CallsOK, WorksOK, CallType, WorkType, PathTypeOK, RunInv, OpInv, CallOps, WorkOps, Starting,
      NoCall, NoWork
  <1>11. CASE StartClearsAbort(c)
    BY <1>t, <1>r, NamesDistinct, ThreadsAssumption, <1>11 DEF StartClearsAbort, Goto, CallsOK,
      WorksOK, CallType, WorkType, PathTypeOK, RunInv, OpInv, CallOps, WorkOps, Starting, NoCall,
      NoWork
  <1>12. CASE StartClearsMotion(c)
    BY <1>t, <1>r, NamesDistinct, ThreadsAssumption, <1>12 DEF StartClearsMotion, Goto, CallsOK,
      WorksOK, CallType, WorkType, PathTypeOK, RunInv, OpInv, CallOps, WorkOps, Starting, NoCall,
      NoWork
  <1>13. CASE StartRuns(c)
    BY <1>t, <1>r, NamesDistinct, ThreadsAssumption, <1>13 DEF StartRuns, Goto, CallsOK, WorksOK,
      CallType, WorkType, PathTypeOK, RunInv, OpInv, CallOps, WorkOps, Starting, NoCall, NoWork
  <1>14. ASSUME NEW w \in Workers, StartSpawns(c, w) PROVE SnapshotInv'
    BY <1>t, <1>r, NamesDistinct, ThreadsAssumption, <1>14 DEF StartSpawns, Return, CallsOK,
      WorksOK, CallType, WorkType, PathTypeOK, RunInv, OpInv, CallOps, WorkOps, Starting, NoCall,
      NoWork
  <1> QED
    BY <1>1, <1>2, <1>3, <1>4, <1>5, <1>6, <1>7, <1>8, <1>9, <1>10, <1>11, <1>12, <1>13, <1>14 DEF
      StartProceeds

\* A stop changes no trajectory.
LEMMA CalibrationStopProceeds ==
    ASSUME IInv, OpInv, CalibrationInv, SnapshotInv, ClientInv, NEW c \in Callers, StopProceeds(c)
    PROVE  CalibrationInv'
  <1> USE DEF CalibrationInv, SnapshotInv, Validated, StartsCalibration, KeepsSnapshot,
    KeepsPoints, pathVars
  <1>t. CallsOK /\ WorksOK /\ PathTypeOK
    BY IInvTypes
  <1>r. RunInv
    BY DEF IInv
  <1>s. StateTellsRun
    BY DEF IInv
  <1> QED
    BY <1>t, <1>r, NamesDistinct, ThreadsAssumption DEF StopMarks, Enter, CallsOK, WorksOK,
      CallType, WorkType, PathTypeOK, RunInv, OpInv, CallOps, WorkOps, Starting, NoCall, NoWork,
      Goto, StopSetsAbort, StopCancelsMotion, StopJoins, Return, ReloadRestarts, ReloadForgets,
      Forget, StopProceeds

\* A stop changes no trajectory.
LEMMA SnapshotStopProceeds ==
    ASSUME IInv, OpInv, CalibrationInv, SnapshotInv, ClientInv, NEW c \in Callers, StopProceeds(c)
    PROVE  SnapshotInv'
  <1> USE DEF SnapshotInv, CalibrationInv, StartsCalibration, KeepsSnapshot, KeepsPoints,
    Validated, Driving, Driven, pathVars
  <1>t. CallsOK /\ WorksOK /\ PathTypeOK
    BY IInvTypes
  <1>r. RunInv
    BY DEF IInv
  <1>s. StateTellsRun
    BY DEF IInv
  <1> QED
    BY <1>t, <1>r, NamesDistinct, ThreadsAssumption DEF StopMarks, Enter, CallsOK, WorksOK,
      CallType, WorkType, PathTypeOK, RunInv, OpInv, CallOps, WorkOps, Starting, NoCall, NoWork,
      Goto, StopSetsAbort, StopCancelsMotion, StopJoins, Return, ReloadRestarts, ReloadForgets,
      Forget, StopProceeds

\* A request sets the snapshot and the points to what is loaded.
LEMMA CalibrationPathProceeds ==
    ASSUME IInv, OpInv, CalibrationInv, SnapshotInv, ClientInv, NEW c \in Callers, PathProceeds(c)
    PROVE  CalibrationInv'
  <1> USE DEF CalibrationInv, SnapshotInv, Validated, StartsCalibration, KeepsSnapshot,
    KeepsPoints, pathVars
  <1>t. CallsOK /\ WorksOK /\ PathTypeOK
    BY IInvTypes
  <1>r. RunInv
    BY DEF IInv
  <1>s. StateTellsRun
    BY DEF IInv
  <1> QED
    BY <1>t, <1>r, NamesDistinct, ThreadsAssumption DEF SelectReloads, Goto, CallsOK, WorksOK,
      CallType, WorkType, PathTypeOK, RunInv, OpInv, CallOps, WorkOps, Starting, NoCall, NoWork,
      PathChecks, Return, PathSets, PointsFromSnapshot, JogEnsuresClient, JogClearsMotion, JogEnds,
      PathProceeds

\* A request sets the snapshot and the points to what is loaded.
LEMMA SnapshotPathProceeds ==
    ASSUME IInv, OpInv, CalibrationInv, SnapshotInv, ClientInv, NEW c \in Callers, PathProceeds(c)
    PROVE  SnapshotInv'
  <1> USE DEF SnapshotInv, CalibrationInv, StartsCalibration, KeepsSnapshot, KeepsPoints,
    Validated, Driving, Driven, pathVars
  <1>t. CallsOK /\ WorksOK /\ PathTypeOK
    BY IInvTypes
  <1>r. RunInv
    BY DEF IInv
  <1>s. StateTellsRun
    BY DEF IInv
  <1> QED
    BY <1>t, <1>r, NamesDistinct, ThreadsAssumption DEF SelectReloads, Goto, CallsOK, WorksOK,
      CallType, WorkType, PathTypeOK, RunInv, OpInv, CallOps, WorkOps, Starting, NoCall, NoWork,
      PathChecks, Return, PathSets, PointsFromSnapshot, JogEnsuresClient, JogClearsMotion, JogEnds,
      PathProceeds

\* The steps of a lap.
LEMMA CalibrationLap ==
    ASSUME IInv, OpInv, CalibrationInv, SnapshotInv, ClientInv, NEW w \in Workers, Lap(w)
    PROVE  CalibrationInv'
  <1> USE DEF CalibrationInv, SnapshotInv, Validated, StartsCalibration, KeepsSnapshot,
    KeepsPoints, pathVars
  <1>t. CallsOK /\ WorksOK /\ PathTypeOK
    BY IInvTypes
  <1>r. RunInv
    BY DEF IInv
  <1>s. StateTellsRun
    BY DEF IInv
  <1>1. CASE LapBegins(w)
    BY <1>t, <1>r, NamesDistinct, ThreadsAssumption, <1>1 DEF LapBegins, WorkGoto, CallsOK,
      WorksOK, CallType, WorkType, PathTypeOK, RunInv, OpInv, CallOps, WorkOps, Starting, NoCall,
      NoWork
  <1>2. CASE WorkerCreates(w)
    BY <1>t, <1>r, NamesDistinct, ThreadsAssumption, <1>2 DEF WorkerCreates, WorkGoto, NewProject,
      CallsOK, WorksOK, CallType, WorkType, PathTypeOK, RunInv, OpInv, CallOps, WorkOps, Starting,
      NoCall, NoWork
  <1>3. CASE LapReads(w)
    BY <1>t, <1>r, NamesDistinct, ThreadsAssumption, <1>3 DEF LapReads, CallsOK, WorksOK, CallType,
      WorkType, PathTypeOK, RunInv, OpInv, CallOps, WorkOps, Starting, NoCall, NoWork
  <1>4. CASE CalibrationEnters(w)
    BY <1>t, <1>r, NamesDistinct, ThreadsAssumption, <1>4 DEF CalibrationEnters, WorkGoto, CallsOK,
      WorksOK, CallType, WorkType, PathTypeOK, RunInv, OpInv, CallOps, WorkOps, Starting, NoCall,
      NoWork
  <1>5. CASE RunCannotBegin(w)
    BY <1>t, <1>r, NamesDistinct, ThreadsAssumption, <1>5 DEF RunCannotBegin, WorkGoto, Raise,
      CallsOK, WorksOK, CallType, WorkType, PathTypeOK, RunInv, OpInv, CallOps, WorkOps, Starting,
      NoCall, NoWork
  <1>6. CASE RunBegins(w)
    BY <1>t, <1>r, NamesDistinct, ThreadsAssumption, <1>6 DEF RunBegins, CallsOK, WorksOK,
      CallType, WorkType, PathTypeOK, RunInv, OpInv, CallOps, WorkOps, Starting, NoCall, NoWork
  <1>7. CASE OnStep(w)
    BY <1>t, <1>r, NamesDistinct, ThreadsAssumption, <1>7 DEF OnStep, WorkGoto, CallsOK, WorksOK,
      CallType, WorkType, PathTypeOK, RunInv, OpInv, CallOps, WorkOps, Starting, NoCall, NoWork
  <1>8. CASE RunEnds(w)
    BY <1>t, <1>r, NamesDistinct, ThreadsAssumption, <1>8 DEF RunEnds, WorkGoto, CallsOK, WorksOK,
      CallType, WorkType, PathTypeOK, RunInv, OpInv, CallOps, WorkOps, Starting, NoCall, NoWork
  <1>9. CASE RunRepeats(w)
    BY <1>t, <1>r, NamesDistinct, ThreadsAssumption, <1>9 DEF RunRepeats, WorkGoto, CallsOK,
      WorksOK, CallType, WorkType, PathTypeOK, RunInv, OpInv, CallOps, WorkOps, Starting, NoCall,
      NoWork
  <1>10. CASE NextLapCreates(w)
    BY <1>t, <1>r, NamesDistinct, ThreadsAssumption, <1>10 DEF NextLapCreates, WorkGoto,
      NewProject, CallsOK, WorksOK, CallType, WorkType, PathTypeOK, RunInv, OpInv, CallOps,
      WorkOps, Starting, NoCall, NoWork
  <1>11. CASE NextLapSetsPoints(w)
    BY <1>t, <1>r, NamesDistinct, ThreadsAssumption, <1>11 DEF NextLapSetsPoints, WorkGoto,
      PointsFromSnapshot, CallsOK, WorksOK, CallType, WorkType, PathTypeOK, RunInv, OpInv, CallOps,
      WorkOps, Starting, NoCall, NoWork
  <1> QED
    BY <1>1, <1>2, <1>3, <1>4, <1>5, <1>6, <1>7, <1>8, <1>9, <1>10, <1>11 DEF Lap

\* The steps of a lap.
LEMMA SnapshotLap ==
    ASSUME IInv, OpInv, CalibrationInv, SnapshotInv, ClientInv,
           RunMode = "single_last_scan" => LapInv, NEW w \in Workers, Lap(w)
    PROVE  SnapshotInv'
  <1> USE DEF SnapshotInv, CalibrationInv, StartsCalibration, KeepsSnapshot, KeepsPoints,
    Validated, Driving, Driven, pathVars
  <1>t. CallsOK /\ WorksOK /\ PathTypeOK
    BY IInvTypes
  <1>r. RunInv
    BY DEF IInv
  <1>s. StateTellsRun
    BY DEF IInv
  <1>1. CASE LapBegins(w)
    BY <1>t, <1>r, NamesDistinct, ThreadsAssumption, <1>1 DEF LapBegins, WorkGoto, CallsOK,
      WorksOK, CallType, WorkType, PathTypeOK, RunInv, OpInv, CallOps, WorkOps, Starting, NoCall,
      NoWork
  <1>2. CASE WorkerCreates(w)
    BY <1>t, <1>r, NamesDistinct, ThreadsAssumption, <1>2 DEF WorkerCreates, WorkGoto, NewProject,
      CallsOK, WorksOK, CallType, WorkType, PathTypeOK, RunInv, OpInv, CallOps, WorkOps, Starting,
      NoCall, NoWork
  <1>3. CASE LapReads(w)
    BY <1>t, <1>r, NamesDistinct, ThreadsAssumption, <1>3 DEF LapReads, CallsOK, WorksOK, CallType,
      WorkType, PathTypeOK, RunInv, OpInv, CallOps, WorkOps, Starting, NoCall, NoWork
  <1>4. CASE CalibrationEnters(w)
    BY <1>t, <1>r, NamesDistinct, ThreadsAssumption, <1>4 DEF CalibrationEnters, WorkGoto, CallsOK,
      WorksOK, CallType, WorkType, PathTypeOK, RunInv, OpInv, CallOps, WorkOps, Starting, NoCall,
      NoWork
  <1>5. CASE RunCannotBegin(w)
    BY <1>t, <1>r, NamesDistinct, ThreadsAssumption, <1>5 DEF RunCannotBegin, WorkGoto, Raise,
      CallsOK, WorksOK, CallType, WorkType, PathTypeOK, RunInv, OpInv, CallOps, WorkOps, Starting,
      NoCall, NoWork
  <1>6. CASE RunBegins(w)
    <2>1. work[w].at = "first" /\ points \notin {NoPoints, Scanless} /\ UNCHANGED <<pathVars, call>>
      BY <1>6 DEF RunBegins
    <2>2. /\ \A v \in Workers : v # w => work'[v] = work[v] /\ work[v].at = "dead"
          /\ work'[w].op = work[w].op /\ work'[w].path = work[w].path
          /\ work'[w].at = IF StopsAtLastScan(w) /\ resumeStart = End THEN "home" ELSE "loop"
      BY <1>t, <1>r, <1>6 DEF RunBegins, WorksOK, WorkType, RunInv
    <2>3. CASE work[w].op = "calibration"
      BY <2>1, <2>2, <2>3
    <2>4. CASE work[w].op # "calibration"
      <3>1. \A c \in Callers : call[c].at \notin Starting
        BY <1>r, <2>1 DEF RunInv
      <3>2. loaded \in Paths
        BY <2>1, <2>4, <3>1 DEF ClientInv, Starting
      <3>3. points \in Paths
        BY <1>t, <2>1, <2>2, <2>4, <3>1, NamesDistinct DEF PathTypeOK, Trajectories, Starting
      <3>4. work'[w].at = "loop"
        BY <2>1, <2>2, <2>4 DEF LapInv, MayResume, StopsAtLastScan
      <3> QED
        BY <2>1, <2>2, <3>1, <3>2, <3>3, <3>4 DEF Starting
    <2> QED
      BY <2>3, <2>4
  <1>7. CASE OnStep(w)
    BY <1>t, <1>r, NamesDistinct, ThreadsAssumption, <1>7 DEF OnStep, WorkGoto, CallsOK, WorksOK,
      CallType, WorkType, PathTypeOK, RunInv, OpInv, CallOps, WorkOps, Starting, NoCall, NoWork
  <1>8. CASE RunEnds(w)
    BY <1>t, <1>r, NamesDistinct, ThreadsAssumption, <1>8 DEF RunEnds, WorkGoto, CallsOK, WorksOK,
      CallType, WorkType, PathTypeOK, RunInv, OpInv, CallOps, WorkOps, Starting, NoCall, NoWork
  <1>9. CASE RunRepeats(w)
    BY <1>t, <1>r, NamesDistinct, ThreadsAssumption, <1>9 DEF RunRepeats, WorkGoto, CallsOK,
      WorksOK, CallType, WorkType, PathTypeOK, RunInv, OpInv, CallOps, WorkOps, Starting, NoCall,
      NoWork
  <1>10. CASE NextLapCreates(w)
    BY <1>t, <1>r, NamesDistinct, ThreadsAssumption, <1>10 DEF NextLapCreates, WorkGoto,
      NewProject, CallsOK, WorksOK, CallType, WorkType, PathTypeOK, RunInv, OpInv, CallOps,
      WorkOps, Starting, NoCall, NoWork
  <1>11. CASE NextLapSetsPoints(w)
    BY <1>t, <1>r, NamesDistinct, ThreadsAssumption, <1>11 DEF NextLapSetsPoints, WorkGoto,
      PointsFromSnapshot, CallsOK, WorksOK, CallType, WorkType, PathTypeOK, RunInv, OpInv, CallOps,
      WorkOps, Starting, NoCall, NoWork
  <1> QED
    BY <1>1, <1>2, <1>3, <1>4, <1>5, <1>6, <1>7, <1>8, <1>9, <1>10, <1>11 DEF Lap

\* The steps of the machine.
LEMMA CalibrationMachine ==
    ASSUME IInv, OpInv, CalibrationInv, SnapshotInv, ClientInv, NEW w \in Workers, Machine(w)
    PROVE  CalibrationInv'
  <1> USE DEF CalibrationInv, SnapshotInv, Validated, StartsCalibration, KeepsSnapshot,
    KeepsPoints, pathVars
  <1>t. CallsOK /\ WorksOK /\ PathTypeOK
    BY IInvTypes
  <1>r. RunInv
    BY DEF IInv
  <1>s. StateTellsRun
    BY DEF IInv
  <1>1. CASE WorkerTravels(w)
    BY <1>t, <1>r, NamesDistinct, ThreadsAssumption, <1>1 DEF WorkerTravels, WorkGoto, CallsOK,
      WorksOK, CallType, WorkType, PathTypeOK, RunInv, OpInv, CallOps, WorkOps, Starting, NoCall,
      NoWork
  <1>2. CASE WorkerMoves(w)
    BY <1>t, <1>r, NamesDistinct, ThreadsAssumption, <1>2 DEF WorkerMoves, CallsOK, WorksOK,
      CallType, WorkType, PathTypeOK, RunInv, OpInv, CallOps, WorkOps, Starting, NoCall, NoWork
  <1>3. CASE WorkerScans(w) \/ WorkerSkipsScan(w)
    BY <1>t, <1>r, NamesDistinct, ThreadsAssumption, <1>3, ScanStep DEF CallsOK, WorksOK,
      CallType, WorkType, PathTypeOK, RunInv, OpInv, CallOps, WorkOps, Starting, NoCall, NoWork
  <1>4. CASE LapEnds(w)
    BY <1>t, <1>r, NamesDistinct, ThreadsAssumption, <1>4 DEF LapEnds, WorkGoto, CallsOK, WorksOK,
      CallType, WorkType, PathTypeOK, RunInv, OpInv, CallOps, WorkOps, Starting, NoCall, NoWork
  <1> QED
    BY <1>1, <1>2, <1>3, <1>4 DEF Machine

\* The steps of the machine.
LEMMA SnapshotMachine ==
    ASSUME IInv, OpInv, CalibrationInv, SnapshotInv, ClientInv, NEW w \in Workers, Machine(w)
    PROVE  SnapshotInv'
  <1> USE DEF SnapshotInv, CalibrationInv, StartsCalibration, KeepsSnapshot, KeepsPoints,
    Validated, Driving, Driven, pathVars
  <1>t. CallsOK /\ WorksOK /\ PathTypeOK
    BY IInvTypes
  <1>r. RunInv
    BY DEF IInv
  <1>s. StateTellsRun
    BY DEF IInv
  <1>1. CASE WorkerTravels(w)
    BY <1>t, <1>r, NamesDistinct, ThreadsAssumption, <1>1 DEF WorkerTravels, WorkGoto, CallsOK,
      WorksOK, CallType, WorkType, PathTypeOK, RunInv, OpInv, CallOps, WorkOps, Starting, NoCall,
      NoWork
  <1>2. CASE WorkerMoves(w)
    BY <1>t, <1>r, NamesDistinct, ThreadsAssumption, <1>2 DEF WorkerMoves, CallsOK, WorksOK,
      CallType, WorkType, PathTypeOK, RunInv, OpInv, CallOps, WorkOps, Starting, NoCall, NoWork
  <1>3. CASE WorkerScans(w) \/ WorkerSkipsScan(w)
    BY <1>t, <1>r, NamesDistinct, ThreadsAssumption, <1>3, ScanStep DEF CallsOK, WorksOK,
      CallType, WorkType, PathTypeOK, RunInv, OpInv, CallOps, WorkOps, Starting, NoCall, NoWork
  <1>4. CASE LapEnds(w)
    BY <1>t, <1>r, NamesDistinct, ThreadsAssumption, <1>4 DEF LapEnds, WorkGoto, CallsOK, WorksOK,
      CallType, WorkType, PathTypeOK, RunInv, OpInv, CallOps, WorkOps, Starting, NoCall, NoWork
  <1> QED
    BY <1>1, <1>2, <1>3, <1>4 DEF Machine

\* The outcomes of a run.
LEMMA CalibrationOutcome ==
    ASSUME IInv, OpInv, CalibrationInv, SnapshotInv, ClientInv, NEW w \in Workers, Outcome(w)
    PROVE  CalibrationInv'
  <1> USE DEF CalibrationInv, SnapshotInv, Validated, StartsCalibration, KeepsSnapshot,
    KeepsPoints, pathVars
  <1>t. CallsOK /\ WorksOK /\ PathTypeOK
    BY IInvTypes
  <1>r. RunInv
    BY DEF IInv
  <1>s. StateTellsRun
    BY DEF IInv
  <1> QED
    BY <1>t, <1>r, NamesDistinct, ThreadsAssumption DEF WorkerSeesAbort, WorkGoto, Raise, CallsOK,
      WorksOK, CallType, WorkType, PathTypeOK, RunInv, OpInv, CallOps, WorkOps, Starting, NoCall,
      NoWork, WorkerSeesCancel, CalibrationExits, RunFails, Outcome

\* The outcomes of a run.
LEMMA SnapshotOutcome ==
    ASSUME IInv, OpInv, CalibrationInv, SnapshotInv, ClientInv, NEW w \in Workers, Outcome(w)
    PROVE  SnapshotInv'
  <1> USE DEF SnapshotInv, CalibrationInv, StartsCalibration, KeepsSnapshot, KeepsPoints,
    Validated, Driving, Driven, pathVars
  <1>t. CallsOK /\ WorksOK /\ PathTypeOK
    BY IInvTypes
  <1>r. RunInv
    BY DEF IInv
  <1>s. StateTellsRun
    BY DEF IInv
  <1>1. CASE WorkerSeesAbort(w)
    <2>1. PICK l \in {"aborted", "failed", "exitAborted", "exitFailed"} : work' = [work EXCEPT ![w].at = l]
      BY <1>1 DEF WorkerSeesAbort, SeesAbort, Raise, WorkGoto
    <2>2. work[w].at # "dead" /\ call' = call /\ loaded' = loaded /\ points' = points
      BY <1>1 DEF WorkerSeesAbort, SeesAbort, Raise, WorkGoto, pathVars
    <2> QED
      BY <1>t, <1>r, <2>1, <2>2 DEF CallsOK, WorksOK, CallType, WorkType
  <1>2. CASE WorkerSeesCancel(w)
    BY <1>t, <1>r, NamesDistinct, ThreadsAssumption, <1>2 DEF WorkerSeesCancel, WorkGoto, Raise,
      CallsOK, WorksOK, CallType, WorkType, PathTypeOK, RunInv, OpInv, CallOps, WorkOps, Starting,
      NoCall, NoWork
  <1>3. CASE CalibrationExits(w)
    BY <1>t, <1>r, NamesDistinct, ThreadsAssumption, <1>3 DEF CalibrationExits, WorkGoto, CallsOK,
      WorksOK, CallType, WorkType, PathTypeOK, RunInv, OpInv, CallOps, WorkOps, Starting, NoCall,
      NoWork
  <1>4. CASE RunFails(w)
    BY <1>t, <1>r, NamesDistinct, ThreadsAssumption, <1>4 DEF RunFails, WorkGoto, CallsOK, WorksOK,
      CallType, WorkType, PathTypeOK, RunInv, OpInv, CallOps, WorkOps, Starting, NoCall, NoWork
  <1> QED
    BY <1>1, <1>2, <1>3, <1>4 DEF Outcome

\* A failure.
LEMMA CalibrationFails ==
    ASSUME IInv, OpInv, CalibrationInv, SnapshotInv, ClientInv, NEW w \in Workers, WorkerFails(w)
    PROVE  CalibrationInv'
  <1> USE DEF CalibrationInv, SnapshotInv, Validated, StartsCalibration, KeepsSnapshot,
    KeepsPoints, pathVars
  <1>t. CallsOK /\ WorksOK /\ PathTypeOK
    BY IInvTypes
  <1>r. RunInv
    BY DEF IInv
  <1>s. StateTellsRun
    BY DEF IInv
  <1> QED
    BY <1>t, <1>r, NamesDistinct, ThreadsAssumption DEF WorkerFails, WorkGoto, Raise, CallsOK,
      WorksOK, CallType, WorkType, PathTypeOK, RunInv, OpInv, CallOps, WorkOps, Starting, NoCall,
      NoWork

\* A failure.
LEMMA SnapshotFails ==
    ASSUME IInv, OpInv, CalibrationInv, SnapshotInv, ClientInv, NEW w \in Workers, WorkerFails(w)
    PROVE  SnapshotInv'
  <1> USE DEF SnapshotInv, CalibrationInv, StartsCalibration, KeepsSnapshot, KeepsPoints,
    Validated, Driving, Driven, pathVars
  <1>t. CallsOK /\ WorksOK /\ PathTypeOK
    BY IInvTypes
  <1>r. RunInv
    BY DEF IInv
  <1>s. StateTellsRun
    BY DEF IInv
  <1>1. PICK l \in {"aborted", "failed", "exitAborted", "exitFailed"} : work' = [work EXCEPT ![w].at = l]
    BY DEF WorkerFails, Commands, Raise, WorkGoto
  <1>2. work[w].at # "dead" /\ call' = call /\ loaded' = loaded /\ points' = points
    BY DEF WorkerFails, Commands, Raise, WorkGoto, pathVars
  <1> QED
    BY <1>t, <1>r, <1>1, <1>2 DEF CallsOK, WorksOK, CallType, WorkType

\* The calibration trajectory is gone before its run lock is.
LEMMA CalibrationCleanup ==
    ASSUME IInv, OpInv, CalibrationInv, SnapshotInv, ClientInv, NEW w \in Workers, Cleanup(w)
    PROVE  CalibrationInv'
  <1> USE DEF CalibrationInv, SnapshotInv, Validated, StartsCalibration, KeepsSnapshot,
    KeepsPoints, pathVars
  <1>t. CallsOK /\ WorksOK /\ PathTypeOK
    BY IInvTypes
  <1>r. RunInv
    BY DEF IInv
  <1>s. StateTellsRun
    BY DEF IInv
  <1>1. CASE WorkerClearsAbort(w)
    BY <1>t, <1>r, <1>s, NamesDistinct, ThreadsAssumption, <1>1 DEF WorkerClearsAbort, WorkGoto,
      CallsOK, WorksOK,
      CallType, WorkType, PathTypeOK, RunInv, OpInv, CallOps, WorkOps, Starting, NoCall, NoWork
  <1>2. CASE WorkerClearsMotion(w)
    BY <1>t, <1>r, <1>s, NamesDistinct, ThreadsAssumption, <1>2 DEF WorkerClearsMotion, WorkGoto,
      CallsOK, WorksOK,
      CallType, WorkType, PathTypeOK, RunInv, OpInv, CallOps, WorkOps, Starting, NoCall, NoWork
  <1>3. CASE CalibrationRestores(w)
    BY <1>t, <1>r, <1>s, NamesDistinct, ThreadsAssumption, <1>3 DEF CalibrationRestores, WorkGoto,
      CallsOK, WorksOK,
      CallType, WorkType, PathTypeOK, RunInv, OpInv, CallOps, WorkOps, Starting, NoCall, NoWork
  <1>4. CASE CalibrationChecksState(w)
    BY <1>t, <1>r, <1>s, NamesDistinct, ThreadsAssumption, <1>4 DEF CalibrationChecksState,
      WorkGoto, StateTellsRun, Going, CallsOK, WorksOK,
      CallType, WorkType, PathTypeOK, RunInv, OpInv, CallOps, WorkOps, Starting, NoCall, NoWork
  <1>5. CASE CalibrationRestoresPoints(w)
    BY <1>t, <1>r, <1>s, NamesDistinct, ThreadsAssumption, <1>5 DEF CalibrationRestoresPoints,
      WorkGoto, PointsFromSnapshot, CallsOK, WorksOK,
      CallType, WorkType, PathTypeOK, RunInv, OpInv, CallOps, WorkOps, Starting, NoCall, NoWork
  <1>6. CASE WorkerReleases(w)
    BY <1>t, <1>r, <1>s, NamesDistinct, ThreadsAssumption, <1>6 DEF WorkerReleases, CallsOK,
      WorksOK,
      CallType, WorkType, PathTypeOK, RunInv, OpInv, CallOps, WorkOps, Starting, NoCall, NoWork
  <1> QED
    BY <1>1, <1>2, <1>3, <1>4, <1>5, <1>6 DEF Cleanup

\* The calibration trajectory is gone before its run lock is.
LEMMA SnapshotCleanup ==
    ASSUME IInv, OpInv, CalibrationInv, SnapshotInv, ClientInv, NEW w \in Workers, Cleanup(w)
    PROVE  SnapshotInv'
  <1> USE DEF SnapshotInv, CalibrationInv, StartsCalibration, KeepsSnapshot, KeepsPoints,
    Validated, Driving, Driven, pathVars
  <1>t. CallsOK /\ WorksOK /\ PathTypeOK
    BY IInvTypes
  <1>r. RunInv
    BY DEF IInv
  <1>s. StateTellsRun
    BY DEF IInv
  <1> QED
    BY <1>t, <1>r, NamesDistinct, ThreadsAssumption DEF WorkerClearsAbort, WorkGoto, CallsOK,
      WorksOK, CallType, WorkType, PathTypeOK, RunInv, OpInv, CallOps, WorkOps, Starting, NoCall,
      NoWork, WorkerClearsMotion, CalibrationRestores, CalibrationChecksState,
      CalibrationRestoresPoints, PointsFromSnapshot, WorkerReleases, Cleanup

\* The initialisation gives the client what it has read before.
LEMMA InitSteps ==
    ASSUME ClientInv, InitWorker
    PROVE  /\ call' = call /\ work' = work /\ loaded' = loaded /\ active' = active
           /\ \/ points' = points
              \/ /\ points' \in Paths /\ points' = init.path
                 /\ init.at = "create" /\ ~CalibrationGoing
  <1>1. call' = call /\ work' = work /\ loaded' = loaded /\ active' = active
    BY DEF InitWorker, InitChecks, InitBegins, InitScanner, InitForgets, InitChecksClient,
      InitCreatesClient, InitEnds, pathVars
  <1>2. points' = points \/ InitCreatesClient
    BY DEF InitWorker, InitChecks, InitBegins, InitScanner, InitForgets, InitChecksClient, InitEnds,
      pathVars
  <1> QED
    BY <1>1, <1>2 DEF InitCreatesClient, ClientInv

\* The initialisation gives the client what is loaded.
LEMMA CalibrationInitWorker ==
    ASSUME IInv, OpInv, CalibrationInv, SnapshotInv, ClientInv, InitWorker
    PROVE  CalibrationInv'
  <1>1. call' = call /\ work' = work /\ loaded' = loaded /\ (points' = points \/ points' # Calibration)
    BY InitSteps, NamesDistinct
  <1> QED
    BY <1>1 DEF CalibrationInv, StartsCalibration, KeepsSnapshot, KeepsPoints

\* The initialisation gives the client what is loaded.
LEMMA SnapshotInitWorker ==
    ASSUME IInv, OpInv, CalibrationInv, SnapshotInv, ClientInv, InitWorker
    PROVE  SnapshotInv'
  <1>1. call' = call /\ work' = work /\ loaded' = loaded /\ (points' = points \/ points' \in Paths)
    BY InitSteps
  <1>2. NoClient \notin Paths
    BY NamesDistinct
  <1> QED
    BY <1>1, <1>2 DEF SnapshotInv

\* A lost scanner.
LEMMA CalibrationDrops ==
    ASSUME IInv, OpInv, CalibrationInv, SnapshotInv, ClientInv, ScannerDrops \/ LeftExports
    PROVE  CalibrationInv'
  <1> USE DEF CalibrationInv, SnapshotInv, Validated, StartsCalibration, KeepsSnapshot,
    KeepsPoints, pathVars
  <1>t. CallsOK /\ WorksOK /\ PathTypeOK
    BY IInvTypes
  <1>r. RunInv
    BY DEF IInv
  <1>s. StateTellsRun
    BY DEF IInv
  <1> QED
    BY <1>t, <1>r, NamesDistinct, ThreadsAssumption DEF ScannerDrops, LeftExports,
      ExportTakesLock, ExportEnds, Forget, CallsOK, WorksOK,
      CallType, WorkType, PathTypeOK, RunInv, OpInv, CallOps, WorkOps, Starting, NoCall, NoWork

\* A lost scanner.
LEMMA SnapshotDrops ==
    ASSUME IInv, OpInv, CalibrationInv, SnapshotInv, ClientInv, ScannerDrops \/ LeftExports
    PROVE  SnapshotInv'
  <1> USE DEF SnapshotInv, CalibrationInv, StartsCalibration, KeepsSnapshot, KeepsPoints,
    Validated, Driving, Driven, pathVars
  <1>t. CallsOK /\ WorksOK /\ PathTypeOK
    BY IInvTypes
  <1>r. RunInv
    BY DEF IInv
  <1>s. StateTellsRun
    BY DEF IInv
  <1> QED
    BY <1>t, <1>r, NamesDistinct, ThreadsAssumption DEF ScannerDrops, LeftExports,
      ExportTakesLock, ExportEnds, Forget, CallsOK, WorksOK,
      CallType, WorkType, PathTypeOK, RunInv, OpInv, CallOps, WorkOps, Starting, NoCall, NoWork

\* Nothing changes.
LEMMA CalibrationStutter ==
    ASSUME IInv, OpInv, CalibrationInv, SnapshotInv, ClientInv, UNCHANGED vars
    PROVE  CalibrationInv'
  <1> USE DEF CalibrationInv, SnapshotInv, Validated, StartsCalibration, KeepsSnapshot,
    KeepsPoints, pathVars
  <1>t. CallsOK /\ WorksOK /\ PathTypeOK
    BY IInvTypes
  <1>r. RunInv
    BY DEF IInv
  <1>s. StateTellsRun
    BY DEF IInv
  <1> QED
    BY <1>t, <1>r, NamesDistinct, ThreadsAssumption DEF vars, serviceVars, ownVars, pathVars,
      scanVars, counts

\* Nothing changes.
LEMMA SnapshotStutter ==
    ASSUME IInv, OpInv, CalibrationInv, SnapshotInv, ClientInv, UNCHANGED vars
    PROVE  SnapshotInv'
  <1> USE DEF SnapshotInv, CalibrationInv, StartsCalibration, KeepsSnapshot, KeepsPoints,
    Validated, Driving, Driven, pathVars
  <1>t. CallsOK /\ WorksOK /\ PathTypeOK
    BY IInvTypes
  <1>r. RunInv
    BY DEF IInv
  <1>s. StateTellsRun
    BY DEF IInv
  <1> QED
    BY <1>t, <1>r, NamesDistinct, ThreadsAssumption DEF vars, serviceVars, ownVars, pathVars,
      scanVars, counts

----------------------------------------------------------------------------
(* Every step keeps the client and the calibration apart.                   *)

\* A step that begins no calibration and leaves the trajectories and the
\* initialisation alone.
LEMMA ClientFrame ==
    ASSUME ClientInv, UNCHANGED <<pathVars, init, initializing>>,
           \A c \in Callers : CalibrationCall(c)' => CalibrationGoing,
           \A w \in Workers : CalibrationWorker(w)' => CalibrationGoing,
           \A c \in Callers : call[c].at = "points" => call'[c].at = "points"
    PROVE  ClientInv'
  <1>1. CalibrationGoing' => CalibrationGoing
    BY DEF CalibrationGoing
  <1>2. \A x : x \in Callers /\ call[x].at = "points" => \E c \in Callers : call'[c].at = "points"
    OBVIOUS
  <1> QED
    BY <1>1, <1>2 DEF ClientInv, pathVars

\* The requests and the worker that are a calibration, when none begins.
LEMMA ClientCalls ==
    ASSUME ClientInv, UNCHANGED <<pathVars, init, initializing>>, work' = work,
           \A c \in Callers : CalibrationCall(c)' => CalibrationCall(c),
           \A c \in Callers : call[c].at = "points" => call'[c].at = "points"
    PROVE  ClientInv'
  <1>1. \A w \in Workers : CalibrationWorker(w)' => CalibrationGoing
    BY DEF CalibrationWorker, CalibrationGoing
  <1>2. \A c \in Callers : CalibrationCall(c)' => CalibrationGoing
    BY DEF CalibrationGoing
  <1> QED
    BY <1>1, <1>2, ClientFrame

LEMMA ClientWorks ==
    ASSUME ClientInv, UNCHANGED <<pathVars, init, initializing>>, call' = call,
           \A w \in Workers : CalibrationWorker(w)' => CalibrationWorker(w)
    PROVE  ClientInv'
  <1>1. \A w \in Workers : CalibrationWorker(w)' => CalibrationGoing
    BY DEF CalibrationGoing
  <1>2. \A c \in Callers : CalibrationCall(c)' => CalibrationGoing
    BY DEF CalibrationCall, CalibrationGoing
  <1>3. \A c \in Callers : call[c].at = "points" => call'[c].at = "points"
    OBVIOUS
  <1> QED
    BY <1>1, <1>2, <1>3, ClientFrame

\* Where nothing but a client is made of what is loaded, or a path is loaded.
LEMMA ClientPaths ==
    ASSUME ClientInv, UNCHANGED <<init, initializing, work>>,
           \A c \in Callers : CalibrationCall(c)' => CalibrationCall(c),
           points' = NoClient => points = NoClient,
           \/ loaded' \in Paths
           \/ /\ loaded' = loaded /\ points' \in {points, loaded}
              /\ \A c \in Callers : call[c].at = "points" => call'[c].at = "points"
           \/ loaded' = loaded /\ loaded # Scanless
    PROVE  ClientInv'
  <1>1. \A w \in Workers : CalibrationWorker(w)' => CalibrationGoing
    BY DEF CalibrationWorker, CalibrationGoing
  <1>2. CalibrationGoing' => CalibrationGoing
    BY <1>1 DEF CalibrationGoing
  <1>3. (\A c \in Callers : call[c].at = "points" => call'[c].at = "points") =>
          ((\E c \in Callers : call[c].at = "points") => (\E c \in Callers : call'[c].at = "points"))
    OBVIOUS
  <1>4. Calibration \notin Paths /\ Scanless \notin Paths
    BY NamesDistinct
  <1>5. CASE loaded' \in Paths
    BY <1>2, <1>4, <1>5 DEF ClientInv
  <1>6. CASE loaded' = loaded /\ loaded # Scanless
    BY <1>2, <1>6 DEF ClientInv
  <1>7. CASE /\ loaded' = loaded /\ points' \in {points, loaded}
             /\ \A c \in Callers : call[c].at = "points" => call'[c].at = "points"
    BY <1>2, <1>3, <1>7 DEF ClientInv
  <1> QED
    BY <1>5, <1>6, <1>7

\* A request that begins.
LEMMA ClientCallerBegins ==
    ASSUME IInv, OpInv, CalibrationInv, SnapshotInv, ClientInv, NEW c \in Callers, CallerBegins(c)
    PROVE  ClientInv'
  <1>t. CallsOK /\ WorksOK /\ PathTypeOK
    BY IInvTypes
  <1>1. CASE \E p \in Paths : SettingsReload(c, p)
    <2>1. PICK p \in Paths : SettingsReload(c, p)
      BY <1>1
    <2>2. UNCHANGED <<init, initializing, work, call, points>> /\ loaded' \in Paths
      BY <2>1 DEF SettingsReload, serviceVars
    <2>3. \A x \in Callers : CalibrationCall(x)' => CalibrationCall(x)
      BY <2>2 DEF CalibrationCall
    <2> QED
      BY <2>2, <2>3, ClientPaths
  <1>2. CASE ~\E p \in Paths : SettingsReload(c, p)
    <2>1. UNCHANGED <<pathVars, init, initializing, work>>
      BY <1>2 DEF CallerBegins, Start, StartAcquires, ContinueChecks, StopMarks, ReloadChecks,
        SelectChecks, JogChecks, serviceVars
    <2>0. /\ call[c].at \in {"idle", "stopFirst"}
          /\ call'[c].at \in {"validate", "acquire", "setAbort", "stopFirst", "restart", "select", "jogClient"}
          /\ \A x \in Callers : x # c => call'[x] = call[x]
      <3>1. CASE StopMarks(c)
        BY <1>t, <3>1 DEF StopMarks, Enter, Goto, CallsOK, CallType, NoCall
      <3>2. CASE ~StopMarks(c)
        BY <1>t, <1>2, <3>2 DEF CallerBegins, Start, StartAcquires, ContinueChecks, ReloadChecks,
          SelectChecks, JogChecks, Enter, CallsOK, CallType, NoCall
      <3> QED
        BY <3>1, <3>2
    <2>2. \A x \in Callers : CalibrationCall(x)' => CalibrationCall(x)
      BY <2>0 DEF CalibrationCall
    <2>3. \A x \in Callers : call[x].at = "points" => call'[x].at = "points"
      BY <2>0
    <2> QED
      BY <2>1, <2>2, <2>3, ClientCalls
  <1> QED
    BY <1>1, <1>2

\* A calibration starts when there is a client and no initialisation.
LEMMA ClientStartProceeds ==
    ASSUME IInv, OpInv, CalibrationInv, SnapshotInv, ClientInv, NEW c \in Callers, StartProceeds(c)
    PROVE  ClientInv'
  <1>t. CallsOK /\ WorksOK /\ PathTypeOK
    BY IInvTypes
  <1>n. /\ Calibration # NoClient /\ Scanless # NoClient /\ Broken # Scanless
        /\ Calibration # Scanless
    BY NamesDistinct
  <1>1. CASE \/ ContinueAcquires(c) \/ StartRefused(c) \/ StartHasNoScan(c) \/ ResumeReads(c)
             \/ ResumeEnsures(c) \/ EnsureFails(c) \/ EnsureRefused(c)
             \/ StartClearsAbort(c) \/ StartClearsMotion(c) \/ StartRuns(c)
    <2>1. UNCHANGED <<pathVars, init, initializing, work>>
      BY <1>1 DEF ContinueAcquires, StartRefused, StartHasNoScan, ResumeReads, ResumeEnsures,
        EnsureFails, EnsureRefused, StartClearsAbort, StartClearsMotion, StartRuns, serviceVars
    <2>2. /\ call[c].at # "points"
          /\ call'[c].op = call[c].op \/ call'[c] = NoCall
          /\ CalibrationCall(c)' => CalibrationCall(c)
          /\ \A x \in Callers : x # c => call'[x] = call[x]
      BY <1>t, <1>1 DEF ContinueAcquires, StartRefused, StartHasNoScan, ResumeReads, ResumeEnsures,
        EnsureFails, EnsureRefused, StartClearsAbort, StartClearsMotion, StartRuns, Raises, Return,
        Goto, CallsOK, CallType, NoCall, CalibrationCall, OpInv, CallOps
    <2>3. \A x \in Callers : CalibrationCall(x)' => CalibrationCall(x)
      BY <2>2 DEF CalibrationCall
    <2> QED
      BY <2>1, <2>2, <2>3, ClientCalls
  <1>2. CASE StartValidates(c)
    <2>1. init.at # "create" /\ points # NoClient
      BY <1>2 DEF StartValidates, Ready, ClientInv
    <2>2. UNCHANGED <<pathVars, init, initializing>> /\ call'[c].at # "points"
      BY <1>t, <1>2 DEF StartValidates, serviceVars, Goto, CallsOK, CallType
    <2>3. call[c].at # "points" /\ \A x \in Callers : x # c => call'[x] = call[x]
      BY <1>t, <1>2 DEF StartValidates, Goto, CallsOK, CallType
    <2>4. (\E x \in Callers : call[x].at = "points") => (\E x \in Callers : call'[x].at = "points")
      BY <2>3
    <2> QED
      BY <2>1, <2>2, <2>4 DEF ClientInv, pathVars
  <1>3. CASE CalibrationLoads(c) \/ CalibrationLoadFails(c) \/ CalibrationHasNoScan(c) \/ CalibrationSetsPoints(c)
    <2>1. CalibrationGoing
      BY <1>3 DEF CalibrationLoads, CalibrationLoadFails, CalibrationHasNoScan,
        CalibrationSetsPoints,
        OpInv, CallOps, CalibrationGoing, CalibrationCall
    <2>2. points # NoClient /\ init.at # "create"
      BY <2>1 DEF ClientInv
    <2>3. UNCHANGED <<init, initializing>>
      BY <1>3 DEF CalibrationLoads, CalibrationLoadFails, CalibrationHasNoScan,
        CalibrationSetsPoints,
        serviceVars
    <2>4. points' # NoClient
      <3>1. loaded # NoClient
        BY <1>t, NamesDistinct DEF PathTypeOK
      <3> QED
        BY <2>2, <3>1, <1>3 DEF CalibrationLoads, CalibrationLoadFails, CalibrationHasNoScan,
          CalibrationSetsPoints, PointsFromSnapshot, pathVars
    <2>5. loaded' = Scanless => points' = Scanless \/ call'[c].at = "points"
      BY <1>t, <1>n, <2>2, <1>3 DEF CalibrationLoads, CalibrationLoadFails, CalibrationHasNoScan,
        CalibrationSetsPoints, PointsFromSnapshot, pathVars, Goto, CallsOK, CallType
    <2> QED
      BY <2>2, <2>3, <2>4, <2>5 DEF ClientInv
  <1>4. ASSUME NEW w \in Workers, StartSpawns(c, w) PROVE ClientInv'
    <2>1. UNCHANGED <<pathVars, init, initializing>>
      BY <1>4 DEF StartSpawns
    <2>2. \A x \in Callers : CalibrationCall(x)' => CalibrationGoing
      BY <1>t, <1>4 DEF StartSpawns, Return, CallsOK, CallType, NoCall, CalibrationCall,
        CalibrationGoing
    <2>3. \A x \in Workers : CalibrationWorker(x)' => CalibrationGoing
      BY <1>t, <1>4 DEF StartSpawns, CallsOK, CallType, WorksOK, WorkType, NoWork, CalibrationCall,
        CalibrationWorker, CalibrationGoing
    <2>4. \A x \in Callers : call[x].at = "points" => call'[x].at = "points"
      BY <1>t, <1>4 DEF StartSpawns, Return, CallsOK, CallType
    <2> QED
      BY <2>1, <2>2, <2>3, <2>4, ClientFrame
  <1> QED
    BY <1>1, <1>2, <1>3, <1>4 DEF StartProceeds

\* A stop changes no trajectory.
LEMMA ClientStopProceeds ==
    ASSUME IInv, OpInv, CalibrationInv, SnapshotInv, ClientInv, NEW c \in Callers, StopProceeds(c)
    PROVE  ClientInv'
  <1>t. CallsOK /\ WorksOK /\ PathTypeOK
    BY IInvTypes
  <1>1. UNCHANGED <<pathVars, init, initializing, work>>
    BY DEF StopProceeds, StopMarks, StopSetsAbort, StopCancelsMotion, StopJoins, ReloadRestarts,
      ReloadForgets, serviceVars
  <1>2. /\ call[c].at # "points" /\ ~CalibrationCall(c)'
        /\ \A x \in Callers : x # c => call'[x] = call[x]
    BY <1>t DEF StopProceeds, StopMarks, StopSetsAbort, StopCancelsMotion, StopJoins,
      ReloadRestarts,
      ReloadForgets, Enter, Goto, Return, CallsOK, CallType, NoCall, CalibrationCall
  <1>3. \A x \in Callers : CalibrationCall(x)' => CalibrationCall(x)
    BY <1>2 DEF CalibrationCall
  <1> QED
    BY <1>1, <1>2, <1>3, ClientCalls

\* A change of the path gives the client what is loaded.
LEMMA ClientPathProceeds ==
    ASSUME IInv, OpInv, CalibrationInv, SnapshotInv, ClientInv, NEW c \in Callers, PathProceeds(c)
    PROVE  ClientInv'
  <1>t. CallsOK /\ WorksOK /\ PathTypeOK
    BY IInvTypes
  <1>n. Scanless # NoClient /\ NoPoints # NoClient
    BY NamesDistinct
  <1>1. UNCHANGED <<init, initializing, work>>
    BY DEF PathProceeds, SelectReloads, PathChecks, PathSets, JogEnsuresClient, JogClearsMotion,
      JogEnds, serviceVars
  <1>2. /\ call[c].at # "points" /\ ~CalibrationCall(c)'
        /\ \A x \in Callers : x # c => call'[x] = call[x]
    BY <1>t DEF PathProceeds, SelectReloads, PathChecks, PathSets, JogEnsuresClient,
      JogClearsMotion,
      JogEnds, Goto, Return, CallsOK, CallType, NoCall, CalibrationCall
  <1>3. \A x \in Callers : CalibrationCall(x)' => CalibrationCall(x)
    BY <1>2 DEF CalibrationCall
  <1>4. \A x \in Callers : call[x].at = "points" => call'[x].at = "points"
    BY <1>2
  <1>5. CASE \E p \in Paths : SelectReloads(c, p)
    BY <1>1, <1>3, <1>5, ClientPaths DEF SelectReloads
  <1>6. CASE PathSets(c)
    <2>1. points' = NoClient => points = NoClient
      <3>1. CASE loaded = NoClient
        BY <1>t, <3>1, NamesDistinct DEF PathTypeOK
      <3> QED
        BY <1>6, <3>1 DEF PathSets, PointsFromSnapshot
    <2>2. loaded' = loaded /\ points' \in {points, loaded}
      BY <1>6 DEF PathSets, PointsFromSnapshot
    <2> QED
      BY <1>1, <1>3, <1>4, <2>1, <2>2, ClientPaths
  <1>7. CASE JogEnsuresClient(c)
    <2>1. points' = NoClient => points = NoClient
      BY <1>7, <1>n DEF JogEnsuresClient
    <2>2. CASE points = NoClient
      BY <1>1, <1>3, <1>7, <2>1, <2>2, ClientPaths DEF JogEnsuresClient, ClientInv
    <2>3. CASE points # NoClient
      BY <1>1, <1>3, <1>4, <1>7, <2>1, <2>3, ClientPaths DEF JogEnsuresClient
    <2> QED
      BY <2>2, <2>3
  <1>8. CASE PathChecks(c) \/ JogClearsMotion(c) \/ JogEnds(c)
    <2>1. UNCHANGED pathVars
      BY <1>8 DEF PathChecks, JogClearsMotion, JogEnds
    <2> QED
      BY <1>1, <1>3, <1>4, <2>1, ClientCalls
  <1> QED
    BY <1>5, <1>6, <1>7, <1>8 DEF PathProceeds

\* A worker's step changes neither what its run is nor a thread of another one.
WorkKeepsOp(w) ==
    /\ work'[w].op = work[w].op /\ work[w].at # "dead"
    /\ \A v \in Workers : v # w => work'[v] = work[v]

LEMMA ClientWorker ==
    ASSUME ClientInv, NEW w \in Workers, WorkKeepsOp(w),
           UNCHANGED <<pathVars, init, initializing, call>>
    PROVE  ClientInv'
  <1>1. \A v \in Workers : CalibrationWorker(v)' => CalibrationWorker(v)
    BY DEF WorkKeepsOp, CalibrationWorker
  <1> QED
    BY <1>1, ClientWorks

\* A lap that is repeated has a path file's trajectory.
LEMMA ClientLap ==
    ASSUME IInv, OpInv, CalibrationInv, SnapshotInv, ClientInv, NEW w \in Workers, Lap(w)
    PROVE  ClientInv'
  <1>t. CallsOK /\ WorksOK /\ PathTypeOK
    BY IInvTypes
  <1>1. WorkKeepsOp(w)
    BY <1>t DEF Lap, LapBegins, WorkerCreates, LapReads, CalibrationEnters, RunCannotBegin,
      RunBegins,
      OnStep, RunEnds, RunRepeats, NextLapCreates, NextLapSetsPoints, NewProject, WorkGoto, Raise,
      WorksOK, WorkType, WorkKeepsOp
  <1>2. UNCHANGED <<init, initializing, call>>
    BY DEF Lap, LapBegins, WorkerCreates, LapReads, CalibrationEnters, RunCannotBegin, RunBegins,
      OnStep, RunEnds, RunRepeats, NextLapCreates, NextLapSetsPoints, NewProject, serviceVars
  <1>3. CASE NextLapSetsPoints(w)
    <2>1. work[w].path \in Paths /\ loaded \in Paths /\ work[w].path # NoClient
      BY <1>3, NamesDistinct DEF NextLapSetsPoints, SnapshotInv, OpInv, WorkOps
    <2>2. loaded' = loaded /\ (points' = NoClient => points = NoClient)
      BY <1>3, <2>1 DEF NextLapSetsPoints
    <2>3. \A v \in Workers : CalibrationWorker(v)' => CalibrationWorker(v)
      BY <1>1 DEF WorkKeepsOp, CalibrationWorker
    <2>4. CalibrationGoing' => CalibrationGoing
      BY <1>2, <2>3 DEF CalibrationGoing, CalibrationCall
    <2> QED
      BY <1>2, <2>1, <2>2, <2>4, NamesDistinct DEF ClientInv
  <1>4. CASE ~NextLapSetsPoints(w)
    <2>1. UNCHANGED pathVars
      BY <1>4 DEF Lap, LapBegins, WorkerCreates, LapReads, CalibrationEnters, RunCannotBegin,
        RunBegins, OnStep, RunEnds, RunRepeats, NextLapCreates, NewProject
    <2> QED
      BY <1>1, <1>2, <2>1, ClientWorker
  <1> QED
    BY <1>3, <1>4

\* The machine changes no trajectory.
LEMMA ClientMachine ==
    ASSUME IInv, OpInv, CalibrationInv, SnapshotInv, ClientInv, NEW w \in Workers, Machine(w)
    PROVE  ClientInv'
  <1>t. CallsOK /\ WorksOK /\ PathTypeOK
    BY IInvTypes
  <1>1. WorkKeepsOp(w)
    <2>1. CASE WorkerScans(w) \/ WorkerSkipsScan(w)
      BY <1>t, <2>1, ScanStep DEF WorkKeepsOp
    <2>2. CASE WorkerTravels(w) \/ WorkerMoves(w) \/ LapEnds(w)
      BY <1>t, <2>2 DEF WorkerTravels, WorkerMoves, LapEnds, WorkGoto, WorksOK, WorkType,
        WorkKeepsOp
    <2> QED
      BY <2>1, <2>2 DEF Machine
  <1>2. UNCHANGED <<pathVars, init, initializing, call>>
    BY DEF Machine, WorkerTravels, WorkerMoves, WorkerScans, WorkerSkipsScan, LapEnds, serviceVars
  <1> QED
    BY <1>1, <1>2, ClientWorker

\* An outcome changes no trajectory.
LEMMA ClientOutcome ==
    ASSUME IInv, OpInv, CalibrationInv, SnapshotInv, ClientInv, NEW w \in Workers, Outcome(w)
    PROVE  ClientInv'
  <1>t. CallsOK /\ WorksOK /\ PathTypeOK
    BY IInvTypes
  <1>1. WorkKeepsOp(w)
    <2>1. \E l : WorkGoto(w, l)
      BY DEF Outcome, WorkerSeesAbort, WorkerSeesCancel, CalibrationExits, RunFails, Raise
    <2>2. work[w].at # "dead"
      BY DEF Outcome, WorkerSeesAbort, SeesAbort, WorkerSeesCancel, CalibrationExits, RunFails
    <2> QED
      BY <1>t, <2>1, <2>2 DEF WorkGoto, WorksOK, WorkType, WorkKeepsOp
  <1>2. UNCHANGED <<pathVars, init, initializing, call>>
    BY DEF Outcome, WorkerSeesAbort, WorkerSeesCancel, CalibrationExits, RunFails, serviceVars
  <1> QED
    BY <1>1, <1>2, ClientWorker

\* A failure changes no trajectory.
LEMMA ClientFails ==
    ASSUME IInv, OpInv, CalibrationInv, SnapshotInv, ClientInv, NEW w \in Workers, WorkerFails(w)
    PROVE  ClientInv'
  <1>t. CallsOK /\ WorksOK /\ PathTypeOK
    BY IInvTypes
  <1>1. WorkKeepsOp(w)
    <2>1. \E l : WorkGoto(w, l)
      BY DEF WorkerFails, Raise
    <2>2. work[w].at # "dead"
      BY DEF WorkerFails, Commands
    <2> QED
      BY <1>t, <2>1, <2>2 DEF WorkGoto, WorksOK, WorkType, WorkKeepsOp
  <1>2. UNCHANGED <<pathVars, init, initializing, call>>
    BY DEF WorkerFails, serviceVars
  <1> QED
    BY <1>1, <1>2, ClientWorker

\* The active trajectory is a path file's.
LEMMA ClientCleanup ==
    ASSUME IInv, OpInv, CalibrationInv, SnapshotInv, ClientInv, NEW w \in Workers, Cleanup(w)
    PROVE  ClientInv'
  <1>t. CallsOK /\ WorksOK /\ PathTypeOK
    BY IInvTypes
  <1>1. UNCHANGED <<init, initializing, call>>
    BY DEF Cleanup, WorkerClearsAbort, WorkerClearsMotion, CalibrationRestores,
      CalibrationChecksState,
      CalibrationRestoresPoints, WorkerReleases, serviceVars
  <1>2. \A v \in Workers : CalibrationWorker(v)' => CalibrationWorker(v)
    BY <1>t DEF Cleanup, WorkerClearsAbort, WorkerClearsMotion, CalibrationRestores,
      CalibrationChecksState, CalibrationRestoresPoints, WorkerReleases, WorkGoto, WorksOK,
      WorkType,
      NoWork, CalibrationWorker
  <1>g. CalibrationGoing' => CalibrationGoing
    BY <1>1, <1>2 DEF CalibrationGoing, CalibrationCall
  <1>p. (\E c \in Callers : call'[c].at = "points") <=> (\E c \in Callers : call[c].at = "points")
    BY <1>1
  <1>3. CASE CalibrationRestores(w) \/ CalibrationRestoresPoints(w)
    <2>1. \/ loaded' \in Paths /\ points' = points
          \/ loaded' = loaded /\ (points' = points \/ (points # NoClient /\ points' = loaded))
      BY <1>t, <1>3 DEF CalibrationRestores, CalibrationRestoresPoints, PathTypeOK,
        PointsFromSnapshot
    <2>2. loaded # NoClient
      BY <1>t, NamesDistinct DEF PathTypeOK
    <2> QED
      BY <1>1, <1>g, <1>p, <2>1, <2>2, NamesDistinct DEF ClientInv
  <1>4. CASE ~(CalibrationRestores(w) \/ CalibrationRestoresPoints(w))
    <2>1. UNCHANGED pathVars
      BY <1>4 DEF Cleanup, WorkerClearsAbort, WorkerClearsMotion, CalibrationChecksState,
        WorkerReleases
    <2> QED
      BY <1>1, <1>2, <2>1, ClientWorks
  <1> QED
    BY <1>3, <1>4

\* The initialisation makes a client from what it has read.
LEMMA ClientInitWorker ==
    ASSUME IInv, OpInv, CalibrationInv, SnapshotInv, ClientInv, InitWorker
    PROVE  ClientInv'
  <1>t. CallsOK /\ WorksOK /\ PathTypeOK
    BY IInvTypes
  <1>0. init \in [at : InitAt, path : Paths \cup {Calibration, Scanless, NoPoints}]
    BY DEF IInv, TypeOK, ThreadTypeOK
  <1>1. call' = call /\ work' = work /\ loaded' = loaded /\ (CalibrationGoing' <=> CalibrationGoing)
    BY DEF InitWorker, InitChecks, InitBegins, InitScanner, InitForgets, InitChecksClient,
      InitCreatesClient, InitEnds, CalibrationGoing, CalibrationCall, CalibrationWorker, pathVars
  <1>2. (\E c \in Callers : call'[c].at = "points") <=> (\E c \in Callers : call[c].at = "points")
    BY <1>1
  <1>3. CASE InitChecksClient
    <2>1. points' = points /\ initializing' = initializing
      BY <1>3 DEF InitChecksClient, pathVars, serviceVars
    <2>2. initializing
      BY <1>3 DEF InitChecksClient, ClientInv
    <2>3. init'.at = "create" => points = NoClient /\ loaded # Broken /\ init'.path = loaded
      BY <1>0, <1>3 DEF InitChecksClient, InitGoto
    <2> QED
      BY <1>t, <1>1, <1>2, <2>1, <2>2, <2>3 DEF ClientInv, PathTypeOK
  <1>4. CASE InitCreatesClient
    <2>1. points' \in Paths /\ initializing' = initializing /\ init'.at = "end"
      BY <1>4 DEF InitCreatesClient, ClientInv, serviceVars, NoInit
    <2>2. initializing /\ loaded # Scanless
      BY <1>4 DEF InitCreatesClient, ClientInv
    <2> QED
      BY <1>1, <2>1, <2>2, NamesDistinct DEF ClientInv
  <1>5. CASE InitChecks \/ InitBegins \/ InitScanner \/ InitForgets \/ InitEnds
    <2>1. points' = points /\ init'.at # "create"
      BY <1>0, <1>5 DEF InitChecks, InitBegins, InitScanner, InitForgets, InitEnds, InitGoto,
        pathVars
    <2>2. init'.at \in {"scanner", "forget", "client", "create", "end"} => initializing'
      BY <1>0, <1>5 DEF InitChecks, InitBegins, InitScanner, InitForgets, InitEnds, InitGoto,
        serviceVars,
        ClientInv
    <2> QED
      BY <1>1, <1>2, <2>1, <2>2 DEF ClientInv
  <1> QED
    BY <1>3, <1>4, <1>5 DEF InitWorker

\* A lost scanner and an export that was left behind.
LEMMA ClientDrops ==
    ASSUME IInv, OpInv, CalibrationInv, SnapshotInv, ClientInv, ScannerDrops \/ LeftExports
    PROVE  ClientInv'
  <1>1. UNCHANGED <<pathVars, init, initializing, call, work>>
    BY DEF ScannerDrops, LeftExports, ExportTakesLock, ExportEnds, Forget, serviceVars
  <1> QED
    BY <1>1, ClientWorks DEF CalibrationWorker

\* Nothing changes.
LEMMA ClientStutter ==
    ASSUME IInv, OpInv, CalibrationInv, SnapshotInv, ClientInv, UNCHANGED vars
    PROVE  ClientInv'
  <1>1. UNCHANGED <<pathVars, init, initializing, call, work>>
    BY DEF vars, serviceVars
  <1> QED
    BY <1>1, ClientWorks DEF CalibrationWorker

----------------------------------------------------------------------------
(* What a run has scanned, and what a continue leaves out.                  *)

\* A run may begin at the first position whatever has been scanned.
LEMMA FirstResumes == \A scans : MayResume(scans, First)
  BY RunBoundsAssumption DEF MayResume, Filled, First, End

\* A run that may begin somewhere has filled what is before.
LEMMA ResumesFilled ==
    ASSUME NEW scans, NEW n, MayResume(scans, n)
    PROVE  Filled(scans, n) /\ (RunMode = "single_last_scan" => n # End)
  BY DEF MayResume

\* No step is not a step at the end.
LEMMA NoneNotEnd == None # End
  BY RunBoundsAssumption DEF None, End

\* What is filled stays filled when something is added.
LEMMA FilledGrows ==
    ASSUME NEW scans, NEW more, scans \subseteq more, NEW n
    PROVE  /\ Filled(scans, n) => Filled(more, n)
           /\ MayResume(scans, n) => MayResume(more, n)
  BY DEF Filled, MayResume

\* A scan at position n fills it.
LEMMA ScanFills ==
    ASSUME NEW scans, NEW p \in Paths, NEW n \in Nat, Filled(scans, n)
    PROVE  Filled(scans \cup {<<p, n>>}, n + 1)
  <1> SUFFICES ASSUME NEW i \in First..n
              PROVE  \E q \in Paths : <<q, i>> \in scans \cup {<<p, n>>}
    BY DEF Filled
  <1>1. CASE i = n
    BY <1>1
  <1>2. CASE i # n
    <2>1. i \in First..(n - 1)
      BY <1>2 DEF First
    <2> QED
      BY <2>1 DEF Filled
  <1> QED
    BY <1>1, <1>2

\* A lap that has filled all has filled what is before any step.
LEMMA FilledBefore ==
    ASSUME NEW scans, Filled(scans, End), NEW n \in Indices
    PROVE  Filled(scans, n)
  BY RunBoundsAssumption DEF Filled, Indices, First, End

\* What is scanned and skipped tells what has been done.
LEMMA SameScans == UNCHANGED <<scanned, skipped>> => Scans' = Scans
  BY DEF Scans, Treated

\* A request that begins leaves a start alone.
LEMMA StartCallerBegins ==
    ASSUME IInv, OpInv, SnapshotInv, WorkInv, NoContinueOfRepeats, NEW c \in Callers, CallerBegins(c)
    PROVE  StartInv'
  <1> USE DEF StartInv, LapInv, CalibrationWork, FreshStart, ResumeInv, Lapping, serviceVars,
    ownVars, scanVars, WorkInv
  <1>t. CallsOK /\ WorksOK /\ ServiceTypeOK
    BY IInvTypes
  <1>k. ScannerTypeOK
    BY IInvTypes
  <1>r. RunInv
    BY DEF IInv
  <1>x. Scans' = Scans
    BY SameScans DEF CallerBegins, Start, StartAcquires, ContinueChecks, StopMarks, ReloadChecks,
      SelectChecks, JogChecks, SettingsReload
  <1>1. ASSUME NEW op \in Ops, StartAcquires(c, op) PROVE StartInv'
    BY <1>t, <1>r, <1>x, FirstResumes, ThreadsAssumption, <1>1 DEF StartAcquires, Enter, CallsOK,
      WorksOK, CallType, WorkType, ServiceTypeOK, RunInv, OpInv, CallOps, WorkOps, Starting,
      NoCall, NoWork
  <1>2. CASE ContinueChecks(c)
    BY <1>t, <1>r, <1>x, FirstResumes, ThreadsAssumption, <1>2 DEF ContinueChecks, Enter, CallsOK,
      WorksOK, CallType, WorkType, ServiceTypeOK, RunInv, OpInv, CallOps, WorkOps, Starting,
      NoCall, NoWork
  <1>3. CASE StopMarks(c)
    <2>1. CASE Enter(c, "stop", "setAbort")
      BY <1>t, <1>r, <1>x, FirstResumes, ThreadsAssumption, <1>3, <2>1 DEF StopMarks, Enter,
        CallsOK,
        WorksOK, CallType, WorkType, ServiceTypeOK, RunInv, OpInv, CallOps, WorkOps, Starting,
        NoCall, NoWork
    <2>2. CASE call[c].at = "stopFirst" /\ Goto(c, "setAbort")
      BY <1>t, <1>r, <1>x, FirstResumes, ThreadsAssumption, <1>3, <2>2 DEF StopMarks, Goto, CallsOK,
        WorksOK, CallType, WorkType, ServiceTypeOK, RunInv, OpInv, CallOps, WorkOps, Starting,
        NoCall, NoWork
    <2>3. CASE call[c].at = "stopFirst" /\ Goto(c, "restart")
      BY <1>t, <1>r, <1>x, FirstResumes, ThreadsAssumption, <1>3, <2>3 DEF StopMarks, Goto, CallsOK,
        WorksOK, CallType, WorkType, ServiceTypeOK, RunInv, OpInv, CallOps, WorkOps, Starting,
        NoCall, NoWork
    <2> QED
      BY <1>3, <2>1, <2>2, <2>3 DEF StopMarks
  <1>4. CASE ReloadChecks(c)
    BY <1>t, <1>r, <1>x, FirstResumes, ThreadsAssumption, <1>4 DEF ReloadChecks, Enter, CallsOK,
      WorksOK,
      CallType, WorkType, ServiceTypeOK, RunInv, OpInv, CallOps, WorkOps, Starting, NoCall, NoWork
  <1>5. CASE SelectChecks(c)
    BY <1>t, <1>r, <1>x, FirstResumes, ThreadsAssumption, <1>5 DEF SelectChecks, Enter, CallsOK,
      WorksOK,
      CallType, WorkType, ServiceTypeOK, RunInv, OpInv, CallOps, WorkOps, Starting, NoCall, NoWork
  <1>6. CASE JogChecks(c)
    BY <1>t, <1>r, <1>x, FirstResumes, ThreadsAssumption, <1>6 DEF JogChecks, Enter, CallsOK,
      WorksOK,
      CallType, WorkType, ServiceTypeOK, RunInv, OpInv, CallOps, WorkOps, Starting, NoCall, NoWork
  <1>7. ASSUME NEW p \in Paths, SettingsReload(c, p) PROVE StartInv'
    BY <1>t, <1>r, <1>x, FirstResumes, ThreadsAssumption, <1>7 DEF SettingsReload, CallsOK, WorksOK,
      CallType, WorkType, ServiceTypeOK, RunInv, OpInv, CallOps, WorkOps, Starting, NoCall, NoWork
  <1> QED
    BY <1>1, <1>2, <1>3, <1>4, <1>5, <1>6, <1>7 DEF CallerBegins, Start

\* A request that begins leaves a lap alone.
LEMMA LapCallerBegins ==
    ASSUME IInv, OpInv, SnapshotInv, WorkInv, NoContinueOfRepeats, NEW c \in Callers, CallerBegins(c)
    PROVE  LapInv'
  <1> USE DEF StartInv, LapInv, CalibrationWork, FreshStart, ResumeInv, Lapping, serviceVars,
    ownVars, scanVars, WorkInv
  <1>t. CallsOK /\ WorksOK /\ ServiceTypeOK
    BY IInvTypes
  <1>k. ScannerTypeOK
    BY IInvTypes
  <1>r. RunInv
    BY DEF IInv
  <1>x. Scans' = Scans
    BY SameScans DEF CallerBegins, Start, StartAcquires, ContinueChecks, StopMarks, ReloadChecks,
      SelectChecks, JogChecks, SettingsReload
  <1>1. ASSUME NEW op \in Ops, StartAcquires(c, op) PROVE LapInv'
    BY <1>t, <1>r, <1>x, FirstResumes, ThreadsAssumption, <1>1 DEF StartAcquires, Enter, CallsOK,
      WorksOK, CallType, WorkType, ServiceTypeOK, RunInv, OpInv, CallOps, WorkOps, Starting,
      NoCall, NoWork
  <1>2. CASE ContinueChecks(c)
    BY <1>t, <1>r, <1>x, FirstResumes, ThreadsAssumption, <1>2 DEF ContinueChecks, Enter, CallsOK,
      WorksOK, CallType, WorkType, ServiceTypeOK, RunInv, OpInv, CallOps, WorkOps, Starting,
      NoCall, NoWork
  <1>3. CASE StopMarks(c)
    <2>1. CASE Enter(c, "stop", "setAbort")
      BY <1>t, <1>r, <1>x, FirstResumes, ThreadsAssumption, <1>3, <2>1 DEF StopMarks, Enter,
        CallsOK,
        WorksOK, CallType, WorkType, ServiceTypeOK, RunInv, OpInv, CallOps, WorkOps, Starting,
        NoCall, NoWork
    <2>2. CASE call[c].at = "stopFirst" /\ Goto(c, "setAbort")
      BY <1>t, <1>r, <1>x, FirstResumes, ThreadsAssumption, <1>3, <2>2 DEF StopMarks, Goto, CallsOK,
        WorksOK, CallType, WorkType, ServiceTypeOK, RunInv, OpInv, CallOps, WorkOps, Starting,
        NoCall, NoWork
    <2>3. CASE call[c].at = "stopFirst" /\ Goto(c, "restart")
      BY <1>t, <1>r, <1>x, FirstResumes, ThreadsAssumption, <1>3, <2>3 DEF StopMarks, Goto, CallsOK,
        WorksOK, CallType, WorkType, ServiceTypeOK, RunInv, OpInv, CallOps, WorkOps, Starting,
        NoCall, NoWork
    <2> QED
      BY <1>3, <2>1, <2>2, <2>3 DEF StopMarks
  <1>4. CASE ReloadChecks(c)
    BY <1>t, <1>r, <1>x, FirstResumes, ThreadsAssumption, <1>4 DEF ReloadChecks, Enter, CallsOK,
      WorksOK,
      CallType, WorkType, ServiceTypeOK, RunInv, OpInv, CallOps, WorkOps, Starting, NoCall, NoWork
  <1>5. CASE SelectChecks(c)
    BY <1>t, <1>r, <1>x, FirstResumes, ThreadsAssumption, <1>5 DEF SelectChecks, Enter, CallsOK,
      WorksOK,
      CallType, WorkType, ServiceTypeOK, RunInv, OpInv, CallOps, WorkOps, Starting, NoCall, NoWork
  <1>6. CASE JogChecks(c)
    BY <1>t, <1>r, <1>x, FirstResumes, ThreadsAssumption, <1>6 DEF JogChecks, Enter, CallsOK,
      WorksOK,
      CallType, WorkType, ServiceTypeOK, RunInv, OpInv, CallOps, WorkOps, Starting, NoCall, NoWork
  <1>7. ASSUME NEW p \in Paths, SettingsReload(c, p) PROVE LapInv'
    BY <1>t, <1>r, <1>x, FirstResumes, ThreadsAssumption, <1>7 DEF SettingsReload, CallsOK, WorksOK,
      CallType, WorkType, ServiceTypeOK, RunInv, OpInv, CallOps, WorkOps, Starting, NoCall, NoWork
  <1> QED
    BY <1>1, <1>2, <1>3, <1>4, <1>5, <1>6, <1>7 DEF CallerBegins, Start

\* A request that begins keeps the resume point.
LEMMA ResumeCallerBegins ==
    ASSUME IInv, OpInv, SnapshotInv, WorkInv, NoContinueOfRepeats, NEW c \in Callers, CallerBegins(c)
    PROVE  ResumeInv' /\ CalibrationWork'
  <1> USE DEF StartInv, LapInv, CalibrationWork, FreshStart, ResumeInv, Lapping, serviceVars,
    ownVars, scanVars, WorkInv
  <1>t. CallsOK /\ WorksOK /\ ServiceTypeOK
    BY IInvTypes
  <1>k. ScannerTypeOK
    BY IInvTypes
  <1>r. RunInv
    BY DEF IInv
  <1>x. Scans' = Scans
    BY SameScans DEF CallerBegins, Start, StartAcquires, ContinueChecks, StopMarks, ReloadChecks,
      SelectChecks, JogChecks, SettingsReload
  <1> QED
    BY <1>t, <1>r, <1>x, FirstResumes, ThreadsAssumption DEF StartAcquires, Enter, CallsOK, WorksOK,
      CallType, WorkType, ServiceTypeOK, RunInv, OpInv, CallOps, WorkOps, Starting, NoCall, NoWork,
      ContinueChecks, StopMarks, Goto, ReloadChecks, SelectChecks, JogChecks, SettingsReload,
      CallerBegins, Start

\* A start finds where its run may begin.
LEMMA StartStartProceeds ==
    ASSUME IInv, OpInv, SnapshotInv, WorkInv, NoContinueOfRepeats, NEW c \in Callers, StartProceeds(c)
    PROVE  StartInv'
  <1> USE DEF StartInv, LapInv, CalibrationWork, FreshStart, ResumeInv, Lapping, serviceVars,
    ownVars, scanVars, WorkInv
  <1>t. CallsOK /\ WorksOK /\ ServiceTypeOK
    BY IInvTypes
  <1>k. ScannerTypeOK
    BY IInvTypes
  <1>r. RunInv
    BY DEF IInv
  <1>x. Scans' = Scans
    BY SameScans DEF StartProceeds, ContinueAcquires, StartValidates, StartHasNoScan, StartRefused,
      ResumeReads, ResumeEnsures, EnsureFails, EnsureRefused, CalibrationLoads,
      CalibrationLoadFails,
      CalibrationSetsPoints, CalibrationHasNoScan, StartClearsAbort, StartClearsMotion, StartRuns,
      StartSpawns
  <1>1. CASE ContinueAcquires(c)
    BY <1>t, <1>r, <1>x, FirstResumes, ThreadsAssumption, <1>1 DEF ContinueAcquires, Goto, Return,
      CallsOK, WorksOK, CallType, WorkType, ServiceTypeOK, RunInv, OpInv, CallOps, WorkOps,
      Starting, NoCall, NoWork
  <1>2. CASE StartValidates(c)
    BY <1>t, <1>r, <1>x, FirstResumes, ThreadsAssumption, <1>2 DEF StartValidates, Goto, CallsOK,
      WorksOK, CallType, WorkType, ServiceTypeOK, RunInv, OpInv, CallOps, WorkOps, Starting,
      NoCall, NoWork
  <1>3. CASE StartRefused(c) \/ StartHasNoScan(c)
    BY <1>t, <1>r, <1>x, FirstResumes, ThreadsAssumption, <1>3 DEF StartRefused, StartHasNoScan,
      Return, Raises, CallsOK,
      WorksOK, CallType, WorkType, ServiceTypeOK, RunInv, OpInv, CallOps, WorkOps, Starting,
      NoCall, NoWork
  <1>4. CASE ResumeReads(c)
    <2>1. CASE Return(c)
      BY <1>t, <1>r, <1>4, <2>1 DEF ResumeReads, Return, CallsOK, WorksOK, CallType, WorkType,
        RunInv,
         Starting, NoCall
    <2>2. CASE project # None /\ step # None
      <3>1. call[c].op = "resume" /\ "resume" \in Ops
        BY <1>4 DEF ResumeReads, OpInv, CallOps
      <3>2. MayResume(Scans[project], step)
        BY <2>2, <3>1 DEF NoContinueOfRepeats
      <3>3. call' = [call EXCEPT ![c] = [at |-> "ensure", op |-> "resume",
                                         step |-> step, project |-> project]]
        BY <2>2, <1>4 DEF ResumeReads
      <3> QED
        BY <1>t, <1>r, <1>x, <2>2, <3>2, <3>3, <1>4 DEF ResumeReads, CallsOK, CallType, RunInv,
          Starting
    <2> QED
      BY <1>4, <2>1, <2>2 DEF ResumeReads, Raises
  <1>5. CASE ResumeEnsures(c)
    BY <1>t, <1>r, <1>x, FirstResumes, ThreadsAssumption, <1>5 DEF ResumeEnsures, Goto, CallsOK,
      WorksOK,
      CallType, WorkType, ServiceTypeOK, RunInv, OpInv, CallOps, WorkOps, Starting, NoCall, NoWork
  <1>6. CASE EnsureFails(c)
    BY <1>t, <1>r, <1>x, FirstResumes, ThreadsAssumption, <1>6 DEF EnsureFails, Return, Raises,
      CallsOK,
      WorksOK, CallType, WorkType, ServiceTypeOK, RunInv, OpInv, CallOps, WorkOps, Starting,
      NoCall, NoWork
  <1>7. CASE EnsureRefused(c)
    BY <1>t, <1>r, <1>x, FirstResumes, ThreadsAssumption, <1>7 DEF EnsureRefused, Return, CallsOK,
      WorksOK, CallType, WorkType, ServiceTypeOK, RunInv, OpInv, CallOps, WorkOps, Starting,
      NoCall, NoWork
  <1>8. CASE CalibrationLoads(c)
    BY <1>t, <1>r, <1>x, FirstResumes, ThreadsAssumption, <1>8 DEF CalibrationLoads, Goto, CallsOK,
      WorksOK, CallType, WorkType, ServiceTypeOK, RunInv, OpInv, CallOps, WorkOps, Starting,
      NoCall, NoWork
  <1>9. CASE CalibrationLoadFails(c) \/ CalibrationHasNoScan(c)
    BY <1>t, <1>r, <1>x, FirstResumes, ThreadsAssumption, <1>9 DEF CalibrationLoadFails,
      CalibrationHasNoScan, PointsFromSnapshot, Return, Raises,
      CallsOK, WorksOK, CallType, WorkType, ServiceTypeOK, RunInv, OpInv, CallOps, WorkOps,
      Starting, NoCall, NoWork
  <1>10. CASE CalibrationSetsPoints(c)
    BY <1>t, <1>r, <1>x, FirstResumes, ThreadsAssumption, <1>10 DEF CalibrationSetsPoints,
      PointsFromSnapshot, Goto, CallsOK,
      WorksOK, CallType, WorkType, ServiceTypeOK, RunInv, OpInv, CallOps, WorkOps, Starting,
      NoCall, NoWork
  <1>11. CASE StartClearsAbort(c)
    BY <1>t, <1>r, <1>x, FirstResumes, ThreadsAssumption, <1>11 DEF StartClearsAbort, Goto, CallsOK,
      WorksOK, CallType, WorkType, ServiceTypeOK, RunInv, OpInv, CallOps, WorkOps, Starting,
      NoCall, NoWork
  <1>12. CASE StartClearsMotion(c)
    BY <1>t, <1>r, <1>x, FirstResumes, ThreadsAssumption, <1>12 DEF StartClearsMotion, Goto,
      CallsOK,
      WorksOK, CallType, WorkType, ServiceTypeOK, RunInv, OpInv, CallOps, WorkOps, Starting,
      NoCall, NoWork
  <1>13. CASE StartRuns(c)
    BY <1>t, <1>r, <1>x, FirstResumes, ThreadsAssumption, NoneNotEnd, ResumesFilled, <1>13 DEF
      StartRuns,
      Goto, CallsOK, WorksOK, CallType, WorkType, ServiceTypeOK, RunInv, OpInv, CallOps, WorkOps,
      Starting, NoCall, NoWork
  <1>14. ASSUME NEW w \in Workers, StartSpawns(c, w) PROVE StartInv'
    BY <1>t, <1>r, <1>x, FirstResumes, ThreadsAssumption, <1>14 DEF StartSpawns, Return, CallsOK,
      WorksOK, CallType, WorkType, ServiceTypeOK, RunInv, OpInv, CallOps, WorkOps, Starting,
      NoCall, NoWork
  <1> QED
    BY <1>1, <1>2, <1>3, <1>4, <1>5, <1>6, <1>7, <1>8, <1>9, <1>10, <1>11, <1>12, <1>13, <1>14 DEF
      StartProceeds

\* A worker that is started begins its lap where it may.
LEMMA LapStartProceeds ==
    ASSUME IInv, OpInv, SnapshotInv, WorkInv, NoContinueOfRepeats, NEW c \in Callers, StartProceeds(c)
    PROVE  LapInv'
  <1> USE DEF StartInv, LapInv, CalibrationWork, FreshStart, ResumeInv, Lapping, serviceVars,
    ownVars, scanVars, WorkInv
  <1>t. CallsOK /\ WorksOK /\ ServiceTypeOK
    BY IInvTypes
  <1>k. ScannerTypeOK
    BY IInvTypes
  <1>r. RunInv
    BY DEF IInv
  <1>x. Scans' = Scans
    BY SameScans DEF StartProceeds, ContinueAcquires, StartValidates, StartHasNoScan, StartRefused,
      ResumeReads, ResumeEnsures, EnsureFails, EnsureRefused, CalibrationLoads,
      CalibrationLoadFails,
      CalibrationSetsPoints, CalibrationHasNoScan, StartClearsAbort, StartClearsMotion, StartRuns,
      StartSpawns
  <1>1. CASE ContinueAcquires(c)
    BY <1>t, <1>r, <1>x, FirstResumes, ThreadsAssumption, <1>1 DEF ContinueAcquires, Goto, Return,
      CallsOK, WorksOK, CallType, WorkType, ServiceTypeOK, RunInv, OpInv, CallOps, WorkOps,
      Starting, NoCall, NoWork
  <1>2. CASE StartValidates(c)
    BY <1>t, <1>r, <1>x, FirstResumes, ThreadsAssumption, <1>2 DEF StartValidates, Goto, CallsOK,
      WorksOK, CallType, WorkType, ServiceTypeOK, RunInv, OpInv, CallOps, WorkOps, Starting,
      NoCall, NoWork
  <1>3. CASE StartRefused(c) \/ StartHasNoScan(c)
    BY <1>t, <1>r, <1>x, FirstResumes, ThreadsAssumption, <1>3 DEF StartRefused, StartHasNoScan,
      Return, Raises, CallsOK,
      WorksOK, CallType, WorkType, ServiceTypeOK, RunInv, OpInv, CallOps, WorkOps, Starting,
      NoCall, NoWork
  <1>4. CASE ResumeReads(c)
    BY <1>t, <1>r, <1>x, FirstResumes, ThreadsAssumption, <1>4 DEF ResumeReads, Return, Raises,
      CallsOK,
      WorksOK, CallType, WorkType, ServiceTypeOK, RunInv, OpInv, CallOps, WorkOps, Starting,
      NoCall, NoWork
  <1>5. CASE ResumeEnsures(c)
    BY <1>t, <1>r, <1>x, FirstResumes, ThreadsAssumption, <1>5 DEF ResumeEnsures, Goto, CallsOK,
      WorksOK,
      CallType, WorkType, ServiceTypeOK, RunInv, OpInv, CallOps, WorkOps, Starting, NoCall, NoWork
  <1>6. CASE EnsureFails(c)
    BY <1>t, <1>r, <1>x, FirstResumes, ThreadsAssumption, <1>6 DEF EnsureFails, Return, Raises,
      CallsOK,
      WorksOK, CallType, WorkType, ServiceTypeOK, RunInv, OpInv, CallOps, WorkOps, Starting,
      NoCall, NoWork
  <1>7. CASE EnsureRefused(c)
    BY <1>t, <1>r, <1>x, FirstResumes, ThreadsAssumption, <1>7 DEF EnsureRefused, Return, CallsOK,
      WorksOK, CallType, WorkType, ServiceTypeOK, RunInv, OpInv, CallOps, WorkOps, Starting,
      NoCall, NoWork
  <1>8. CASE CalibrationLoads(c)
    BY <1>t, <1>r, <1>x, FirstResumes, ThreadsAssumption, <1>8 DEF CalibrationLoads, Goto, CallsOK,
      WorksOK, CallType, WorkType, ServiceTypeOK, RunInv, OpInv, CallOps, WorkOps, Starting,
      NoCall, NoWork
  <1>9. CASE CalibrationLoadFails(c) \/ CalibrationHasNoScan(c)
    BY <1>t, <1>r, <1>x, FirstResumes, ThreadsAssumption, <1>9 DEF CalibrationLoadFails,
      CalibrationHasNoScan, PointsFromSnapshot, Return, Raises,
      CallsOK, WorksOK, CallType, WorkType, ServiceTypeOK, RunInv, OpInv, CallOps, WorkOps,
      Starting, NoCall, NoWork
  <1>10. CASE CalibrationSetsPoints(c)
    BY <1>t, <1>r, <1>x, FirstResumes, ThreadsAssumption, <1>10 DEF CalibrationSetsPoints,
      PointsFromSnapshot, Goto, CallsOK,
      WorksOK, CallType, WorkType, ServiceTypeOK, RunInv, OpInv, CallOps, WorkOps, Starting,
      NoCall, NoWork
  <1>11. CASE StartClearsAbort(c)
    BY <1>t, <1>r, <1>x, FirstResumes, ThreadsAssumption, <1>11 DEF StartClearsAbort, Goto, CallsOK,
      WorksOK, CallType, WorkType, ServiceTypeOK, RunInv, OpInv, CallOps, WorkOps, Starting,
      NoCall, NoWork
  <1>12. CASE StartClearsMotion(c)
    BY <1>t, <1>r, <1>x, FirstResumes, ThreadsAssumption, <1>12 DEF StartClearsMotion, Goto,
      CallsOK,
      WorksOK, CallType, WorkType, ServiceTypeOK, RunInv, OpInv, CallOps, WorkOps, Starting,
      NoCall, NoWork
  <1>13. CASE StartRuns(c)
    BY <1>t, <1>r, <1>x, FirstResumes, ThreadsAssumption, <1>13 DEF StartRuns, Goto, CallsOK,
      WorksOK,
      CallType, WorkType, ServiceTypeOK, RunInv, OpInv, CallOps, WorkOps, Starting, NoCall, NoWork
  <1>14. ASSUME NEW w \in Workers, StartSpawns(c, w) PROVE LapInv'
    BY <1>t, <1>r, <1>x, FirstResumes, ThreadsAssumption, <1>14 DEF StartSpawns, Return, CallsOK,
      WorksOK, CallType, WorkType, ServiceTypeOK, RunInv, OpInv, CallOps, WorkOps, Starting,
      NoCall, NoWork
  <1> QED
    BY <1>1, <1>2, <1>3, <1>4, <1>5, <1>6, <1>7, <1>8, <1>9, <1>10, <1>11, <1>12, <1>13, <1>14 DEF
      StartProceeds

\* A start sets the resume point it has read.
LEMMA ResumeStartProceeds ==
    ASSUME IInv, OpInv, SnapshotInv, WorkInv, NoContinueOfRepeats, NEW c \in Callers, StartProceeds(c)
    PROVE  ResumeInv' /\ CalibrationWork'
  <1> USE DEF StartInv, LapInv, CalibrationWork, FreshStart, ResumeInv, Lapping, serviceVars,
    ownVars, scanVars, WorkInv
  <1>t. CallsOK /\ WorksOK /\ ServiceTypeOK
    BY IInvTypes
  <1>k. ScannerTypeOK
    BY IInvTypes
  <1>r. RunInv
    BY DEF IInv
  <1>x. Scans' = Scans
    BY SameScans DEF StartProceeds, ContinueAcquires, StartValidates, StartHasNoScan, StartRefused,
      ResumeReads, ResumeEnsures, EnsureFails, EnsureRefused, CalibrationLoads,
      CalibrationLoadFails,
      CalibrationSetsPoints, CalibrationHasNoScan, StartClearsAbort, StartClearsMotion, StartRuns,
      StartSpawns
  <1>1. CASE ContinueAcquires(c)
    BY <1>t, <1>r, <1>x, FirstResumes, ThreadsAssumption, <1>1 DEF ContinueAcquires, Goto, Return,
      CallsOK, WorksOK, CallType, WorkType, ServiceTypeOK, RunInv, OpInv, CallOps, WorkOps,
      Starting, NoCall, NoWork
  <1>2. CASE StartValidates(c)
    BY <1>t, <1>r, <1>x, FirstResumes, ThreadsAssumption, <1>2 DEF StartValidates, Goto, CallsOK,
      WorksOK, CallType, WorkType, ServiceTypeOK, RunInv, OpInv, CallOps, WorkOps, Starting,
      NoCall, NoWork
  <1>3. CASE StartRefused(c) \/ StartHasNoScan(c)
    BY <1>t, <1>r, <1>x, FirstResumes, ThreadsAssumption, <1>3 DEF StartRefused, StartHasNoScan,
      Return, Raises, CallsOK,
      WorksOK, CallType, WorkType, ServiceTypeOK, RunInv, OpInv, CallOps, WorkOps, Starting,
      NoCall, NoWork
  <1>4. CASE ResumeReads(c)
    BY <1>t, <1>r, <1>x, FirstResumes, ThreadsAssumption, <1>4 DEF ResumeReads, Return, Raises,
      CallsOK,
      WorksOK, CallType, WorkType, ServiceTypeOK, RunInv, OpInv, CallOps, WorkOps, Starting,
      NoCall, NoWork
  <1>5. CASE ResumeEnsures(c)
    BY <1>t, <1>r, <1>x, FirstResumes, ThreadsAssumption, <1>5 DEF ResumeEnsures, Goto, CallsOK,
      WorksOK,
      CallType, WorkType, ServiceTypeOK, RunInv, OpInv, CallOps, WorkOps, Starting, NoCall, NoWork
  <1>6. CASE EnsureFails(c)
    BY <1>t, <1>r, <1>x, FirstResumes, ThreadsAssumption, <1>6 DEF EnsureFails, Return, Raises,
      CallsOK,
      WorksOK, CallType, WorkType, ServiceTypeOK, RunInv, OpInv, CallOps, WorkOps, Starting,
      NoCall, NoWork
  <1>7. CASE EnsureRefused(c)
    BY <1>t, <1>r, <1>x, FirstResumes, ThreadsAssumption, <1>7 DEF EnsureRefused, Return, CallsOK,
      WorksOK, CallType, WorkType, ServiceTypeOK, RunInv, OpInv, CallOps, WorkOps, Starting,
      NoCall, NoWork
  <1>8. CASE CalibrationLoads(c)
    BY <1>t, <1>r, <1>x, FirstResumes, ThreadsAssumption, <1>8 DEF CalibrationLoads, Goto, CallsOK,
      WorksOK, CallType, WorkType, ServiceTypeOK, RunInv, OpInv, CallOps, WorkOps, Starting,
      NoCall, NoWork
  <1>9. CASE CalibrationLoadFails(c) \/ CalibrationHasNoScan(c)
    BY <1>t, <1>r, <1>x, FirstResumes, ThreadsAssumption, <1>9 DEF CalibrationLoadFails,
      CalibrationHasNoScan, PointsFromSnapshot, Return, Raises,
      CallsOK, WorksOK, CallType, WorkType, ServiceTypeOK, RunInv, OpInv, CallOps, WorkOps,
      Starting, NoCall, NoWork
  <1>10. CASE CalibrationSetsPoints(c)
    BY <1>t, <1>r, <1>x, FirstResumes, ThreadsAssumption, <1>10 DEF CalibrationSetsPoints,
      PointsFromSnapshot, Goto, CallsOK,
      WorksOK, CallType, WorkType, ServiceTypeOK, RunInv, OpInv, CallOps, WorkOps, Starting,
      NoCall, NoWork
  <1>11. CASE StartClearsAbort(c)
    BY <1>t, <1>r, <1>x, FirstResumes, ThreadsAssumption, <1>11 DEF StartClearsAbort, Goto, CallsOK,
      WorksOK, CallType, WorkType, ServiceTypeOK, RunInv, OpInv, CallOps, WorkOps, Starting,
      NoCall, NoWork
  <1>12. CASE StartClearsMotion(c)
    BY <1>t, <1>r, <1>x, FirstResumes, ThreadsAssumption, <1>12 DEF StartClearsMotion, Goto,
      CallsOK,
      WorksOK, CallType, WorkType, ServiceTypeOK, RunInv, OpInv, CallOps, WorkOps, Starting,
      NoCall, NoWork
  <1>13. CASE StartRuns(c)
    BY <1>t, <1>r, <1>x, FirstResumes, ThreadsAssumption, <1>13 DEF StartRuns, Goto, CallsOK,
      WorksOK,
      CallType, WorkType, ServiceTypeOK, RunInv, OpInv, CallOps, WorkOps, Starting, NoCall, NoWork
  <1>14. ASSUME NEW w \in Workers, StartSpawns(c, w) PROVE ResumeInv' /\ CalibrationWork'
    BY <1>t, <1>r, <1>x, FirstResumes, ThreadsAssumption, <1>14 DEF StartSpawns, Return, CallsOK,
      WorksOK, CallType, WorkType, ServiceTypeOK, RunInv, OpInv, CallOps, WorkOps, Starting,
      NoCall, NoWork
  <1> QED
    BY <1>1, <1>2, <1>3, <1>4, <1>5, <1>6, <1>7, <1>8, <1>9, <1>10, <1>11, <1>12, <1>13, <1>14 DEF
      StartProceeds

\* A stop leaves a start alone.
LEMMA StartStopProceeds ==
    ASSUME IInv, OpInv, SnapshotInv, WorkInv, NoContinueOfRepeats, NEW c \in Callers, StopProceeds(c)
    PROVE  StartInv'
  <1> USE DEF StartInv, LapInv, CalibrationWork, FreshStart, ResumeInv, Lapping, serviceVars,
    ownVars, scanVars, WorkInv
  <1>t. CallsOK /\ WorksOK /\ ServiceTypeOK
    BY IInvTypes
  <1>k. ScannerTypeOK
    BY IInvTypes
  <1>r. RunInv
    BY DEF IInv
  <1>x. Scans' = Scans
    BY SameScans DEF StopProceeds, StopMarks, StopSetsAbort, StopCancelsMotion, StopJoins,
      ReloadRestarts,
      ReloadForgets
  <1> QED
    BY <1>t, <1>r, <1>x, FirstResumes, ThreadsAssumption, NoneNotEnd DEF StopMarks, Enter, CallsOK,
      WorksOK, CallType, WorkType, ServiceTypeOK, RunInv, OpInv, CallOps, WorkOps, Starting,
      NoCall, NoWork, Goto, StopSetsAbort, StopCancelsMotion, StopJoins, Return, ReloadRestarts,
      ReloadForgets, Forget, StopProceeds

\* A stop leaves a lap alone.
LEMMA LapStopProceeds ==
    ASSUME IInv, OpInv, SnapshotInv, WorkInv, NoContinueOfRepeats, NEW c \in Callers, StopProceeds(c)
    PROVE  LapInv'
  <1> USE DEF StartInv, LapInv, CalibrationWork, FreshStart, ResumeInv, Lapping, serviceVars,
    ownVars, scanVars, WorkInv
  <1>t. CallsOK /\ WorksOK /\ ServiceTypeOK
    BY IInvTypes
  <1>k. ScannerTypeOK
    BY IInvTypes
  <1>r. RunInv
    BY DEF IInv
  <1>x. Scans' = Scans
    BY SameScans DEF StopProceeds, StopMarks, StopSetsAbort, StopCancelsMotion, StopJoins,
      ReloadRestarts,
      ReloadForgets
  <1> QED
    BY <1>t, <1>r, <1>x, FirstResumes, ThreadsAssumption, NoneNotEnd DEF StopMarks, Enter, CallsOK,
      WorksOK, CallType, WorkType, ServiceTypeOK, RunInv, OpInv, CallOps, WorkOps, Starting,
      NoCall, NoWork, Goto, StopSetsAbort, StopCancelsMotion, StopJoins, Return, ReloadRestarts,
      ReloadForgets, Forget, StopProceeds

\* A reload forgets the resume point.
LEMMA ResumeStopProceeds ==
    ASSUME IInv, OpInv, SnapshotInv, WorkInv, NoContinueOfRepeats, NEW c \in Callers, StopProceeds(c)
    PROVE  ResumeInv' /\ CalibrationWork'
  <1> USE DEF StartInv, LapInv, CalibrationWork, FreshStart, ResumeInv, Lapping, serviceVars,
    ownVars, scanVars, WorkInv
  <1>t. CallsOK /\ WorksOK /\ ServiceTypeOK
    BY IInvTypes
  <1>k. ScannerTypeOK
    BY IInvTypes
  <1>r. RunInv
    BY DEF IInv
  <1>x. Scans' = Scans
    BY SameScans DEF StopProceeds, StopMarks, StopSetsAbort, StopCancelsMotion, StopJoins,
      ReloadRestarts,
      ReloadForgets
  <1> QED
    BY <1>t, <1>r, <1>x, FirstResumes, ThreadsAssumption DEF StopMarks, Enter, CallsOK, WorksOK,
      CallType, WorkType, ServiceTypeOK, RunInv, OpInv, CallOps, WorkOps, Starting, NoCall, NoWork,
      Goto, StopSetsAbort, StopCancelsMotion, StopJoins, Return, ReloadRestarts, ReloadForgets,
      Forget, StopProceeds

\* A change of the path leaves a start alone.
LEMMA StartPathProceeds ==
    ASSUME IInv, OpInv, SnapshotInv, WorkInv, NoContinueOfRepeats, NEW c \in Callers, PathProceeds(c)
    PROVE  StartInv'
  <1> USE DEF StartInv, LapInv, CalibrationWork, FreshStart, ResumeInv, Lapping, serviceVars,
    ownVars, scanVars, WorkInv
  <1>t. CallsOK /\ WorksOK /\ ServiceTypeOK
    BY IInvTypes
  <1>k. ScannerTypeOK
    BY IInvTypes
  <1>r. RunInv
    BY DEF IInv
  <1>x. Scans' = Scans
    BY SameScans DEF PathProceeds, SelectReloads, PathChecks, PathSets, JogEnsuresClient,
      JogClearsMotion,
      JogEnds
  <1> QED
    BY <1>t, <1>r, <1>x, FirstResumes, ThreadsAssumption DEF SelectReloads, Goto, CallsOK, WorksOK,
      CallType, WorkType, ServiceTypeOK, RunInv, OpInv, CallOps, WorkOps, Starting, NoCall, NoWork,
      PathChecks, Return, PathSets, PointsFromSnapshot, JogEnsuresClient, JogClearsMotion, JogEnds,
      PathProceeds

\* A change of the path leaves a lap alone.
LEMMA LapPathProceeds ==
    ASSUME IInv, OpInv, SnapshotInv, WorkInv, NoContinueOfRepeats, NEW c \in Callers, PathProceeds(c)
    PROVE  LapInv'
  <1> USE DEF StartInv, LapInv, CalibrationWork, FreshStart, ResumeInv, Lapping, serviceVars,
    ownVars, scanVars, WorkInv
  <1>t. CallsOK /\ WorksOK /\ ServiceTypeOK
    BY IInvTypes
  <1>k. ScannerTypeOK
    BY IInvTypes
  <1>r. RunInv
    BY DEF IInv
  <1>x. Scans' = Scans
    BY SameScans DEF PathProceeds, SelectReloads, PathChecks, PathSets, JogEnsuresClient,
      JogClearsMotion,
      JogEnds
  <1> QED
    BY <1>t, <1>r, <1>x, FirstResumes, ThreadsAssumption DEF SelectReloads, Goto, CallsOK, WorksOK,
      CallType, WorkType, ServiceTypeOK, RunInv, OpInv, CallOps, WorkOps, Starting, NoCall, NoWork,
      PathChecks, Return, PathSets, PointsFromSnapshot, JogEnsuresClient, JogClearsMotion, JogEnds,
      PathProceeds

\* A change of the path keeps the resume point.
LEMMA ResumePathProceeds ==
    ASSUME IInv, OpInv, SnapshotInv, WorkInv, NoContinueOfRepeats, NEW c \in Callers, PathProceeds(c)
    PROVE  ResumeInv' /\ CalibrationWork'
  <1> USE DEF StartInv, LapInv, CalibrationWork, FreshStart, ResumeInv, Lapping, serviceVars,
    ownVars, scanVars, WorkInv
  <1>t. CallsOK /\ WorksOK /\ ServiceTypeOK
    BY IInvTypes
  <1>k. ScannerTypeOK
    BY IInvTypes
  <1>r. RunInv
    BY DEF IInv
  <1>x. Scans' = Scans
    BY SameScans DEF PathProceeds, SelectReloads, PathChecks, PathSets, JogEnsuresClient,
      JogClearsMotion,
      JogEnds
  <1> QED
    BY <1>t, <1>r, <1>x, FirstResumes, ThreadsAssumption DEF SelectReloads, Goto, CallsOK, WorksOK,
      CallType, WorkType, ServiceTypeOK, RunInv, OpInv, CallOps, WorkOps, Starting, NoCall, NoWork,
      PathChecks, Return, PathSets, PointsFromSnapshot, JogEnsuresClient, JogClearsMotion, JogEnds,
      PathProceeds

\* A lap is no start.
LEMMA StartLap ==
    ASSUME IInv, OpInv, SnapshotInv, WorkInv, NoContinueOfRepeats, NEW w \in Workers, Lap(w)
    PROVE  StartInv'
  <1> USE DEF StartInv, LapInv, CalibrationWork, FreshStart, ResumeInv, Lapping, serviceVars,
    ownVars, scanVars, WorkInv
  <1>t. CallsOK /\ WorksOK /\ ServiceTypeOK
    BY IInvTypes
  <1>k. ScannerTypeOK
    BY IInvTypes
  <1>r. RunInv
    BY DEF IInv
  <1>x. Scans' = Scans
    BY SameScans DEF Lap, LapBegins, WorkerCreates, LapReads, CalibrationEnters, RunCannotBegin,
      RunBegins,
      OnStep, RunEnds, RunRepeats, NextLapCreates, NextLapSetsPoints, NewProject
  <1> QED
    BY <1>t, <1>r, <1>x, FirstResumes, ThreadsAssumption DEF LapBegins, WorkGoto, CallsOK, WorksOK,
      CallType, WorkType, ServiceTypeOK, RunInv, OpInv, CallOps, WorkOps, Starting, NoCall, NoWork,
      WorkerCreates, NewProject, LapReads, CalibrationEnters, RunCannotBegin, Raise, RunBegins,
      OnStep, RunEnds, RunRepeats, NextLapCreates, NextLapSetsPoints, PointsFromSnapshot, Lap

\* A lap takes its positions in turn.
LEMMA LapLap ==
    ASSUME IInv, OpInv, SnapshotInv, WorkInv, NoContinueOfRepeats, NEW w \in Workers, Lap(w)
    PROVE  LapInv'
  <1> USE DEF StartInv, LapInv, CalibrationWork, FreshStart, ResumeInv, Lapping, serviceVars,
    ownVars, scanVars, WorkInv
  <1>t. CallsOK /\ WorksOK /\ ServiceTypeOK
    BY IInvTypes
  <1>k. ScannerTypeOK
    BY IInvTypes
  <1>r. RunInv
    BY DEF IInv
  <1>x. Scans' = Scans
    BY SameScans DEF Lap, LapBegins, WorkerCreates, LapReads, CalibrationEnters, RunCannotBegin,
      RunBegins,
      OnStep, RunEnds, RunRepeats, NextLapCreates, NextLapSetsPoints, NewProject
  <1>1. CASE LapBegins(w)
    BY <1>t, <1>r, <1>x, FirstResumes, ThreadsAssumption, <1>1 DEF LapBegins, WorkGoto, CallsOK,
      WorksOK,
      CallType, WorkType, ServiceTypeOK, RunInv, OpInv, CallOps, WorkOps, Starting, NoCall, NoWork
  <1>2. CASE WorkerCreates(w)
    BY <1>t, <1>r, <1>x, FirstResumes, ThreadsAssumption, <1>2 DEF WorkerCreates, WorkGoto,
      NewProject,
      CallsOK, WorksOK, CallType, WorkType, ServiceTypeOK, RunInv, OpInv, CallOps, WorkOps,
      Starting, NoCall, NoWork
  <1>3. CASE LapReads(w)
    BY <1>t, <1>r, <1>x, FirstResumes, ThreadsAssumption, <1>3 DEF LapReads, CallsOK, WorksOK,
      CallType,
      WorkType, ServiceTypeOK, RunInv, OpInv, CallOps, WorkOps, Starting, NoCall, NoWork
  <1>4. CASE CalibrationEnters(w)
    BY <1>t, <1>r, <1>x, FirstResumes, ThreadsAssumption, <1>4 DEF CalibrationEnters, WorkGoto,
      CallsOK,
      WorksOK, CallType, WorkType, ServiceTypeOK, RunInv, OpInv, CallOps, WorkOps, Starting,
      NoCall, NoWork
  <1>5. CASE RunCannotBegin(w)
    BY <1>t, <1>r, <1>x, FirstResumes, ThreadsAssumption, <1>5 DEF RunCannotBegin, WorkGoto, Raise,
      CallsOK, WorksOK, CallType, WorkType, ServiceTypeOK, RunInv, OpInv, CallOps, WorkOps,
      Starting, NoCall, NoWork
  <1>6. CASE RunBegins(w)
    BY <1>t, <1>r, <1>x, FirstResumes, ThreadsAssumption, ResumesFilled, <1>6 DEF RunBegins,
      CallsOK,
      WorksOK, CallType, WorkType, ServiceTypeOK, RunInv, OpInv, CallOps, WorkOps, Starting,
      NoCall, NoWork, StopsAtLastScan
  <1>7. CASE OnStep(w)
    BY <1>t, <1>r, <1>x, FirstResumes, ThreadsAssumption, ResumesFilled, <1>7 DEF OnStep, WorkGoto,
      CallsOK, WorksOK, CallType, WorkType, ServiceTypeOK, RunInv, OpInv, CallOps, WorkOps,
      Starting, NoCall, NoWork
  <1>8. CASE RunEnds(w)
    BY <1>t, <1>r, <1>x, FirstResumes, ThreadsAssumption, NoneNotEnd, <1>8 DEF RunEnds, WorkGoto,
      CallsOK, WorksOK, CallType, WorkType, ServiceTypeOK, RunInv, OpInv, CallOps, WorkOps,
      Starting, NoCall, NoWork
  <1>9. CASE RunRepeats(w)
    BY <1>t, <1>r, <1>x, FirstResumes, ThreadsAssumption, <1>9 DEF RunRepeats, WorkGoto, CallsOK,
      WorksOK, CallType, WorkType, ServiceTypeOK, RunInv, OpInv, CallOps, WorkOps, Starting,
      NoCall, NoWork
  <1>10. CASE NextLapCreates(w)
    BY <1>t, <1>r, <1>x, FirstResumes, ThreadsAssumption, <1>10 DEF NextLapCreates, WorkGoto,
      NewProject,
      CallsOK, WorksOK, CallType, WorkType, ServiceTypeOK, RunInv, OpInv, CallOps, WorkOps,
      Starting, NoCall, NoWork
  <1>11. CASE NextLapSetsPoints(w)
    BY <1>t, <1>r, <1>x, FirstResumes, ThreadsAssumption, <1>11 DEF NextLapSetsPoints, WorkGoto,
      PointsFromSnapshot, CallsOK, WorksOK, CallType, WorkType, ServiceTypeOK, RunInv, OpInv,
      CallOps, WorkOps, Starting, NoCall, NoWork
  <1> QED
    BY <1>1, <1>2, <1>3, <1>4, <1>5, <1>6, <1>7, <1>8, <1>9, <1>10, <1>11 DEF Lap

\* A step is a resume point of its project.
LEMMA ResumeLap ==
    ASSUME IInv, OpInv, SnapshotInv, WorkInv, NoContinueOfRepeats, NEW w \in Workers, Lap(w)
    PROVE  ResumeInv' /\ CalibrationWork'
  <1> USE DEF StartInv, LapInv, CalibrationWork, FreshStart, ResumeInv, Lapping, serviceVars,
    ownVars, scanVars, WorkInv
  <1>t. CallsOK /\ WorksOK /\ ServiceTypeOK
    BY IInvTypes
  <1>k. ScannerTypeOK
    BY IInvTypes
  <1>r. RunInv
    BY DEF IInv
  <1>x. Scans' = Scans
    BY SameScans DEF Lap, LapBegins, WorkerCreates, LapReads, CalibrationEnters, RunCannotBegin,
      RunBegins,
      OnStep, RunEnds, RunRepeats, NextLapCreates, NextLapSetsPoints, NewProject
  <1>1. CASE LapBegins(w)
    BY <1>t, <1>r, <1>x, FirstResumes, ThreadsAssumption, <1>1 DEF LapBegins, WorkGoto, CallsOK,
      WorksOK,
      CallType, WorkType, ServiceTypeOK, RunInv, OpInv, CallOps, WorkOps, Starting, NoCall, NoWork
  <1>2. CASE WorkerCreates(w)
    BY <1>t, <1>r, <1>x, FirstResumes, ThreadsAssumption, <1>2 DEF WorkerCreates, WorkGoto,
      NewProject,
      CallsOK, WorksOK, CallType, WorkType, ServiceTypeOK, RunInv, OpInv, CallOps, WorkOps,
      Starting, NoCall, NoWork
  <1>3. CASE LapReads(w)
    BY <1>t, <1>r, <1>x, FirstResumes, ThreadsAssumption, <1>3 DEF LapReads, CallsOK, WorksOK,
      CallType,
      WorkType, ServiceTypeOK, RunInv, OpInv, CallOps, WorkOps, Starting, NoCall, NoWork
  <1>4. CASE CalibrationEnters(w)
    BY <1>t, <1>r, <1>x, FirstResumes, ThreadsAssumption, <1>4 DEF CalibrationEnters, WorkGoto,
      CallsOK,
      WorksOK, CallType, WorkType, ServiceTypeOK, RunInv, OpInv, CallOps, WorkOps, Starting,
      NoCall, NoWork
  <1>5. CASE RunCannotBegin(w)
    BY <1>t, <1>r, <1>x, FirstResumes, ThreadsAssumption, <1>5 DEF RunCannotBegin, WorkGoto, Raise,
      CallsOK, WorksOK, CallType, WorkType, ServiceTypeOK, RunInv, OpInv, CallOps, WorkOps,
      Starting, NoCall, NoWork
  <1>6. CASE RunBegins(w)
    BY <1>t, <1>r, <1>x, FirstResumes, ThreadsAssumption, <1>6 DEF RunBegins, CallsOK, WorksOK,
      CallType,
      WorkType, ServiceTypeOK, RunInv, OpInv, CallOps, WorkOps, Starting, NoCall, NoWork
  <1>7. CASE OnStep(w)
    BY <1>t, <1>r, <1>x, FirstResumes, ThreadsAssumption, <1>7 DEF OnStep, WorkGoto, CallsOK,
      WorksOK,
      CallType, WorkType, ServiceTypeOK, RunInv, OpInv, CallOps, WorkOps, Starting, NoCall, NoWork
  <1>8. CASE RunEnds(w)
    BY <1>t, <1>r, <1>x, FirstResumes, ThreadsAssumption, <1>8 DEF RunEnds, WorkGoto, CallsOK,
      WorksOK,
      CallType, WorkType, ServiceTypeOK, RunInv, OpInv, CallOps, WorkOps, Starting, NoCall, NoWork
  <1>9. CASE RunRepeats(w)
    BY <1>t, <1>r, <1>x, FirstResumes, ThreadsAssumption, <1>9 DEF RunRepeats, WorkGoto, CallsOK,
      WorksOK, CallType, WorkType, ServiceTypeOK, RunInv, OpInv, CallOps, WorkOps, Starting,
      NoCall, NoWork
  <1>10. CASE NextLapCreates(w)
    BY <1>t, <1>r, <1>x, FirstResumes, ThreadsAssumption, <1>10 DEF NextLapCreates, WorkGoto,
      NewProject,
      CallsOK, WorksOK, CallType, WorkType, ServiceTypeOK, RunInv, OpInv, CallOps, WorkOps,
      Starting, NoCall, NoWork
  <1>11. CASE NextLapSetsPoints(w)
    BY <1>t, <1>r, <1>x, FirstResumes, ThreadsAssumption, <1>11 DEF NextLapSetsPoints, WorkGoto,
      PointsFromSnapshot, CallsOK, WorksOK, CallType, WorkType, ServiceTypeOK, RunInv, OpInv,
      CallOps, WorkOps, Starting, NoCall, NoWork
  <1> QED
    BY <1>1, <1>2, <1>3, <1>4, <1>5, <1>6, <1>7, <1>8, <1>9, <1>10, <1>11 DEF Lap

\* A run that waits for the machine is no start.
LEMMA StartMachine ==
    ASSUME IInv, OpInv, SnapshotInv, WorkInv, NoContinueOfRepeats, NEW w \in Workers, Machine(w)
    PROVE  StartInv'
  <1> USE DEF StartInv, LapInv, CalibrationWork, FreshStart, ResumeInv, Lapping, serviceVars,
    ownVars, scanVars, WorkInv
  <1>t. CallsOK /\ WorksOK /\ ServiceTypeOK
    BY IInvTypes
  <1>k. ScannerTypeOK
    BY IInvTypes
  <1>r. RunInv
    BY DEF IInv
  <1> QED
    BY <1>t, <1>r, FirstResumes, ThreadsAssumption DEF WorkerTravels, WorkGoto, CallsOK, WorksOK,
      CallType, WorkType, ServiceTypeOK, RunInv, OpInv, CallOps, WorkOps, Starting, NoCall, NoWork,
      WorkerMoves, WorkerScans, WorkerSkipsScan, AfterScan, LapEnds, Machine

\* A scan fills the position it is for.
LEMMA LapMachine ==
    ASSUME IInv, OpInv, SnapshotInv, WorkInv, NoContinueOfRepeats, NEW w \in Workers, Machine(w)
    PROVE  LapInv'
  <1> USE DEF StartInv, LapInv, CalibrationWork, FreshStart, ResumeInv, Lapping, serviceVars,
    ownVars, scanVars, WorkInv
  <1>t. CallsOK /\ WorksOK /\ ServiceTypeOK
    BY IInvTypes
  <1>k. ScannerTypeOK
    BY IInvTypes
  <1>r. RunInv
    BY DEF IInv
  <1>x. WorkerTravels(w) \/ WorkerMoves(w) \/ LapEnds(w) => Scans' = Scans
    BY SameScans DEF WorkerTravels, WorkerMoves, LapEnds
  <1>1. CASE WorkerTravels(w)
    BY <1>t, <1>r, <1>x, FirstResumes, ThreadsAssumption, <1>1 DEF WorkerTravels, WorkGoto, CallsOK,
      WorksOK, CallType, WorkType, ServiceTypeOK, RunInv, OpInv, CallOps, WorkOps, Starting,
      NoCall, NoWork
  <1>2. CASE WorkerMoves(w)
    BY <1>t, <1>r, <1>x, FirstResumes, ThreadsAssumption, ResumesFilled, <1>2 DEF WorkerMoves,
      CallsOK,
      WorksOK, CallType, WorkType, ServiceTypeOK, RunInv, OpInv, CallOps, WorkOps, Starting,
      NoCall, NoWork
  <1>3. CASE WorkerScans(w) \/ WorkerSkipsScan(w)
    <2>1. /\ work[w].at = "scanning"
          /\ work' = [work EXCEPT ![w] = [@ EXCEPT !.i = work[w].i + 1,
                 !.at = IF StopsAtLastScan(w) /\ work[w].i = LastScan THEN "home" ELSE "loop"]]
          /\ UNCHANGED <<serviceVars, ownVars>>
      BY <1>3 DEF WorkerScans, WorkerSkipsScan, AfterScan
    <2>2. \A v \in Workers : v # w => work[v].at = "dead" /\ work'[v] = work[v]
      BY <1>t, <1>r, <2>1 DEF RunInv, WorksOK
    <2>3. CASE work[w].op = "calibration"
      BY <1>t, <2>1, <2>2, <2>3 DEF WorksOK, WorkType, StopsAtLastScan
    <2>4. CASE work[w].op # "calibration"
      <3> DEFINE p == work[w].project
                 n == work[w].i
                 more == Scans[p] \cup {<<work[w].path, n>>}
      <3>1. p \in Projects /\ n \in Nat /\ n # End /\ work[w].path \in Paths
        <4>1. work[w].project # None /\ work[w].i \in Indices
          BY <1>t, <2>1, <2>4 DEF WorksOK, WorkType
        <4>2. p \in Projects
          BY <1>t, <4>1 DEF WorksOK, WorkType
        <4>3. n # End
          BY <2>1 DEF IInv, LocalsOK
        <4>4. work[w].path \in Paths
          BY <2>1, <2>4 DEF SnapshotInv, Driven
        <4>5. n \in Nat
          BY <4>1, RunBoundsAssumption DEF Indices, First, End
        <4> QED
          BY <4>2, <4>3, <4>4, <4>5
      <3>2. Filled(Scans[p], n)
        BY <2>1, <2>4, ResumesFilled
      <3>3. Filled(more, n + 1)
        BY <3>1, <3>2, ScanFills
      <3>4. n + 1 # End \/ n = LastScan
        BY <3>1, RunBoundsAssumption DEF End
      <3>5. Scans'[p] = more
        <4>1. CASE WorkerScans(w)
          BY <1>k, <2>4, <3>1, <4>1 DEF WorkerScans, ScannerTypeOK, Scans, Treated
        <4>2. CASE WorkerSkipsScan(w)
          BY <1>k, <2>4, <3>1, <4>2 DEF WorkerSkipsScan, ScannerTypeOK, Scans, Treated
        <4> QED
          BY <1>3, <4>1, <4>2
      <3>6. StopsAtLastScan(w) <=> RunMode = "single_last_scan"
        BY <2>4 DEF StopsAtLastScan
      <3>7. n = LastScan => n + 1 = End
        BY DEF End
      <3>8. /\ work'[w].project = p /\ work'[w].i = n + 1 /\ work'[w].op = work[w].op
            /\ work'[w].at = IF StopsAtLastScan(w) /\ n = LastScan THEN "home" ELSE "loop"
        BY <1>t, <2>1 DEF WorksOK, WorkType
      <3>9. CASE work'[w].at = "home"
        <4>1. n + 1 = End
          BY <3>7, <3>8, <3>9
        <4>2. Filled(Scans'[p], End)
          BY <3>3, <3>5, <4>1
        <4>3. work[w].project # None /\ ~defer /\ (RunMode = "single_last_scan" => step # End)
          BY <2>1, <2>4
        <4> HIDE DEF p, n, more
        <4> QED
          BY <2>1, <2>2, <3>8, <3>9, <4>2, <4>3 DEF p
      <3>10. CASE work'[w].at = "loop"
        <4>1. MayResume(Scans'[p], n + 1)
          BY <3>3, <3>4, <3>5, <3>6, <3>8, <3>10 DEF MayResume
        <4>2. work[w].project # None /\ ~defer /\ (RunMode = "single_last_scan" => step # End)
          BY <2>1, <2>4
        <4> HIDE DEF p, n, more
        <4> QED
          BY <2>1, <2>2, <3>8, <3>10, <4>1, <4>2 DEF p, n
      <3> QED
        BY <3>8, <3>9, <3>10
    <2> QED
      BY <2>3, <2>4
  <1>4. CASE LapEnds(w)
    BY <1>t, <1>r, <1>x, FirstResumes, ThreadsAssumption, <1>4 DEF LapEnds, WorkGoto, CallsOK,
      WorksOK,
      CallType, WorkType, ServiceTypeOK, RunInv, OpInv, CallOps, WorkOps, Starting, NoCall, NoWork
  <1> QED
    BY <1>1, <1>2, <1>3, <1>4 DEF Machine

\* A scan keeps the resume point.
LEMMA ResumeMachine ==
    ASSUME IInv, OpInv, SnapshotInv, WorkInv, NoContinueOfRepeats, NEW w \in Workers, Machine(w)
    PROVE  ResumeInv' /\ CalibrationWork'
  <1> USE DEF StartInv, LapInv, CalibrationWork, FreshStart, ResumeInv, Lapping, serviceVars,
    ownVars, scanVars, WorkInv
  <1>t. CallsOK /\ WorksOK /\ ServiceTypeOK
    BY IInvTypes
  <1>k. ScannerTypeOK
    BY IInvTypes
  <1>r. RunInv
    BY DEF IInv
  <1>x. WorkerTravels(w) \/ WorkerMoves(w) \/ LapEnds(w) => Scans' = Scans
    BY SameScans DEF WorkerTravels, WorkerMoves, LapEnds
  <1>1. CASE WorkerTravels(w)
    BY <1>t, <1>r, <1>x, FirstResumes, ThreadsAssumption, <1>1 DEF WorkerTravels, WorkGoto, CallsOK,
      WorksOK, CallType, WorkType, ServiceTypeOK, RunInv, OpInv, CallOps, WorkOps, Starting,
      NoCall, NoWork
  <1>2. CASE WorkerMoves(w)
    BY <1>t, <1>r, <1>x, FirstResumes, ThreadsAssumption, <1>2 DEF WorkerMoves, CallsOK, WorksOK,
      CallType, WorkType, ServiceTypeOK, RunInv, OpInv, CallOps, WorkOps, Starting, NoCall, NoWork
  <1>3. CASE WorkerScans(w) \/ WorkerSkipsScan(w)
    <2>1. /\ work[w].at = "scanning" /\ UNCHANGED serviceVars
          /\ \A v \in Workers : work'[v].op = work[v].op /\ (work[v].at = "dead" => work'[v].at = "dead")
      BY <1>t, <1>3, ScanStep
    <2>2. CalibrationWork'
      BY <2>1
    <2>3. project # None => Scans[project] \subseteq Scans[project]'
      BY <1>t, <1>k, <1>3 DEF WorkerScans, WorkerSkipsScan, AfterScan, ScannerTypeOK, ServiceTypeOK,
        Scans, Treated
    <2> QED
      BY <2>1, <2>2, <2>3, FilledGrows
  <1>4. CASE LapEnds(w)
    <2>1. /\ work[w].at \in {"ended", "home"} /\ work[w].op # "calibration"
          /\ project' = work[w].project /\ step' = step /\ Scans' = Scans
      BY <1>4, SameScans DEF LapEnds, OpInv, WorkOps
    <2>2. CalibrationWork'
      BY <1>t, <1>r, <2>1, <1>4 DEF LapEnds, WorkGoto, WorksOK, WorkType, RunInv
    <2>3. step # None => MayResume(Scans[work[w].project], step)
      <3>1. step # None => step \in Indices
        BY <1>t DEF ServiceTypeOK
      <3>2. Filled(Scans[work[w].project], End) /\ (RunMode = "single_last_scan" => step # End)
        BY <2>1
      <3> QED
        BY <3>1, <3>2, FilledBefore DEF MayResume
    <2> QED
      BY <2>1, <2>2, <2>3
  <1> QED
    BY <1>1, <1>2, <1>3, <1>4 DEF Machine

\* A run that ends is no start.
LEMMA StartOutcome ==
    ASSUME IInv, OpInv, SnapshotInv, WorkInv, NoContinueOfRepeats, NEW w \in Workers, Outcome(w)
    PROVE  StartInv'
  <1> USE DEF StartInv, LapInv, CalibrationWork, FreshStart, ResumeInv, Lapping, serviceVars,
    ownVars, scanVars, WorkInv
  <1>t. CallsOK /\ WorksOK /\ ServiceTypeOK
    BY IInvTypes
  <1>k. ScannerTypeOK
    BY IInvTypes
  <1>r. RunInv
    BY DEF IInv
  <1>x. Scans' = Scans
    BY SameScans DEF Outcome, WorkerSeesAbort, WorkerSeesCancel, CalibrationExits, RunFails
  <1> QED
    BY <1>t, <1>r, <1>x, FirstResumes, ThreadsAssumption DEF WorkerSeesAbort, WorkGoto, Raise,
      CallsOK,
      WorksOK, CallType, WorkType, ServiceTypeOK, RunInv, OpInv, CallOps, WorkOps, Starting,
      NoCall, NoWork, WorkerSeesCancel, CalibrationExits, RunFails, Outcome

\* A run that ends keeps what its lap has filled.
LEMMA LapOutcome ==
    ASSUME IInv, OpInv, SnapshotInv, WorkInv, NoContinueOfRepeats, NEW w \in Workers, Outcome(w)
    PROVE  LapInv'
  <1> USE DEF StartInv, LapInv, CalibrationWork, FreshStart, ResumeInv, Lapping, serviceVars,
    ownVars, scanVars, WorkInv
  <1>t. CallsOK /\ WorksOK /\ ServiceTypeOK
    BY IInvTypes
  <1>k. ScannerTypeOK
    BY IInvTypes
  <1>r. RunInv
    BY DEF IInv
  <1>x. Scans' = Scans
    BY SameScans DEF Outcome, WorkerSeesAbort, WorkerSeesCancel, CalibrationExits, RunFails
  <1>1. CASE WorkerSeesAbort(w)
    <2>1. PICK l \in {"aborted", "failed", "exitAborted", "exitFailed"} : work' = [work EXCEPT ![w].at = l]
      BY <1>1 DEF WorkerSeesAbort, SeesAbort, Raise, WorkGoto
    <2>2. work[w].at # "dead" /\ call' = call /\ UNCHANGED <<serviceVars, ownVars>>
      BY <1>1 DEF WorkerSeesAbort, SeesAbort, Raise, WorkGoto
    <2> QED
      BY <1>t, <1>r, <1>x, <2>1, <2>2 DEF CallsOK, WorksOK, CallType, WorkType
  <1>2. CASE WorkerSeesCancel(w)
    BY <1>t, <1>r, <1>x, FirstResumes, ThreadsAssumption, <1>2 DEF WorkerSeesCancel, WorkGoto,
      Raise,
      CallsOK, WorksOK, CallType, WorkType, ServiceTypeOK, RunInv, OpInv, CallOps, WorkOps,
      Starting, NoCall, NoWork
  <1>3. CASE CalibrationExits(w)
    BY <1>t, <1>r, <1>x, FirstResumes, ThreadsAssumption, <1>3 DEF CalibrationExits, WorkGoto,
      CallsOK,
      WorksOK, CallType, WorkType, ServiceTypeOK, RunInv, OpInv, CallOps, WorkOps, Starting,
      NoCall, NoWork
  <1>4. CASE RunFails(w)
    BY <1>t, <1>r, <1>x, FirstResumes, ThreadsAssumption, <1>4 DEF RunFails, WorkGoto, CallsOK,
      WorksOK,
      CallType, WorkType, ServiceTypeOK, RunInv, OpInv, CallOps, WorkOps, Starting, NoCall, NoWork
  <1> QED
    BY <1>1, <1>2, <1>3, <1>4 DEF Outcome

\* A run that ends keeps the resume point.
LEMMA ResumeOutcome ==
    ASSUME IInv, OpInv, SnapshotInv, WorkInv, NoContinueOfRepeats, NEW w \in Workers, Outcome(w)
    PROVE  ResumeInv' /\ CalibrationWork'
  <1> USE DEF StartInv, LapInv, CalibrationWork, FreshStart, ResumeInv, Lapping, serviceVars,
    ownVars, scanVars, WorkInv
  <1>t. CallsOK /\ WorksOK /\ ServiceTypeOK
    BY IInvTypes
  <1>k. ScannerTypeOK
    BY IInvTypes
  <1>r. RunInv
    BY DEF IInv
  <1>x. Scans' = Scans
    BY SameScans DEF Outcome, WorkerSeesAbort, WorkerSeesCancel, CalibrationExits, RunFails
  <1>1. CASE WorkerSeesAbort(w)
    <2>1. PICK l \in {"aborted", "failed", "exitAborted", "exitFailed"} : work' = [work EXCEPT ![w].at = l]
      BY <1>1 DEF WorkerSeesAbort, SeesAbort, Raise, WorkGoto
    <2>2. work[w].at # "dead" /\ call' = call /\ UNCHANGED <<serviceVars, ownVars>>
      BY <1>1 DEF WorkerSeesAbort, SeesAbort, Raise, WorkGoto
    <2> QED
      BY <1>t, <1>r, <1>x, <2>1, <2>2 DEF CallsOK, WorksOK, CallType, WorkType
  <1>2. CASE WorkerSeesCancel(w)
    BY <1>t, <1>r, <1>x, FirstResumes, ThreadsAssumption, <1>2 DEF WorkerSeesCancel, WorkGoto,
      Raise,
      CallsOK, WorksOK, CallType, WorkType, ServiceTypeOK, RunInv, OpInv, CallOps, WorkOps,
      Starting, NoCall, NoWork
  <1>3. CASE CalibrationExits(w)
    BY <1>t, <1>r, <1>x, FirstResumes, ThreadsAssumption, <1>3 DEF CalibrationExits, WorkGoto,
      CallsOK,
      WorksOK, CallType, WorkType, ServiceTypeOK, RunInv, OpInv, CallOps, WorkOps, Starting,
      NoCall, NoWork
  <1>4. CASE RunFails(w)
    BY <1>t, <1>r, <1>x, FirstResumes, ThreadsAssumption, <1>4 DEF RunFails, WorkGoto, CallsOK,
      WorksOK,
      CallType, WorkType, ServiceTypeOK, RunInv, OpInv, CallOps, WorkOps, Starting, NoCall, NoWork
  <1> QED
    BY <1>1, <1>2, <1>3, <1>4 DEF Outcome

\* A run that fails is no start.
LEMMA StartFails ==
    ASSUME IInv, OpInv, SnapshotInv, WorkInv, NoContinueOfRepeats, NEW w \in Workers, WorkerFails(w)
    PROVE  StartInv'
  <1> USE DEF StartInv, LapInv, CalibrationWork, FreshStart, ResumeInv, Lapping, serviceVars,
    ownVars, scanVars, WorkInv
  <1>t. CallsOK /\ WorksOK /\ ServiceTypeOK
    BY IInvTypes
  <1>k. ScannerTypeOK
    BY IInvTypes
  <1>r. RunInv
    BY DEF IInv
  <1>x. Scans' = Scans
    BY SameScans DEF WorkerFails
  <1> QED
    BY <1>t, <1>r, <1>x, FirstResumes, ThreadsAssumption DEF WorkerFails, WorkGoto, Raise, CallsOK,
      WorksOK, CallType, WorkType, ServiceTypeOK, RunInv, OpInv, CallOps, WorkOps, Starting,
      NoCall, NoWork

\* A run that fails keeps what its lap has filled.
LEMMA LapFails ==
    ASSUME IInv, OpInv, SnapshotInv, WorkInv, NoContinueOfRepeats, NEW w \in Workers, WorkerFails(w)
    PROVE  LapInv'
  <1> USE DEF StartInv, LapInv, CalibrationWork, FreshStart, ResumeInv, Lapping, serviceVars,
    ownVars, scanVars, WorkInv
  <1>t. CallsOK /\ WorksOK /\ ServiceTypeOK
    BY IInvTypes
  <1>k. ScannerTypeOK
    BY IInvTypes
  <1>r. RunInv
    BY DEF IInv
  <1>x. Scans' = Scans
    BY SameScans DEF WorkerFails
  <1>1. PICK l \in {"aborted", "failed", "exitAborted", "exitFailed"} : work' = [work EXCEPT ![w].at = l]
    BY DEF WorkerFails, Commands, Raise, WorkGoto
  <1>2. work[w].at # "dead" /\ call' = call /\ UNCHANGED <<serviceVars, ownVars>>
    BY DEF WorkerFails, Commands, Raise, WorkGoto
  <1> QED
    BY <1>t, <1>r, <1>x, <1>1, <1>2 DEF CallsOK, WorksOK, CallType, WorkType

\* A run that fails keeps the resume point.
LEMMA ResumeFails ==
    ASSUME IInv, OpInv, SnapshotInv, WorkInv, NoContinueOfRepeats, NEW w \in Workers, WorkerFails(w)
    PROVE  ResumeInv' /\ CalibrationWork'
  <1> USE DEF StartInv, LapInv, CalibrationWork, FreshStart, ResumeInv, Lapping, serviceVars,
    ownVars, scanVars, WorkInv
  <1>t. CallsOK /\ WorksOK /\ ServiceTypeOK
    BY IInvTypes
  <1>k. ScannerTypeOK
    BY IInvTypes
  <1>r. RunInv
    BY DEF IInv
  <1>x. Scans' = Scans
    BY SameScans DEF WorkerFails
  <1>1. PICK l \in {"aborted", "failed", "exitAborted", "exitFailed"} : work' = [work EXCEPT ![w].at = l]
    BY DEF WorkerFails, Commands, Raise, WorkGoto
  <1>2. work[w].at # "dead" /\ call' = call /\ UNCHANGED <<serviceVars, ownVars>>
    BY DEF WorkerFails, Commands, Raise, WorkGoto
  <1> QED
    BY <1>t, <1>r, <1>x, <1>1, <1>2 DEF CallsOK, WorksOK, CallType, WorkType

\* A run that is cleaned up is no start.
LEMMA StartCleanup ==
    ASSUME IInv, OpInv, SnapshotInv, WorkInv, NoContinueOfRepeats, NEW w \in Workers, Cleanup(w)
    PROVE  StartInv'
  <1> USE DEF StartInv, LapInv, CalibrationWork, FreshStart, ResumeInv, Lapping, serviceVars,
    ownVars, scanVars, WorkInv
  <1>t. CallsOK /\ WorksOK /\ ServiceTypeOK
    BY IInvTypes
  <1>k. ScannerTypeOK
    BY IInvTypes
  <1>r. RunInv
    BY DEF IInv
  <1>x. Scans' = Scans
    BY SameScans DEF Cleanup, WorkerClearsAbort, WorkerClearsMotion, CalibrationRestores,
      CalibrationChecksState, CalibrationRestoresPoints, WorkerReleases
  <1> QED
    BY <1>t, <1>r, <1>x, FirstResumes, ThreadsAssumption DEF WorkerClearsAbort, WorkGoto, CallsOK,
      WorksOK, CallType, WorkType, ServiceTypeOK, RunInv, OpInv, CallOps, WorkOps, Starting,
      NoCall, NoWork, WorkerClearsMotion, CalibrationRestores, CalibrationChecksState,
      CalibrationRestoresPoints, PointsFromSnapshot, WorkerReleases, Cleanup

\* A run that is cleaned up keeps what its lap has filled.
LEMMA LapCleanup ==
    ASSUME IInv, OpInv, SnapshotInv, WorkInv, NoContinueOfRepeats, NEW w \in Workers, Cleanup(w)
    PROVE  LapInv'
  <1> USE DEF StartInv, LapInv, CalibrationWork, FreshStart, ResumeInv, Lapping, serviceVars,
    ownVars, scanVars, WorkInv
  <1>t. CallsOK /\ WorksOK /\ ServiceTypeOK
    BY IInvTypes
  <1>k. ScannerTypeOK
    BY IInvTypes
  <1>r. RunInv
    BY DEF IInv
  <1>x. Scans' = Scans
    BY SameScans DEF Cleanup, WorkerClearsAbort, WorkerClearsMotion, CalibrationRestores,
      CalibrationChecksState, CalibrationRestoresPoints, WorkerReleases
  <1> QED
    BY <1>t, <1>r, <1>x, FirstResumes, ThreadsAssumption DEF WorkerClearsAbort, WorkGoto, CallsOK,
      WorksOK, CallType, WorkType, ServiceTypeOK, RunInv, OpInv, CallOps, WorkOps, Starting,
      NoCall, NoWork, WorkerClearsMotion, CalibrationRestores, CalibrationChecksState,
      CalibrationRestoresPoints, PointsFromSnapshot, WorkerReleases, Cleanup

\* A run that is cleaned up keeps the resume point.
LEMMA ResumeCleanup ==
    ASSUME IInv, OpInv, SnapshotInv, WorkInv, NoContinueOfRepeats, NEW w \in Workers, Cleanup(w)
    PROVE  ResumeInv' /\ CalibrationWork'
  <1> USE DEF StartInv, LapInv, CalibrationWork, FreshStart, ResumeInv, Lapping, serviceVars,
    ownVars, scanVars, WorkInv
  <1>t. CallsOK /\ WorksOK /\ ServiceTypeOK
    BY IInvTypes
  <1>k. ScannerTypeOK
    BY IInvTypes
  <1>r. RunInv
    BY DEF IInv
  <1>x. Scans' = Scans
    BY SameScans DEF Cleanup, WorkerClearsAbort, WorkerClearsMotion, CalibrationRestores,
      CalibrationChecksState, CalibrationRestoresPoints, WorkerReleases
  <1> QED
    BY <1>t, <1>r, <1>x, FirstResumes, ThreadsAssumption DEF WorkerClearsAbort, WorkGoto, CallsOK,
      WorksOK, CallType, WorkType, ServiceTypeOK, RunInv, OpInv, CallOps, WorkOps, Starting,
      NoCall, NoWork, WorkerClearsMotion, CalibrationRestores, CalibrationChecksState,
      CalibrationRestoresPoints, PointsFromSnapshot, WorkerReleases, Cleanup

\* The initialisation can only take a project away from a start.
LEMMA StartInitWorker ==
    ASSUME IInv, OpInv, SnapshotInv, WorkInv, NoContinueOfRepeats, InitWorker
    PROVE  StartInv'
  <1> USE DEF StartInv, LapInv, CalibrationWork, FreshStart, ResumeInv, Lapping, serviceVars,
    ownVars, scanVars, WorkInv
  <1>t. CallsOK /\ WorksOK /\ ServiceTypeOK
    BY IInvTypes
  <1>k. ScannerTypeOK
    BY IInvTypes
  <1>r. RunInv
    BY DEF IInv
  <1>x. Scans' = Scans
    BY SameScans DEF InitWorker, InitChecks, InitBegins, InitScanner, InitForgets, InitChecksClient,
      InitCreatesClient, InitEnds
  <1> QED
    BY <1>t, <1>r, <1>x, FirstResumes, ThreadsAssumption, NoneNotEnd DEF InitChecks, CallsOK,
      WorksOK,
      CallType, WorkType, ServiceTypeOK, RunInv, OpInv, CallOps, WorkOps, Starting, NoCall, NoWork,
      InitBegins, InitScanner, InitForgets, Forget, InitChecksClient, InitCreatesClient, InitEnds,
      InitGoto, NoInit,
      InitWorker

\* The initialisation can only take a project away from a lap.
LEMMA LapInitWorker ==
    ASSUME IInv, OpInv, SnapshotInv, WorkInv, NoContinueOfRepeats, InitWorker
    PROVE  LapInv'
  <1> USE DEF StartInv, LapInv, CalibrationWork, FreshStart, ResumeInv, Lapping, serviceVars,
    ownVars, scanVars, WorkInv
  <1>t. CallsOK /\ WorksOK /\ ServiceTypeOK
    BY IInvTypes
  <1>k. ScannerTypeOK
    BY IInvTypes
  <1>r. RunInv
    BY DEF IInv
  <1>x. Scans' = Scans
    BY SameScans DEF InitWorker, InitChecks, InitBegins, InitScanner, InitForgets, InitChecksClient,
      InitCreatesClient, InitEnds
  <1> QED
    BY <1>t, <1>r, <1>x, FirstResumes, ThreadsAssumption, NoneNotEnd DEF InitChecks, CallsOK,
      WorksOK,
      CallType, WorkType, ServiceTypeOK, RunInv, OpInv, CallOps, WorkOps, Starting, NoCall, NoWork,
      InitBegins, InitScanner, InitForgets, Forget, InitChecksClient, InitCreatesClient, InitEnds,
      InitGoto, NoInit,
      InitWorker

\* The initialisation can only forget the resume point.
LEMMA ResumeInitWorker ==
    ASSUME IInv, OpInv, SnapshotInv, WorkInv, NoContinueOfRepeats, InitWorker
    PROVE  ResumeInv' /\ CalibrationWork'
  <1> USE DEF StartInv, LapInv, CalibrationWork, FreshStart, ResumeInv, Lapping, serviceVars,
    ownVars, scanVars, WorkInv
  <1>t. CallsOK /\ WorksOK /\ ServiceTypeOK
    BY IInvTypes
  <1>k. ScannerTypeOK
    BY IInvTypes
  <1>r. RunInv
    BY DEF IInv
  <1>x. Scans' = Scans
    BY SameScans DEF InitWorker, InitChecks, InitBegins, InitScanner, InitForgets, InitChecksClient,
      InitCreatesClient, InitEnds
  <1> QED
    BY <1>t, <1>r, <1>x, FirstResumes, ThreadsAssumption DEF InitChecks, CallsOK, WorksOK, CallType,
      WorkType, ServiceTypeOK, RunInv, OpInv, CallOps, WorkOps, Starting, NoCall, NoWork,
      InitBegins, InitScanner, InitForgets, Forget, InitChecksClient, InitCreatesClient, InitEnds,
      InitGoto, NoInit,
      InitWorker

\* A lost scanner can only take a project away from a start.
LEMMA StartDrops ==
    ASSUME IInv, OpInv, SnapshotInv, WorkInv, NoContinueOfRepeats, ScannerDrops \/ LeftExports
    PROVE  StartInv'
  <1> USE DEF StartInv, LapInv, CalibrationWork, FreshStart, ResumeInv, Lapping, serviceVars,
    ownVars, scanVars, WorkInv
  <1>t. CallsOK /\ WorksOK /\ ServiceTypeOK
    BY IInvTypes
  <1>k. ScannerTypeOK
    BY IInvTypes
  <1>r. RunInv
    BY DEF IInv
  <1>x. Scans' = Scans
    BY SameScans DEF ScannerDrops, LeftExports, ExportTakesLock, ExportEnds
  <1> QED
    BY <1>t, <1>r, <1>x, FirstResumes, ThreadsAssumption, NoneNotEnd DEF ScannerDrops,
      LeftExports, ExportTakesLock, ExportEnds, Forget, CallsOK,
      WorksOK, CallType, WorkType, ServiceTypeOK, RunInv, OpInv, CallOps, WorkOps, Starting,
      NoCall, NoWork

\* A lost scanner can only take a project away from a lap.
LEMMA LapDrops ==
    ASSUME IInv, OpInv, SnapshotInv, WorkInv, NoContinueOfRepeats, ScannerDrops \/ LeftExports
    PROVE  LapInv'
  <1> USE DEF StartInv, LapInv, CalibrationWork, FreshStart, ResumeInv, Lapping, serviceVars,
    ownVars, scanVars, WorkInv
  <1>t. CallsOK /\ WorksOK /\ ServiceTypeOK
    BY IInvTypes
  <1>k. ScannerTypeOK
    BY IInvTypes
  <1>r. RunInv
    BY DEF IInv
  <1>x. Scans' = Scans
    BY SameScans DEF ScannerDrops, LeftExports, ExportTakesLock, ExportEnds
  <1> QED
    BY <1>t, <1>r, <1>x, FirstResumes, ThreadsAssumption, NoneNotEnd DEF ScannerDrops,
      LeftExports, ExportTakesLock, ExportEnds, Forget, CallsOK,
      WorksOK, CallType, WorkType, ServiceTypeOK, RunInv, OpInv, CallOps, WorkOps, Starting,
      NoCall, NoWork

\* A lost scanner forgets the resume point.
LEMMA ResumeDrops ==
    ASSUME IInv, OpInv, SnapshotInv, WorkInv, NoContinueOfRepeats, ScannerDrops \/ LeftExports
    PROVE  ResumeInv' /\ CalibrationWork'
  <1> USE DEF StartInv, LapInv, CalibrationWork, FreshStart, ResumeInv, Lapping, serviceVars,
    ownVars, scanVars, WorkInv
  <1>t. CallsOK /\ WorksOK /\ ServiceTypeOK
    BY IInvTypes
  <1>k. ScannerTypeOK
    BY IInvTypes
  <1>r. RunInv
    BY DEF IInv
  <1>x. Scans' = Scans
    BY SameScans DEF ScannerDrops, LeftExports, ExportTakesLock, ExportEnds
  <1> QED
    BY <1>t, <1>r, <1>x, FirstResumes, ThreadsAssumption DEF ScannerDrops, LeftExports,
      ExportTakesLock, ExportEnds, Forget, CallsOK, WorksOK,
      CallType, WorkType, ServiceTypeOK, RunInv, OpInv, CallOps, WorkOps, Starting, NoCall, NoWork

\* Nothing changes of a start.
LEMMA StartStutter ==
    ASSUME IInv, OpInv, SnapshotInv, WorkInv, NoContinueOfRepeats, UNCHANGED vars
    PROVE  StartInv'
  <1> USE DEF StartInv, LapInv, CalibrationWork, FreshStart, ResumeInv, Lapping, serviceVars,
    ownVars, scanVars, WorkInv
  <1>t. CallsOK /\ WorksOK /\ ServiceTypeOK
    BY IInvTypes
  <1>k. ScannerTypeOK
    BY IInvTypes
  <1>r. RunInv
    BY DEF IInv
  <1>x. Scans' = Scans
    BY SameScans DEF vars
  <1> QED
    BY <1>t, <1>r, <1>x, FirstResumes, ThreadsAssumption DEF vars, serviceVars, ownVars, pathVars,
      scanVars, counts

\* Nothing changes of a lap.
LEMMA LapStutter ==
    ASSUME IInv, OpInv, SnapshotInv, WorkInv, NoContinueOfRepeats, UNCHANGED vars
    PROVE  LapInv'
  <1> USE DEF StartInv, LapInv, CalibrationWork, FreshStart, ResumeInv, Lapping, serviceVars,
    ownVars, scanVars, WorkInv
  <1>t. CallsOK /\ WorksOK /\ ServiceTypeOK
    BY IInvTypes
  <1>k. ScannerTypeOK
    BY IInvTypes
  <1>r. RunInv
    BY DEF IInv
  <1>x. Scans' = Scans
    BY SameScans DEF vars
  <1> QED
    BY <1>t, <1>r, <1>x, FirstResumes, ThreadsAssumption DEF vars, serviceVars, ownVars, pathVars,
      scanVars, counts

\* Nothing changes of the resume point.
LEMMA ResumeStutter ==
    ASSUME IInv, OpInv, SnapshotInv, WorkInv, NoContinueOfRepeats, UNCHANGED vars
    PROVE  ResumeInv' /\ CalibrationWork'
  <1> USE DEF StartInv, LapInv, CalibrationWork, FreshStart, ResumeInv, Lapping, serviceVars,
    ownVars, scanVars, WorkInv
  <1>t. CallsOK /\ WorksOK /\ ServiceTypeOK
    BY IInvTypes
  <1>k. ScannerTypeOK
    BY IInvTypes
  <1>r. RunInv
    BY DEF IInv
  <1>x. Scans' = Scans
    BY SameScans DEF vars
  <1> QED
    BY <1>t, <1>r, <1>x, FirstResumes, ThreadsAssumption DEF vars, serviceVars, ownVars, pathVars,
      scanVars, counts

----------------------------------------------------------------------------
(* The run lock.                                                            *)

\* RunLockHasOwner without its set of owners.
LockOwned ==
    runLock => \/ \E c \in Callers : call[c].at \in Starting
               \/ \E w \in Workers : work[w].at # "dead"

\* No request continues a run.
ContinuesNothing == "resume" \notin Ops

\* A request that begins takes the lock for itself.
LEMMA LockCallerBegins ==
    ASSUME IInv, OpInv, ContinuesNothing, LockOwned, NEW c \in Callers, CallerBegins(c)
    PROVE  LockOwned'
  <1> USE DEF LockOwned, serviceVars, ownVars
  <1>t. CallsOK /\ WorksOK
    BY IInvTypes
  <1>r. RunInv
    BY DEF IInv
  <1>1. ASSUME NEW op \in Ops, StartAcquires(c, op) PROVE LockOwned'
    BY <1>t, <1>r, ThreadsAssumption, <1>1 DEF StartAcquires, Enter, CallsOK, WorksOK, CallType,
      WorkType, RunInv, OpInv, CallOps, Starting, NoCall, NoWork, ContinuesNothing
  <1>2. CASE ContinueChecks(c)
    BY <1>t, <1>r, ThreadsAssumption, <1>2 DEF ContinueChecks, Enter, CallsOK, WorksOK, CallType,
      WorkType, RunInv, OpInv, CallOps, Starting, NoCall, NoWork, ContinuesNothing
  <1>3. CASE StopMarks(c)
    <2>1. CASE Enter(c, "stop", "setAbort")
      BY <1>t, <1>r, ThreadsAssumption, <1>3, <2>1 DEF StopMarks, Enter, CallsOK, WorksOK, CallType,
        WorkType, RunInv, OpInv, CallOps, Starting, NoCall, NoWork, ContinuesNothing
    <2>2. CASE call[c].at = "stopFirst" /\ Goto(c, "setAbort")
      BY <1>t, <1>r, ThreadsAssumption, <1>3, <2>2 DEF StopMarks, Goto, CallsOK, WorksOK, CallType,
        WorkType, RunInv, OpInv, CallOps, Starting, NoCall, NoWork, ContinuesNothing
    <2>3. CASE call[c].at = "stopFirst" /\ Goto(c, "restart")
      BY <1>t, <1>r, ThreadsAssumption, <1>3, <2>3 DEF StopMarks, Goto, CallsOK, WorksOK, CallType,
        WorkType, RunInv, OpInv, CallOps, Starting, NoCall, NoWork, ContinuesNothing
    <2> QED
      BY <1>3, <2>1, <2>2, <2>3 DEF StopMarks
  <1>4. CASE ReloadChecks(c)
    BY <1>t, <1>r, ThreadsAssumption, <1>4 DEF ReloadChecks, Enter, CallsOK, WorksOK, CallType,
      WorkType, RunInv, OpInv, CallOps, Starting, NoCall, NoWork, ContinuesNothing
  <1>5. CASE SelectChecks(c)
    BY <1>t, <1>r, ThreadsAssumption, <1>5 DEF SelectChecks, Enter, CallsOK, WorksOK, CallType,
      WorkType, RunInv, OpInv, CallOps, Starting, NoCall, NoWork, ContinuesNothing
  <1>6. CASE JogChecks(c)
    BY <1>t, <1>r, ThreadsAssumption, <1>6 DEF JogChecks, Enter, CallsOK, WorksOK, CallType,
      WorkType, RunInv, OpInv, CallOps, Starting, NoCall, NoWork, ContinuesNothing
  <1>7. ASSUME NEW p \in Paths, SettingsReload(c, p) PROVE LockOwned'
    BY <1>t, <1>r, ThreadsAssumption, <1>7 DEF SettingsReload, CallsOK, WorksOK, CallType,
      WorkType, RunInv, OpInv, CallOps, Starting, NoCall, NoWork, ContinuesNothing
  <1> QED
    BY <1>1, <1>2, <1>3, <1>4, <1>5, <1>6, <1>7 DEF CallerBegins, Start

\* A start gives the lock up, or gives it to its worker.
LEMMA LockStartProceeds ==
    ASSUME IInv, OpInv, ContinuesNothing, LockOwned, NEW c \in Callers, StartProceeds(c)
    PROVE  LockOwned'
  <1> USE DEF LockOwned, serviceVars, ownVars
  <1>t. CallsOK /\ WorksOK
    BY IInvTypes
  <1>r. RunInv
    BY DEF IInv
  <1>1. CASE ContinueAcquires(c)
    BY <1>t, <1>r, ThreadsAssumption, <1>1 DEF ContinueAcquires, Goto, Return, CallsOK, WorksOK,
      CallType, WorkType, RunInv, OpInv, CallOps, Starting, NoCall, NoWork, ContinuesNothing
  <1>2. CASE StartValidates(c)
    BY <1>t, <1>r, ThreadsAssumption, <1>2 DEF StartValidates, Goto, CallsOK, WorksOK, CallType,
      WorkType, RunInv, OpInv, CallOps, Starting, NoCall, NoWork, ContinuesNothing
  <1>3. CASE StartRefused(c) \/ StartHasNoScan(c)
    BY <1>t, <1>r, ThreadsAssumption, <1>3 DEF StartRefused, StartHasNoScan, Return, Raises,
      CallsOK, WorksOK,
      CallType, WorkType, RunInv, OpInv, CallOps, Starting, NoCall, NoWork, ContinuesNothing
  <1>4. CASE ResumeReads(c)
    BY <1>t, <1>r, ThreadsAssumption, <1>4 DEF ResumeReads, Return, Raises, CallsOK, WorksOK,
      CallType, WorkType, RunInv, OpInv, CallOps, Starting, NoCall, NoWork, ContinuesNothing
  <1>5. CASE ResumeEnsures(c)
    BY <1>t, <1>r, ThreadsAssumption, <1>5 DEF ResumeEnsures, Goto, CallsOK, WorksOK, CallType,
      WorkType, RunInv, OpInv, CallOps, Starting, NoCall, NoWork, ContinuesNothing
  <1>6. CASE EnsureFails(c)
    BY <1>t, <1>r, ThreadsAssumption, <1>6 DEF EnsureFails, Return, Raises, CallsOK, WorksOK,
      CallType, WorkType, RunInv, OpInv, CallOps, Starting, NoCall, NoWork, ContinuesNothing
  <1>7. CASE EnsureRefused(c)
    BY <1>t, <1>r, ThreadsAssumption, <1>7 DEF EnsureRefused, Return, CallsOK, WorksOK, CallType,
      WorkType, RunInv, OpInv, CallOps, Starting, NoCall, NoWork, ContinuesNothing
  <1>8. CASE CalibrationLoads(c)
    BY <1>t, <1>r, ThreadsAssumption, <1>8 DEF CalibrationLoads, Goto, CallsOK, WorksOK, CallType,
      WorkType, RunInv, OpInv, CallOps, Starting, NoCall, NoWork, ContinuesNothing
  <1>9. CASE CalibrationLoadFails(c) \/ CalibrationHasNoScan(c)
    BY <1>t, <1>r, ThreadsAssumption, <1>9 DEF CalibrationLoadFails, CalibrationHasNoScan,
      PointsFromSnapshot, Return, Raises, CallsOK,
      WorksOK, CallType, WorkType, RunInv, OpInv, CallOps, Starting, NoCall, NoWork,
      ContinuesNothing
  <1>10. CASE CalibrationSetsPoints(c)
    BY <1>t, <1>r, ThreadsAssumption, <1>10 DEF CalibrationSetsPoints, PointsFromSnapshot, Goto,
      CallsOK, WorksOK,
      CallType, WorkType, RunInv, OpInv, CallOps, Starting, NoCall, NoWork, ContinuesNothing
  <1>11. CASE StartClearsAbort(c)
    BY <1>t, <1>r, ThreadsAssumption, <1>11 DEF StartClearsAbort, Goto, CallsOK, WorksOK, CallType,
      WorkType, RunInv, OpInv, CallOps, Starting, NoCall, NoWork, ContinuesNothing
  <1>12. CASE StartClearsMotion(c)
    BY <1>t, <1>r, ThreadsAssumption, <1>12 DEF StartClearsMotion, Goto, CallsOK, WorksOK,
      CallType, WorkType, RunInv, OpInv, CallOps, Starting, NoCall, NoWork, ContinuesNothing
  <1>13. CASE StartRuns(c)
    BY <1>t, <1>r, ThreadsAssumption, <1>13 DEF StartRuns, Goto, CallsOK, WorksOK, CallType,
      WorkType, RunInv, OpInv, CallOps, Starting, NoCall, NoWork, ContinuesNothing
  <1>14. ASSUME NEW w \in Workers, StartSpawns(c, w) PROVE LockOwned'
    BY <1>t, <1>r, ThreadsAssumption, <1>14 DEF StartSpawns, Return, CallsOK, WorksOK, CallType,
      WorkType, RunInv, OpInv, CallOps, Starting, NoCall, NoWork, ContinuesNothing
  <1> QED
    BY <1>1, <1>2, <1>3, <1>4, <1>5, <1>6, <1>7, <1>8, <1>9, <1>10, <1>11, <1>12, <1>13, <1>14 DEF
      StartProceeds

\* A stop leaves the lock alone.
LEMMA LockStopProceeds ==
    ASSUME IInv, OpInv, ContinuesNothing, LockOwned, NEW c \in Callers, StopProceeds(c)
    PROVE  LockOwned'
  <1> USE DEF LockOwned, serviceVars, ownVars
  <1>t. CallsOK /\ WorksOK
    BY IInvTypes
  <1>r. RunInv
    BY DEF IInv
  <1> QED
    BY <1>t, <1>r, ThreadsAssumption DEF StopMarks, Enter, CallsOK, WorksOK, CallType, WorkType,
      RunInv, OpInv, CallOps, Starting, NoCall, NoWork, ContinuesNothing, Goto, StopSetsAbort,
      StopCancelsMotion, StopJoins, Return, ReloadRestarts, ReloadForgets, Forget, StopProceeds

\* A change of the path leaves the lock alone.
LEMMA LockPathProceeds ==
    ASSUME IInv, OpInv, ContinuesNothing, LockOwned, NEW c \in Callers, PathProceeds(c)
    PROVE  LockOwned'
  <1> USE DEF LockOwned, serviceVars, ownVars
  <1>t. CallsOK /\ WorksOK
    BY IInvTypes
  <1>r. RunInv
    BY DEF IInv
  <1> QED
    BY <1>t, <1>r, ThreadsAssumption DEF SelectReloads, Goto, CallsOK, WorksOK, CallType, WorkType,
      RunInv, OpInv, CallOps, Starting, NoCall, NoWork, ContinuesNothing, PathChecks, Return,
      PathSets, PointsFromSnapshot, JogEnsuresClient, JogClearsMotion, JogEnds, PathProceeds

\* A lap keeps the lock.
LEMMA LockLap ==
    ASSUME IInv, OpInv, ContinuesNothing, LockOwned, NEW w \in Workers, Lap(w)
    PROVE  LockOwned'
  <1> USE DEF LockOwned, serviceVars, ownVars
  <1>t. CallsOK /\ WorksOK
    BY IInvTypes
  <1>r. RunInv
    BY DEF IInv
  <1>1. CASE LapBegins(w)
    BY <1>t, <1>r, ThreadsAssumption, <1>1 DEF LapBegins, WorkGoto, CallsOK, WorksOK, CallType,
      WorkType, RunInv, OpInv, CallOps, Starting, NoCall, NoWork, ContinuesNothing
  <1>2. CASE WorkerCreates(w)
    BY <1>t, <1>r, ThreadsAssumption, <1>2 DEF WorkerCreates, WorkGoto, NewProject, CallsOK,
      WorksOK, CallType, WorkType, RunInv, OpInv, CallOps, Starting, NoCall, NoWork,
      ContinuesNothing
  <1>3. CASE LapReads(w)
    BY <1>t, <1>r, ThreadsAssumption, <1>3 DEF LapReads, CallsOK, WorksOK, CallType, WorkType,
      RunInv, OpInv, CallOps, Starting, NoCall, NoWork, ContinuesNothing
  <1>4. CASE CalibrationEnters(w)
    BY <1>t, <1>r, ThreadsAssumption, <1>4 DEF CalibrationEnters, WorkGoto, CallsOK, WorksOK,
      CallType, WorkType, RunInv, OpInv, CallOps, Starting, NoCall, NoWork, ContinuesNothing
  <1>5. CASE RunCannotBegin(w)
    BY <1>t, <1>r, ThreadsAssumption, <1>5 DEF RunCannotBegin, WorkGoto, Raise, CallsOK, WorksOK,
      CallType, WorkType, RunInv, OpInv, CallOps, Starting, NoCall, NoWork, ContinuesNothing
  <1>6. CASE RunBegins(w)
    BY <1>t, <1>r, ThreadsAssumption, <1>6 DEF RunBegins, CallsOK, WorksOK, CallType, WorkType,
      RunInv, OpInv, CallOps, Starting, NoCall, NoWork, ContinuesNothing
  <1>7. CASE OnStep(w)
    BY <1>t, <1>r, ThreadsAssumption, <1>7 DEF OnStep, WorkGoto, CallsOK, WorksOK, CallType,
      WorkType, RunInv, OpInv, CallOps, Starting, NoCall, NoWork, ContinuesNothing
  <1>8. CASE RunEnds(w)
    BY <1>t, <1>r, ThreadsAssumption, <1>8 DEF RunEnds, WorkGoto, CallsOK, WorksOK, CallType,
      WorkType, RunInv, OpInv, CallOps, Starting, NoCall, NoWork, ContinuesNothing
  <1>9. CASE RunRepeats(w)
    BY <1>t, <1>r, ThreadsAssumption, <1>9 DEF RunRepeats, WorkGoto, CallsOK, WorksOK, CallType,
      WorkType, RunInv, OpInv, CallOps, Starting, NoCall, NoWork, ContinuesNothing
  <1>10. CASE NextLapCreates(w)
    BY <1>t, <1>r, ThreadsAssumption, <1>10 DEF NextLapCreates, WorkGoto, NewProject, CallsOK,
      WorksOK, CallType, WorkType, RunInv, OpInv, CallOps, Starting, NoCall, NoWork,
      ContinuesNothing
  <1>11. CASE NextLapSetsPoints(w)
    BY <1>t, <1>r, ThreadsAssumption, <1>11 DEF NextLapSetsPoints, WorkGoto, PointsFromSnapshot,
      CallsOK, WorksOK, CallType, WorkType, RunInv, OpInv, CallOps, Starting, NoCall, NoWork,
      ContinuesNothing
  <1> QED
    BY <1>1, <1>2, <1>3, <1>4, <1>5, <1>6, <1>7, <1>8, <1>9, <1>10, <1>11 DEF Lap

\* A run that waits for the machine keeps the lock.
LEMMA LockMachine ==
    ASSUME IInv, OpInv, ContinuesNothing, LockOwned, NEW w \in Workers, Machine(w)
    PROVE  LockOwned'
  <1> USE DEF LockOwned, serviceVars, ownVars
  <1>t. CallsOK /\ WorksOK
    BY IInvTypes
  <1>r. RunInv
    BY DEF IInv
  <1>1. CASE WorkerTravels(w)
    BY <1>t, <1>r, ThreadsAssumption, <1>1 DEF WorkerTravels, WorkGoto, CallsOK, WorksOK, CallType,
      WorkType, RunInv, OpInv, CallOps, Starting, NoCall, NoWork, ContinuesNothing
  <1>2. CASE WorkerMoves(w)
    BY <1>t, <1>r, ThreadsAssumption, <1>2 DEF WorkerMoves, CallsOK, WorksOK, CallType, WorkType,
      RunInv, OpInv, CallOps, Starting, NoCall, NoWork, ContinuesNothing
  <1>3. CASE WorkerScans(w) \/ WorkerSkipsScan(w)
    BY <1>t, <1>r, ThreadsAssumption, <1>3, ScanStep DEF CallsOK, WorksOK, CallType, WorkType,
      RunInv, OpInv, CallOps, Starting, NoCall, NoWork, ContinuesNothing
  <1>4. CASE LapEnds(w)
    BY <1>t, <1>r, ThreadsAssumption, <1>4 DEF LapEnds, WorkGoto, CallsOK, WorksOK, CallType,
      WorkType, RunInv, OpInv, CallOps, Starting, NoCall, NoWork, ContinuesNothing
  <1> QED
    BY <1>1, <1>2, <1>3, <1>4 DEF Machine

\* A run that ends keeps the lock until it is cleaned up.
LEMMA LockOutcome ==
    ASSUME IInv, OpInv, ContinuesNothing, LockOwned, NEW w \in Workers, Outcome(w)
    PROVE  LockOwned'
  <1> USE DEF LockOwned, serviceVars, ownVars
  <1>t. CallsOK /\ WorksOK
    BY IInvTypes
  <1>r. RunInv
    BY DEF IInv
  <1>1. CASE WorkerSeesAbort(w)
    BY <1>t, <1>r, ThreadsAssumption, <1>1 DEF WorkerSeesAbort, WorkGoto, Raise, CallsOK, WorksOK,
      CallType, WorkType, RunInv, OpInv, CallOps, Starting, NoCall, NoWork, ContinuesNothing
  <1>2. CASE WorkerSeesCancel(w)
    BY <1>t, <1>r, ThreadsAssumption, <1>2 DEF WorkerSeesCancel, WorkGoto, Raise, CallsOK, WorksOK,
      CallType, WorkType, RunInv, OpInv, CallOps, Starting, NoCall, NoWork, ContinuesNothing
  <1>3. CASE CalibrationExits(w)
    BY <1>t, <1>r, ThreadsAssumption, <1>3 DEF CalibrationExits, WorkGoto, CallsOK, WorksOK,
      CallType, WorkType, RunInv, OpInv, CallOps, Starting, NoCall, NoWork, ContinuesNothing
  <1>4. CASE RunFails(w)
    BY <1>t, <1>r, ThreadsAssumption, <1>4 DEF RunFails, WorkGoto, CallsOK, WorksOK, CallType,
      WorkType, RunInv, OpInv, CallOps, Starting, NoCall, NoWork, ContinuesNothing
  <1> QED
    BY <1>1, <1>2, <1>3, <1>4 DEF Outcome

\* A run that fails keeps the lock until it is cleaned up.
LEMMA LockFails ==
    ASSUME IInv, OpInv, ContinuesNothing, LockOwned, NEW w \in Workers, WorkerFails(w)
    PROVE  LockOwned'
  <1> USE DEF LockOwned, serviceVars, ownVars
  <1>t. CallsOK /\ WorksOK
    BY IInvTypes
  <1>r. RunInv
    BY DEF IInv
  <1> QED
    BY <1>t, <1>r, ThreadsAssumption DEF WorkerFails, WorkGoto, Raise, CallsOK, WorksOK, CallType,
      WorkType, RunInv, OpInv, CallOps, Starting, NoCall, NoWork, ContinuesNothing

\* The last that a worker does is to give the lock up.
LEMMA LockCleanup ==
    ASSUME IInv, OpInv, ContinuesNothing, LockOwned, NEW w \in Workers, Cleanup(w)
    PROVE  LockOwned'
  <1> USE DEF LockOwned, serviceVars, ownVars
  <1>t. CallsOK /\ WorksOK
    BY IInvTypes
  <1>r. RunInv
    BY DEF IInv
  <1>1. CASE WorkerClearsAbort(w)
    BY <1>t, <1>r, ThreadsAssumption, <1>1 DEF WorkerClearsAbort, WorkGoto, CallsOK, WorksOK,
      CallType, WorkType, RunInv, OpInv, CallOps, Starting, NoCall, NoWork, ContinuesNothing
  <1>2. CASE WorkerClearsMotion(w)
    BY <1>t, <1>r, ThreadsAssumption, <1>2 DEF WorkerClearsMotion, WorkGoto, CallsOK, WorksOK,
      CallType, WorkType, RunInv, OpInv, CallOps, Starting, NoCall, NoWork, ContinuesNothing
  <1>3. CASE CalibrationRestores(w)
    BY <1>t, <1>r, ThreadsAssumption, <1>3 DEF CalibrationRestores, WorkGoto, CallsOK, WorksOK,
      CallType, WorkType, RunInv, OpInv, CallOps, Starting, NoCall, NoWork, ContinuesNothing
  <1>4. CASE CalibrationChecksState(w)
    BY <1>t, <1>r, ThreadsAssumption, <1>4 DEF CalibrationChecksState, WorkGoto, CallsOK, WorksOK,
      CallType, WorkType, RunInv, OpInv, CallOps, Starting, NoCall, NoWork, ContinuesNothing
  <1>5. CASE CalibrationRestoresPoints(w)
    BY <1>t, <1>r, ThreadsAssumption, <1>5 DEF CalibrationRestoresPoints, WorkGoto,
      PointsFromSnapshot, CallsOK, WorksOK, CallType, WorkType, RunInv, OpInv, CallOps, Starting,
      NoCall, NoWork, ContinuesNothing
  <1>6. CASE WorkerReleases(w)
    BY <1>t, <1>r, ThreadsAssumption, <1>6 DEF WorkerReleases, CallsOK, WorksOK, CallType,
      WorkType, RunInv, OpInv, CallOps, Starting, NoCall, NoWork, ContinuesNothing
  <1> QED
    BY <1>1, <1>2, <1>3, <1>4, <1>5, <1>6 DEF Cleanup

\* The initialisation leaves the lock alone.
LEMMA LockInitWorker ==
    ASSUME IInv, OpInv, ContinuesNothing, LockOwned, InitWorker
    PROVE  LockOwned'
  <1> USE DEF LockOwned, serviceVars, ownVars
  <1>t. CallsOK /\ WorksOK
    BY IInvTypes
  <1>r. RunInv
    BY DEF IInv
  <1> QED
    BY <1>t, <1>r, ThreadsAssumption DEF InitChecks, CallsOK, WorksOK, CallType, WorkType, RunInv,
      OpInv, CallOps, Starting, NoCall, NoWork, ContinuesNothing, InitBegins, InitScanner,
      InitForgets, Forget, InitChecksClient, InitCreatesClient, InitEnds, InitGoto, NoInit,
      InitWorker

\* A lost scanner leaves the lock alone.
LEMMA LockDrops ==
    ASSUME IInv, OpInv, ContinuesNothing, LockOwned, ScannerDrops \/ LeftExports
    PROVE  LockOwned'
  <1> USE DEF LockOwned, serviceVars, ownVars
  <1>t. CallsOK /\ WorksOK
    BY IInvTypes
  <1>r. RunInv
    BY DEF IInv
  <1> QED
    BY <1>t, <1>r, ThreadsAssumption DEF ScannerDrops, LeftExports, ExportTakesLock, ExportEnds,
      Forget, CallsOK, WorksOK, CallType,
      WorkType, RunInv, OpInv, CallOps, Starting, NoCall, NoWork, ContinuesNothing

\* Nothing changes of the lock.
LEMMA LockStutter ==
    ASSUME IInv, OpInv, ContinuesNothing, LockOwned, UNCHANGED vars
    PROVE  LockOwned'
  <1> USE DEF LockOwned, serviceVars, ownVars
  <1>t. CallsOK /\ WorksOK
    BY IInvTypes
  <1>r. RunInv
    BY DEF IInv
  <1> QED
    BY <1>t, <1>r, ThreadsAssumption DEF vars, serviceVars, ownVars, pathVars, scanVars, counts

----------------------------------------------------------------------------
(* One trajectory: nobody selects another one.                              *)

SelectsNothing == Ops \cap {"select", "settings"} = {}

OneTrajectory ==
    /\ \A c \in Callers :
          /\ call[c].at \notin {"select", "updated", "setPoints"}
          /\ call[c].at \in {"load", "points"} => points # NoClient
          /\ call[c].at = "points" => loaded \in {Calibration, Scanless, Broken}
          /\ StartsCalibration(c) /\ call[c].at # "points"
                => loaded = Calibration /\ points = Calibration
    /\ \A w \in Workers : KeepsSnapshot(w) => loaded = Calibration /\ points = Calibration
    /\ loaded \in {active, Calibration, Scanless, Broken}
    /\ points \in {active, Calibration, Scanless, NoClient, NoPoints}
    /\ init.at = "create" => init.path = active
    /\ \A w \in Workers :
          work[w].op # "calibration" /\ work[w].at \in {"prepare", "rest"} => work[w].path = active

\* A request that begins selects no trajectory.
LEMMA OneCallerBegins ==
    ASSUME IInv, OpInv, PathInv, SelectsNothing, OneTrajectory, NEW c \in Callers, CallerBegins(c)
    PROVE  OneTrajectory'
  <1> USE DEF OneTrajectory, StartsCalibration, KeepsSnapshot, PathInv, CalibrationInv,
    SnapshotInv, Validated, pathVars
  <1>t. CallsOK /\ WorksOK /\ PathTypeOK
    BY IInvTypes
  <1>r. RunInv
    BY DEF IInv
  <1>1. ASSUME NEW op \in Ops, StartAcquires(c, op) PROVE OneTrajectory'
    BY <1>t, <1>r, NamesDistinct, ThreadsAssumption, <1>1 DEF StartAcquires, Enter, CallsOK,
      WorksOK, CallType, WorkType, PathTypeOK, RunInv, OpInv, CallOps, WorkOps, Starting, NoCall,
      NoWork, SelectsNothing
  <1>2. CASE ContinueChecks(c)
    BY <1>t, <1>r, NamesDistinct, ThreadsAssumption, <1>2 DEF ContinueChecks, Enter, CallsOK,
      WorksOK, CallType, WorkType, PathTypeOK, RunInv, OpInv, CallOps, WorkOps, Starting, NoCall,
      NoWork, SelectsNothing
  <1>3. CASE StopMarks(c)
    <2>1. CASE Enter(c, "stop", "setAbort")
      BY <1>t, <1>r, NamesDistinct, ThreadsAssumption, <1>3, <2>1 DEF StopMarks, Enter, CallsOK,
        WorksOK, CallType, WorkType, PathTypeOK, RunInv, OpInv, CallOps, WorkOps, Starting, NoCall,
        NoWork, SelectsNothing
    <2>2. CASE call[c].at = "stopFirst" /\ Goto(c, "setAbort")
      BY <1>t, <1>r, NamesDistinct, ThreadsAssumption, <1>3, <2>2 DEF StopMarks, Goto, CallsOK,
        WorksOK, CallType, WorkType, PathTypeOK, RunInv, OpInv, CallOps, WorkOps, Starting, NoCall,
        NoWork, SelectsNothing
    <2>3. CASE call[c].at = "stopFirst" /\ Goto(c, "restart")
      BY <1>t, <1>r, NamesDistinct, ThreadsAssumption, <1>3, <2>3 DEF StopMarks, Goto, CallsOK,
        WorksOK, CallType, WorkType, PathTypeOK, RunInv, OpInv, CallOps, WorkOps, Starting, NoCall,
        NoWork, SelectsNothing
    <2> QED
      BY <1>3, <2>1, <2>2, <2>3 DEF StopMarks
  <1>4. CASE ReloadChecks(c)
    BY <1>t, <1>r, NamesDistinct, ThreadsAssumption, <1>4 DEF ReloadChecks, Enter, CallsOK,
      WorksOK, CallType, WorkType, PathTypeOK, RunInv, OpInv, CallOps, WorkOps, Starting, NoCall,
      NoWork, SelectsNothing
  <1>5. CASE SelectChecks(c)
    BY <1>t, <1>r, NamesDistinct, ThreadsAssumption, <1>5 DEF SelectChecks, Enter, CallsOK,
      WorksOK, CallType, WorkType, PathTypeOK, RunInv, OpInv, CallOps, WorkOps, Starting, NoCall,
      NoWork, SelectsNothing
  <1>6. CASE JogChecks(c)
    BY <1>t, <1>r, NamesDistinct, ThreadsAssumption, <1>6 DEF JogChecks, Enter, CallsOK, WorksOK,
      CallType, WorkType, PathTypeOK, RunInv, OpInv, CallOps, WorkOps, Starting, NoCall, NoWork,
      SelectsNothing
  <1>7. ASSUME NEW p \in Paths, SettingsReload(c, p) PROVE OneTrajectory'
    BY <1>t, <1>r, NamesDistinct, ThreadsAssumption, <1>7 DEF SettingsReload, CallsOK, WorksOK,
      CallType, WorkType, PathTypeOK, RunInv, OpInv, CallOps, WorkOps, Starting, NoCall, NoWork,
      SelectsNothing
  <1> QED
    BY <1>1, <1>2, <1>3, <1>4, <1>5, <1>6, <1>7 DEF CallerBegins, Start

\* A start loads no trajectory but that of its calibration.
LEMMA OneStartProceeds ==
    ASSUME IInv, OpInv, PathInv, SelectsNothing, OneTrajectory, NEW c \in Callers, StartProceeds(c)
    PROVE  OneTrajectory'
  <1> USE DEF OneTrajectory, StartsCalibration, KeepsSnapshot, PathInv, CalibrationInv,
    SnapshotInv, Validated, pathVars
  <1>t. CallsOK /\ WorksOK /\ PathTypeOK
    BY IInvTypes
  <1>r. RunInv
    BY DEF IInv
  <1>1. CASE ContinueAcquires(c)
    BY <1>t, <1>r, NamesDistinct, ThreadsAssumption, <1>1 DEF ContinueAcquires, Goto, Return,
      CallsOK, WorksOK, CallType, WorkType, PathTypeOK, RunInv, OpInv, CallOps, WorkOps, Starting,
      NoCall, NoWork, SelectsNothing
  <1>2. CASE StartValidates(c)
    <2>1. /\ points # NoClient /\ UNCHANGED <<pathVars, work, init>>
          /\ call[c].at = "validate"
      BY <1>2 DEF StartValidates, Ready
    <2>2. PICK l \in {"clear", "read", "load"} :
             /\ call' = [call EXCEPT ![c].at = l]
             /\ l = "clear" => call[c].op = "new"
      BY <1>2 DEF StartValidates, Goto
    <2> QED
      BY <1>t, <2>1, <2>2 DEF CallsOK, CallType, OpInv, CallOps
  <1>3. CASE StartRefused(c) \/ StartHasNoScan(c)
    BY <1>t, <1>r, NamesDistinct, ThreadsAssumption, <1>3 DEF StartRefused, StartHasNoScan,
      Return, Raises,
      CallsOK, WorksOK, CallType, WorkType, PathTypeOK, RunInv, OpInv, CallOps, WorkOps, Starting,
      NoCall, NoWork, SelectsNothing
  <1>4. CASE ResumeReads(c)
    BY <1>t, <1>r, NamesDistinct, ThreadsAssumption, <1>4 DEF ResumeReads, Return, Raises, CallsOK,
      WorksOK, CallType, WorkType, PathTypeOK, RunInv, OpInv, CallOps, WorkOps, Starting, NoCall,
      NoWork, SelectsNothing
  <1>5. CASE ResumeEnsures(c)
    BY <1>t, <1>r, NamesDistinct, ThreadsAssumption, <1>5 DEF ResumeEnsures, Goto, CallsOK,
      WorksOK, CallType, WorkType, PathTypeOK, RunInv, OpInv, CallOps, WorkOps, Starting, NoCall,
      NoWork, SelectsNothing
  <1>6. CASE EnsureFails(c)
    BY <1>t, <1>r, NamesDistinct, ThreadsAssumption, <1>6 DEF EnsureFails, Return, Raises, CallsOK,
      WorksOK, CallType, WorkType, PathTypeOK, RunInv, OpInv, CallOps, WorkOps, Starting, NoCall,
      NoWork, SelectsNothing
  <1>7. CASE EnsureRefused(c)
    BY <1>t, <1>r, NamesDistinct, ThreadsAssumption, <1>7 DEF EnsureRefused, Return, CallsOK,
      WorksOK, CallType, WorkType, PathTypeOK, RunInv, OpInv, CallOps, WorkOps, Starting, NoCall,
      NoWork, SelectsNothing
  <1>8. CASE CalibrationLoads(c)
    BY <1>t, <1>r, NamesDistinct, ThreadsAssumption, <1>8 DEF CalibrationLoads, Goto, CallsOK,
      WorksOK, CallType, WorkType, PathTypeOK, RunInv, OpInv, CallOps, WorkOps, Starting, NoCall,
      NoWork, SelectsNothing
  <1>9. CASE CalibrationLoadFails(c) \/ CalibrationHasNoScan(c)
    BY <1>t, <1>r, NamesDistinct, ThreadsAssumption, <1>9 DEF CalibrationLoadFails,
      CalibrationHasNoScan, PointsFromSnapshot, Return, Raises,
      CallsOK, WorksOK, CallType, WorkType, PathTypeOK, RunInv, OpInv, CallOps, WorkOps, Starting,
      NoCall, NoWork, SelectsNothing
  <1>10. CASE CalibrationSetsPoints(c)
    BY <1>t, <1>r, NamesDistinct, ThreadsAssumption, <1>10 DEF CalibrationSetsPoints,
      PointsFromSnapshot, Goto,
      CallsOK, WorksOK, CallType, WorkType, PathTypeOK, RunInv, OpInv, CallOps, WorkOps, Starting,
      NoCall, NoWork, SelectsNothing
  <1>11. CASE StartClearsAbort(c)
    BY <1>t, <1>r, NamesDistinct, ThreadsAssumption, <1>11 DEF StartClearsAbort, Goto, CallsOK,
      WorksOK, CallType, WorkType, PathTypeOK, RunInv, OpInv, CallOps, WorkOps, Starting, NoCall,
      NoWork, SelectsNothing
  <1>12. CASE StartClearsMotion(c)
    BY <1>t, <1>r, NamesDistinct, ThreadsAssumption, <1>12 DEF StartClearsMotion, Goto, CallsOK,
      WorksOK, CallType, WorkType, PathTypeOK, RunInv, OpInv, CallOps, WorkOps, Starting, NoCall,
      NoWork, SelectsNothing
  <1>13. CASE StartRuns(c)
    BY <1>t, <1>r, NamesDistinct, ThreadsAssumption, <1>13 DEF StartRuns, Goto, CallsOK, WorksOK,
      CallType, WorkType, PathTypeOK, RunInv, OpInv, CallOps, WorkOps, Starting, NoCall, NoWork,
      SelectsNothing
  <1>14. ASSUME NEW w \in Workers, StartSpawns(c, w) PROVE OneTrajectory'
    BY <1>t, <1>r, NamesDistinct, ThreadsAssumption, <1>14 DEF StartSpawns, Return, CallsOK,
      WorksOK, CallType, WorkType, PathTypeOK, RunInv, OpInv, CallOps, WorkOps, Starting, NoCall,
      NoWork, SelectsNothing
  <1> QED
    BY <1>1, <1>2, <1>3, <1>4, <1>5, <1>6, <1>7, <1>8, <1>9, <1>10, <1>11, <1>12, <1>13, <1>14 DEF
      StartProceeds

\* A stop loads no trajectory.
LEMMA OneStopProceeds ==
    ASSUME IInv, OpInv, PathInv, SelectsNothing, OneTrajectory, NEW c \in Callers, StopProceeds(c)
    PROVE  OneTrajectory'
  <1> USE DEF OneTrajectory, StartsCalibration, KeepsSnapshot, PathInv, CalibrationInv,
    SnapshotInv, Validated, pathVars
  <1>t. CallsOK /\ WorksOK /\ PathTypeOK
    BY IInvTypes
  <1>r. RunInv
    BY DEF IInv
  <1> QED
    BY <1>t, <1>r, NamesDistinct, ThreadsAssumption DEF StopMarks, Enter, CallsOK, WorksOK,
      CallType, WorkType, PathTypeOK, RunInv, OpInv, CallOps, WorkOps, Starting, NoCall, NoWork,
      SelectsNothing, Goto, StopSetsAbort, StopCancelsMotion, StopJoins, Return, ReloadRestarts,
      ReloadForgets, Forget, StopProceeds

\* Nobody selects a trajectory.
LEMMA OnePathProceeds ==
    ASSUME IInv, OpInv, PathInv, SelectsNothing, OneTrajectory, NEW c \in Callers, PathProceeds(c)
    PROVE  OneTrajectory'
  <1> USE DEF OneTrajectory, StartsCalibration, KeepsSnapshot, PathInv, CalibrationInv,
    SnapshotInv, Validated, pathVars
  <1>t. CallsOK /\ WorksOK /\ PathTypeOK
    BY IInvTypes
  <1>r. RunInv
    BY DEF IInv
  <1> QED
    BY <1>t, <1>r, NamesDistinct, ThreadsAssumption DEF SelectReloads, Goto, CallsOK, WorksOK,
      CallType, WorkType, PathTypeOK, RunInv, OpInv, CallOps, WorkOps, Starting, NoCall, NoWork,
      SelectsNothing, PathChecks, Return, PathSets, PointsFromSnapshot, JogEnsuresClient,
      JogClearsMotion, JogEnds, PathProceeds

\* A lap drives what is loaded.
LEMMA OneLap ==
    ASSUME IInv, OpInv, PathInv, SelectsNothing, OneTrajectory, NEW w \in Workers, Lap(w)
    PROVE  OneTrajectory'
  <1> USE DEF OneTrajectory, StartsCalibration, KeepsSnapshot, PathInv, CalibrationInv,
    SnapshotInv, Validated, pathVars
  <1>t. CallsOK /\ WorksOK /\ PathTypeOK
    BY IInvTypes
  <1>r. RunInv
    BY DEF IInv
  <1>1. CASE LapBegins(w)
    BY <1>t, <1>r, NamesDistinct, ThreadsAssumption, <1>1 DEF LapBegins, WorkGoto, CallsOK,
      WorksOK, CallType, WorkType, PathTypeOK, RunInv, OpInv, CallOps, WorkOps, Starting, NoCall,
      NoWork, SelectsNothing
  <1>2. CASE WorkerCreates(w)
    BY <1>t, <1>r, NamesDistinct, ThreadsAssumption, <1>2 DEF WorkerCreates, WorkGoto, NewProject,
      CallsOK, WorksOK, CallType, WorkType, PathTypeOK, RunInv, OpInv, CallOps, WorkOps, Starting,
      NoCall, NoWork, SelectsNothing
  <1>3. CASE LapReads(w)
    BY <1>t, <1>r, NamesDistinct, ThreadsAssumption, <1>3 DEF LapReads, CallsOK, WorksOK, CallType,
      WorkType, PathTypeOK, RunInv, OpInv, CallOps, WorkOps, Starting, NoCall, NoWork,
      SelectsNothing
  <1>4. CASE CalibrationEnters(w)
    BY <1>t, <1>r, NamesDistinct, ThreadsAssumption, <1>4 DEF CalibrationEnters, WorkGoto, CallsOK,
      WorksOK, CallType, WorkType, PathTypeOK, RunInv, OpInv, CallOps, WorkOps, Starting, NoCall,
      NoWork, SelectsNothing
  <1>5. CASE RunCannotBegin(w)
    BY <1>t, <1>r, NamesDistinct, ThreadsAssumption, <1>5 DEF RunCannotBegin, WorkGoto, Raise,
      CallsOK, WorksOK, CallType, WorkType, PathTypeOK, RunInv, OpInv, CallOps, WorkOps, Starting,
      NoCall, NoWork, SelectsNothing
  <1>6. CASE RunBegins(w)
    BY <1>t, <1>r, NamesDistinct, ThreadsAssumption, <1>6 DEF RunBegins, CallsOK, WorksOK,
      CallType, WorkType, PathTypeOK, RunInv, OpInv, CallOps, WorkOps, Starting, NoCall, NoWork,
      SelectsNothing
  <1>7. CASE OnStep(w)
    BY <1>t, <1>r, NamesDistinct, ThreadsAssumption, <1>7 DEF OnStep, WorkGoto, CallsOK, WorksOK,
      CallType, WorkType, PathTypeOK, RunInv, OpInv, CallOps, WorkOps, Starting, NoCall, NoWork,
      SelectsNothing
  <1>8. CASE RunEnds(w)
    BY <1>t, <1>r, NamesDistinct, ThreadsAssumption, <1>8 DEF RunEnds, WorkGoto, CallsOK, WorksOK,
      CallType, WorkType, PathTypeOK, RunInv, OpInv, CallOps, WorkOps, Starting, NoCall, NoWork,
      SelectsNothing
  <1>9. CASE RunRepeats(w)
    BY <1>t, <1>r, NamesDistinct, ThreadsAssumption, <1>9 DEF RunRepeats, WorkGoto, CallsOK,
      WorksOK, CallType, WorkType, PathTypeOK, RunInv, OpInv, CallOps, WorkOps, Starting, NoCall,
      NoWork, SelectsNothing
  <1>10. CASE NextLapCreates(w)
    BY <1>t, <1>r, NamesDistinct, ThreadsAssumption, <1>10 DEF NextLapCreates, WorkGoto,
      NewProject, CallsOK, WorksOK, CallType, WorkType, PathTypeOK, RunInv, OpInv, CallOps,
      WorkOps, Starting, NoCall, NoWork, SelectsNothing
  <1>11. CASE NextLapSetsPoints(w)
    BY <1>t, <1>r, NamesDistinct, ThreadsAssumption, <1>11 DEF NextLapSetsPoints, WorkGoto,
      PointsFromSnapshot, CallsOK, WorksOK, CallType, WorkType, PathTypeOK, RunInv, OpInv, CallOps,
      WorkOps, Starting, NoCall, NoWork, SelectsNothing
  <1> QED
    BY <1>1, <1>2, <1>3, <1>4, <1>5, <1>6, <1>7, <1>8, <1>9, <1>10, <1>11 DEF Lap

\* A run that waits for the machine drives what is loaded.
LEMMA OneMachine ==
    ASSUME IInv, OpInv, PathInv, SelectsNothing, OneTrajectory, NEW w \in Workers, Machine(w)
    PROVE  OneTrajectory'
  <1> USE DEF OneTrajectory, StartsCalibration, KeepsSnapshot, PathInv, CalibrationInv,
    SnapshotInv, Validated, pathVars
  <1>t. CallsOK /\ WorksOK /\ PathTypeOK
    BY IInvTypes
  <1>r. RunInv
    BY DEF IInv
  <1>1. CASE WorkerTravels(w)
    BY <1>t, <1>r, NamesDistinct, ThreadsAssumption, <1>1 DEF WorkerTravels, WorkGoto, CallsOK,
      WorksOK, CallType, WorkType, PathTypeOK, RunInv, OpInv, CallOps, WorkOps, Starting, NoCall,
      NoWork, SelectsNothing
  <1>2. CASE WorkerMoves(w)
    BY <1>t, <1>r, NamesDistinct, ThreadsAssumption, <1>2 DEF WorkerMoves, CallsOK, WorksOK,
      CallType, WorkType, PathTypeOK, RunInv, OpInv, CallOps, WorkOps, Starting, NoCall, NoWork,
      SelectsNothing
  <1>3. CASE WorkerScans(w) \/ WorkerSkipsScan(w)
    BY <1>t, <1>r, NamesDistinct, ThreadsAssumption, <1>3, ScanStep DEF CallsOK, WorksOK,
      CallType, WorkType, PathTypeOK, RunInv, OpInv, CallOps, WorkOps, Starting, NoCall, NoWork,
      SelectsNothing
  <1>4. CASE LapEnds(w)
    BY <1>t, <1>r, NamesDistinct, ThreadsAssumption, <1>4 DEF LapEnds, WorkGoto, CallsOK, WorksOK,
      CallType, WorkType, PathTypeOK, RunInv, OpInv, CallOps, WorkOps, Starting, NoCall, NoWork,
      SelectsNothing
  <1> QED
    BY <1>1, <1>2, <1>3, <1>4 DEF Machine

\* A run that ends leaves what is loaded.
LEMMA OneOutcome ==
    ASSUME IInv, OpInv, PathInv, SelectsNothing, OneTrajectory, NEW w \in Workers, Outcome(w)
    PROVE  OneTrajectory'
  <1> USE DEF OneTrajectory, StartsCalibration, KeepsSnapshot, PathInv, CalibrationInv,
    SnapshotInv, Validated, pathVars
  <1>t. CallsOK /\ WorksOK /\ PathTypeOK
    BY IInvTypes
  <1>r. RunInv
    BY DEF IInv
  <1>1. CASE WorkerSeesAbort(w)
    <2>1. PICK l \in {"aborted", "failed", "exitAborted", "exitFailed"} : work' = [work EXCEPT ![w].at = l]
      BY <1>1 DEF WorkerSeesAbort, SeesAbort, Raise, WorkGoto
    <2>2. /\ work[w].at \notin {"dead", "updated", "setPoints", "release"}
          /\ UNCHANGED <<pathVars, call, init>>
      BY <1>1 DEF WorkerSeesAbort, SeesAbort, Raise, WorkGoto
    <2> QED
      BY <1>t, <1>r, <2>1, <2>2 DEF CallsOK, WorksOK, CallType, WorkType
  <1>2. CASE WorkerSeesCancel(w)
    BY <1>t, <1>r, NamesDistinct, ThreadsAssumption, <1>2 DEF WorkerSeesCancel, WorkGoto, Raise,
      CallsOK, WorksOK, CallType, WorkType, PathTypeOK, RunInv, OpInv, CallOps, WorkOps, Starting,
      NoCall, NoWork, SelectsNothing
  <1>3. CASE CalibrationExits(w)
    BY <1>t, <1>r, NamesDistinct, ThreadsAssumption, <1>3 DEF CalibrationExits, WorkGoto, CallsOK,
      WorksOK, CallType, WorkType, PathTypeOK, RunInv, OpInv, CallOps, WorkOps, Starting, NoCall,
      NoWork, SelectsNothing
  <1>4. CASE RunFails(w)
    BY <1>t, <1>r, NamesDistinct, ThreadsAssumption, <1>4 DEF RunFails, WorkGoto, CallsOK, WorksOK,
      CallType, WorkType, PathTypeOK, RunInv, OpInv, CallOps, WorkOps, Starting, NoCall, NoWork,
      SelectsNothing
  <1> QED
    BY <1>1, <1>2, <1>3, <1>4 DEF Outcome

\* A run that fails leaves what is loaded.
LEMMA OneFails ==
    ASSUME IInv, OpInv, PathInv, SelectsNothing, OneTrajectory, NEW w \in Workers, WorkerFails(w)
    PROVE  OneTrajectory'
  <1> USE DEF OneTrajectory, StartsCalibration, KeepsSnapshot, PathInv, CalibrationInv,
    SnapshotInv, Validated, pathVars
  <1>t. CallsOK /\ WorksOK /\ PathTypeOK
    BY IInvTypes
  <1>r. RunInv
    BY DEF IInv
  <1>1. PICK l \in {"aborted", "failed", "exitAborted", "exitFailed"} : work' = [work EXCEPT ![w].at = l]
    BY DEF WorkerFails, Commands, Raise, WorkGoto
  <1>2. /\ work[w].at \notin {"dead", "updated", "setPoints", "release"}
        /\ UNCHANGED <<pathVars, call, init>>
    BY DEF WorkerFails, Commands, Raise, WorkGoto
  <1> QED
    BY <1>t, <1>r, <1>1, <1>2 DEF CallsOK, WorksOK, CallType, WorkType

\* A calibration run loads the active trajectory again.
LEMMA OneCleanup ==
    ASSUME IInv, OpInv, PathInv, SelectsNothing, OneTrajectory, NEW w \in Workers, Cleanup(w)
    PROVE  OneTrajectory'
  <1> USE DEF OneTrajectory, StartsCalibration, KeepsSnapshot, PathInv, CalibrationInv,
    SnapshotInv, Validated, pathVars
  <1>t. CallsOK /\ WorksOK /\ PathTypeOK
    BY IInvTypes
  <1>r. RunInv
    BY DEF IInv
  <1> QED
    BY <1>t, <1>r, NamesDistinct, ThreadsAssumption DEF WorkerClearsAbort, WorkGoto, CallsOK,
      WorksOK, CallType, WorkType, PathTypeOK, RunInv, OpInv, CallOps, WorkOps, Starting, NoCall,
      NoWork, SelectsNothing, WorkerClearsMotion, CalibrationRestores, CalibrationChecksState,
      CalibrationRestoresPoints, PointsFromSnapshot, WorkerReleases, Cleanup

\* The initialisation takes what is loaded.
LEMMA OneInitWorker ==
    ASSUME IInv, OpInv, PathInv, SelectsNothing, OneTrajectory, InitWorker
    PROVE  OneTrajectory'
  <1>t. PathTypeOK /\ init \in [at : InitAt, path : Paths \cup {Calibration, Scanless, NoPoints}]
    BY DEF IInv, TypeOK, ThreadTypeOK
  <1>1. /\ call' = call /\ work' = work /\ loaded' = loaded /\ active' = active
        /\ \/ points' = points
           \/ points' \in Paths /\ points' = active /\ ~CalibrationGoing
    BY InitSteps DEF PathInv, OneTrajectory
  <1>2. init'.at = "create" => init'.path = active
    <2>1. CASE InitChecksClient
      <3>1. init'.at = "create" => points = NoClient /\ loaded # Broken /\ init'.path = loaded
        BY <1>t, <2>1 DEF InitChecksClient, InitGoto
      <3> QED
        BY <3>1 DEF PathInv, ClientInv, OneTrajectory
    <2>2. CASE ~InitChecksClient
      BY <1>t, <2>2 DEF InitWorker, InitChecks, InitBegins, InitScanner, InitForgets,
        InitCreatesClient, InitEnds, InitGoto, NoInit
    <2> QED
      BY <2>1, <2>2
  <1>3. NoClient \notin Paths
    BY NamesDistinct
  <1>4. \A c \in Callers : StartsCalibration(c) => CalibrationGoing
    BY DEF StartsCalibration, CalibrationGoing, CalibrationCall
  <1>5. \A w \in Workers : KeepsSnapshot(w) => CalibrationGoing
    BY DEF KeepsSnapshot, CalibrationGoing, CalibrationWorker
  <1> QED
    BY <1>1, <1>2, <1>3, <1>4, <1>5 DEF OneTrajectory, StartsCalibration, KeepsSnapshot

\* A lost scanner leaves what is loaded.
LEMMA OneDrops ==
    ASSUME IInv, OpInv, PathInv, SelectsNothing, OneTrajectory, ScannerDrops \/ LeftExports
    PROVE  OneTrajectory'
  <1> USE DEF OneTrajectory, StartsCalibration, KeepsSnapshot, PathInv, CalibrationInv,
    SnapshotInv, Validated, pathVars
  <1>t. CallsOK /\ WorksOK /\ PathTypeOK
    BY IInvTypes
  <1>r. RunInv
    BY DEF IInv
  <1> QED
    BY <1>t, <1>r, NamesDistinct, ThreadsAssumption DEF ScannerDrops, LeftExports,
      ExportTakesLock, ExportEnds, Forget, CallsOK, WorksOK,
      CallType, WorkType, PathTypeOK, RunInv, OpInv, CallOps, WorkOps, Starting, NoCall, NoWork,
      SelectsNothing

\* Nothing changes of what is loaded.
LEMMA OneStutter ==
    ASSUME IInv, OpInv, PathInv, SelectsNothing, OneTrajectory, UNCHANGED vars
    PROVE  OneTrajectory'
  <1> USE DEF OneTrajectory, StartsCalibration, KeepsSnapshot, PathInv, CalibrationInv,
    SnapshotInv, Validated, pathVars
  <1>t. CallsOK /\ WorksOK /\ PathTypeOK
    BY IInvTypes
  <1>r. RunInv
    BY DEF IInv
  <1> QED
    BY <1>t, <1>r, NamesDistinct, ThreadsAssumption DEF vars, serviceVars, ownVars, pathVars,
      scanVars, counts
----------------------------------------------------------------------------
(* Theorems.                                                                *)

\* Every step keeps what requests and workers are.
LEMMA NextOp ==
    ASSUME IInv, OpInv, [Next]_vars
    PROVE  OpInv'
  <1>1. ASSUME NEW c \in Callers, CallerBegins(c) \/ CallerProceeds(c) PROVE OpInv'
    BY <1>1, OpCallerBegins, OpStartProceeds, OpStopProceeds, OpPathProceeds
    DEF CallerProceeds
  <1>2. ASSUME NEW w \in Workers, CycleWorker(w) PROVE OpInv'
    BY <1>2, OpLap, OpMachine, OpFails, OpOutcome, OpCleanup DEF CycleWorker
  <1>3. CASE InitWorker
    BY <1>3, OpOthers DEF InitWorker, InitChecks, InitBegins, InitScanner, InitForgets,
             InitChecksClient, InitCreatesClient, InitEnds, InitGoto, NoInit
  <1>4. CASE ScannerDrops \/ LeftExports \/ UNCHANGED vars
    BY <1>4, OpOthers DEF ScannerDrops, LeftExports, ExportTakesLock, ExportEnds, vars
  <1> QED
    BY <1>1, <1>2, <1>3, <1>4 DEF Next

\* Every step keeps the trajectory with the run it is for.
LEMMA NextPath ==
    ASSUME IInv, OpInv, PathInv, RunMode = "single_last_scan" => LapInv, [Next]_vars
    PROVE  PathInv'
  <1>0. CalibrationInv /\ SnapshotInv /\ ClientInv
    BY DEF PathInv
  <1>1. CalibrationInv'
    <2>1. ASSUME NEW c \in Callers, CallerBegins(c) \/ CallerProceeds(c) PROVE CalibrationInv'
      BY <1>0, <2>1, CalibrationCallerBegins, CalibrationStartProceeds,
         CalibrationStopProceeds, CalibrationPathProceeds DEF CallerProceeds
    <2>2. ASSUME NEW w \in Workers, CycleWorker(w) PROVE CalibrationInv'
      BY <1>0, <2>2, CalibrationLap, CalibrationMachine, CalibrationFails,
         CalibrationOutcome, CalibrationCleanup DEF CycleWorker
    <2>3. CASE InitWorker \/ ScannerDrops \/ LeftExports \/ UNCHANGED vars
      BY <1>0, <2>3, CalibrationInitWorker, CalibrationDrops, CalibrationStutter
    <2> QED
      BY <2>1, <2>2, <2>3 DEF Next
  <1>2. SnapshotInv'
    <2>1. ASSUME NEW c \in Callers, CallerBegins(c) \/ CallerProceeds(c) PROVE SnapshotInv'
      BY <1>0, <2>1, SnapshotCallerBegins, SnapshotStartProceeds, SnapshotStopProceeds,
         SnapshotPathProceeds DEF CallerProceeds
    <2>2. ASSUME NEW w \in Workers, CycleWorker(w) PROVE SnapshotInv'
      BY <1>0, <2>2, SnapshotLap, SnapshotMachine, SnapshotFails, SnapshotOutcome,
         SnapshotCleanup DEF CycleWorker
    <2>3. CASE InitWorker \/ ScannerDrops \/ LeftExports \/ UNCHANGED vars
      BY <1>0, <2>3, SnapshotInitWorker, SnapshotDrops, SnapshotStutter
    <2> QED
      BY <2>1, <2>2, <2>3 DEF Next
  <1>3. ClientInv'
    <2>1. ASSUME NEW c \in Callers, CallerBegins(c) \/ CallerProceeds(c) PROVE ClientInv'
      BY <1>0, <2>1, ClientCallerBegins, ClientStartProceeds,
         ClientStopProceeds, ClientPathProceeds DEF CallerProceeds
    <2>2. ASSUME NEW w \in Workers, CycleWorker(w) PROVE ClientInv'
      BY <1>0, <2>2, ClientLap, ClientMachine, ClientFails,
         ClientOutcome, ClientCleanup DEF CycleWorker
    <2>3. CASE InitWorker \/ ScannerDrops \/ LeftExports \/ UNCHANGED vars
      BY <1>0, <2>3, ClientInitWorker, ClientDrops, ClientStutter
    <2> QED
      BY <2>1, <2>2, <2>3 DEF Next
  <1> QED
    BY <1>1, <1>2, <1>3 DEF PathInv

\* Every step keeps what has been scanned with where a run may go on.
LEMMA NextWork ==
    ASSUME IInv, OpInv, SnapshotInv, WorkInv, NoContinueOfRepeats, [Next]_vars
    PROVE  WorkInv'
  <1>1. StartInv'
    <2>1. ASSUME NEW c \in Callers, CallerBegins(c) \/ CallerProceeds(c) PROVE StartInv'
      BY <2>1, StartCallerBegins, StartStartProceeds, StartStopProceeds, StartPathProceeds
      DEF CallerProceeds
    <2>2. ASSUME NEW w \in Workers, CycleWorker(w) PROVE StartInv'
      BY <2>2, StartLap, StartMachine, StartFails, StartOutcome, StartCleanup DEF CycleWorker
    <2>3. CASE InitWorker \/ ScannerDrops \/ LeftExports \/ UNCHANGED vars
      BY <2>3, StartInitWorker, StartDrops, StartStutter
    <2> QED
      BY <2>1, <2>2, <2>3 DEF Next
  <1>2. LapInv'
    <2>1. ASSUME NEW c \in Callers, CallerBegins(c) \/ CallerProceeds(c) PROVE LapInv'
      BY <2>1, LapCallerBegins, LapStartProceeds, LapStopProceeds, LapPathProceeds
      DEF CallerProceeds
    <2>2. ASSUME NEW w \in Workers, CycleWorker(w) PROVE LapInv'
      BY <2>2, LapLap, LapMachine, LapFails, LapOutcome, LapCleanup DEF CycleWorker
    <2>3. CASE InitWorker \/ ScannerDrops \/ LeftExports \/ UNCHANGED vars
      BY <2>3, LapInitWorker, LapDrops, LapStutter
    <2> QED
      BY <2>1, <2>2, <2>3 DEF Next
  <1>3. ResumeInv' /\ CalibrationWork'
    <2>1. ASSUME NEW c \in Callers, CallerBegins(c) \/ CallerProceeds(c) PROVE ResumeInv' /\ CalibrationWork'
      BY <2>1, ResumeCallerBegins, ResumeStartProceeds, ResumeStopProceeds, ResumePathProceeds
      DEF CallerProceeds
    <2>2. ASSUME NEW w \in Workers, CycleWorker(w) PROVE ResumeInv' /\ CalibrationWork'
      BY <2>2, ResumeLap, ResumeMachine, ResumeFails, ResumeOutcome, ResumeCleanup DEF CycleWorker
    <2>3. CASE InitWorker \/ ScannerDrops \/ LeftExports \/ UNCHANGED vars
      BY <2>3, ResumeInitWorker, ResumeDrops, ResumeStutter
    <2> QED
      BY <2>1, <2>2, <2>3 DEF Next
  <1> QED
    BY <1>1, <1>2, <1>3 DEF WorkInv

\* Every step keeps the lock with an owner.
LEMMA NextLock ==
    ASSUME IInv, OpInv, ContinuesNothing, LockOwned, [Next]_vars
    PROVE  LockOwned'
  <1>1. ASSUME NEW c \in Callers, CallerBegins(c) \/ CallerProceeds(c) PROVE LockOwned'
    BY <1>1, LockCallerBegins, LockStartProceeds, LockStopProceeds, LockPathProceeds
    DEF CallerProceeds
  <1>2. ASSUME NEW w \in Workers, CycleWorker(w) PROVE LockOwned'
    BY <1>2, LockLap, LockMachine, LockFails, LockOutcome, LockCleanup
    DEF CycleWorker
  <1>3. CASE InitWorker \/ ScannerDrops \/ LeftExports \/ UNCHANGED vars
    BY <1>3, LockInitWorker, LockDrops, LockStutter
  <1> QED
    BY <1>1, <1>2, <1>3 DEF Next

\* Every step keeps to the one trajectory.
LEMMA NextOne ==
    ASSUME IInv, OpInv, PathInv, SelectsNothing, OneTrajectory, [Next]_vars
    PROVE  OneTrajectory'
  <1>1. ASSUME NEW c \in Callers, CallerBegins(c) \/ CallerProceeds(c) PROVE OneTrajectory'
    BY <1>1, OneCallerBegins, OneStartProceeds, OneStopProceeds, OnePathProceeds
    DEF CallerProceeds
  <1>2. ASSUME NEW w \in Workers, CycleWorker(w) PROVE OneTrajectory'
    BY <1>2, OneLap, OneMachine, OneFails, OneOutcome, OneCleanup
    DEF CycleWorker
  <1>3. CASE InitWorker \/ ScannerDrops \/ LeftExports \/ UNCHANGED vars
    BY <1>3, OneInitWorker, OneDrops, OneStutter
  <1> QED
    BY <1>1, <1>2, <1>3 DEF Next

\* At first nobody runs, and nothing is loaded but the active trajectory.
LEMMA InitWork == Init => OpInv /\ PathInv /\ WorkInv /\ LockOwned /\ OneTrajectory
  <1> SUFFICES ASSUME Init PROVE OpInv /\ PathInv /\ WorkInv /\ LockOwned /\ OneTrajectory
    OBVIOUS
  <1>1. \A c \in Callers :
           call[c].at = "idle" /\ call[c].op = "stop" /\ call[c].project = None /\ call[c].step = None
    BY DEF Init, NoCall
  <1>2. \A w \in Workers : work[w].at = "dead" /\ work[w].op = "new"
    BY DEF Init, NoWork
  <1>3. /\ loaded = active /\ active \in Paths /\ points = NoClient /\ project = None
        /\ ~runLock /\ init.at = "wait"
    BY DEF Init, NoInit
  <1>4. OpInv
    BY <1>1, <1>2 DEF OpInv, CallOps, WorkOps, Starting
  <1>5. PathInv
    <2>1. CalibrationInv /\ SnapshotInv
      BY <1>1, <1>2, <1>3, NamesDistinct DEF CalibrationInv, SnapshotInv, Validated, Driving, Driven
    <2>2. ClientInv
      BY <1>1, <1>2, <1>3, NamesDistinct DEF ClientInv, CalibrationGoing, CalibrationCall,
        CalibrationWorker
    <2> QED
      BY <2>1, <2>2 DEF PathInv
  <1>6. WorkInv
    BY <1>1, <1>2, <1>3 DEF WorkInv, StartInv, LapInv, CalibrationWork, ResumeInv
  <1>7. LockOwned
    BY <1>3 DEF LockOwned
  <1>8. OneTrajectory
    BY <1>1, <1>2, <1>3 DEF OneTrajectory, StartsCalibration, KeepsSnapshot
  <1> QED
    BY <1>4, <1>5, <1>6, <1>7, <1>8

\* While no repeated lap is continued, every behaviour keeps all of it.
LEMMA WorkInvariance ==
    ASSUME NoContinueOfRepeats
    PROVE  Spec => [](IInv /\ OpInv /\ PathInv /\ WorkInv)
  <1> DEFINE All == IInv /\ OpInv /\ PathInv /\ WorkInv
  <1>1. Init => All
    BY InitIInv, InitWork
  <1>2. All /\ [Next]_vars => All'
    BY NextIInv, NextOp, NextPath, NextWork DEF PathInv, WorkInv
  <1> HIDE DEF All
  <1>3. Spec => []All
    BY <1>1, <1>2, PTL DEF Spec
  <1> QED
    BY <1>3, PTL DEF All

\* Whatever requests there are, the trajectory is the run's.
LEMMA PathInvariance == Spec => [](IInv /\ OpInv /\ PathInv)
  <1> DEFINE All == IInv /\ OpInv /\ PathInv
  <1>1. CASE RunMode = "single_last_scan"
    <2>1. NoContinueOfRepeats
      BY <1>1 DEF NoContinueOfRepeats
    <2> QED
      BY <2>1, WorkInvariance, PTL
  <1>2. CASE RunMode # "single_last_scan"
    <2>1. Init => All
      BY InitIInv, InitWork
    <2>2. All /\ [Next]_vars => All'
      BY <1>2, NextIInv, NextOp, NextPath
    <2> HIDE DEF All
    <2>3. Spec => []All
      BY <2>1, <2>2, PTL DEF Spec
    <2> QED
      BY <2>3, PTL DEF All
  <1> QED
    BY <1>1, <1>2

\* What continue_cycle leaves out has been scanned into the project it goes on
\* with, or was skipped where the settings allow it, whatever stops, failures, reloads, lost scanners and changes of the path
\* there were -- unless laps are repeated: _prepare_next_repeat_lap pairs the new
\* project with the step of the lap before.
THEOREM ResumeSkipsNothingCorrect ==
    ASSUME RunMode # "repeat_on_success"
    PROVE  Spec => []ResumeSkipsNothing
  <1>1. NoContinueOfRepeats
    BY DEF NoContinueOfRepeats
  <1>2. IInv /\ WorkInv => ResumeSkipsNothing
    <2> SUFFICES ASSUME IInv, WorkInv, CanResume PROVE Filled(Treated(project), step)
      BY DEF ResumeSkipsNothing, Filled
    <2>1. MayResume(Scans[project], step)
      BY <1>1 DEF WorkInv, ResumeInv, CanResume, NoContinueOfRepeats
    <2>2. project \in Projects
      BY IInvTypes DEF CanResume, ServiceTypeOK
    <2> QED
      BY <2>1, <2>2 DEF MayResume, Scans
  <1> QED
    BY <1>1, <1>2, WorkInvariance, PTL

\* A run that reports success has scanned every scan position of its path into
\* the project it names -- or skipped it, where the settings allow that -- if there
\* is one path to select and no repeated lap is continued.  (A path that changes between a stop and a continue, or under a
\* run, leaves a project with scans of both.)
THEOREM FinishedMeansScannedCorrect ==
    ASSUME NoContinueOfRepeats, \A p, q \in Paths : p = q
    PROVE  Spec => []FinishedMeansScanned
  <1>1. IInv /\ PathInv /\ WorkInv => FinishedMeansScanned
    <2> SUFFICES ASSUME IInv, PathInv, WorkInv, NEW w \in Workers,
                        work[w].at = "record", work[w].op # "calibration",
                        NEW i \in First..LastScan
                 PROVE  <<work[w].path, i>> \in Treated(work[w].project)
      BY DEF FinishedMeansScanned
    <2>1. work[w].path \in Paths
      BY DEF PathInv, SnapshotInv, Driven
    <2>2. Filled(Treated(work[w].project), End)
      <3>1. work[w].project # None /\ Filled(Scans[work[w].project], End)
        BY DEF WorkInv, LapInv
      <3>2. work[w].project \in Projects
        BY <3>1, IInvTypes DEF WorksOK, WorkType
      <3> QED
        BY <3>1, <3>2 DEF Scans
    <2>3. i \in First..(End - 1)
      BY RunBoundsAssumption DEF End
    <2> QED
      BY <2>1, <2>2, <2>3 DEF Filled
  <1> QED
    BY <1>1, WorkInvariance, PTL

\* Every run, whatever path is selected meanwhile, has scanned each position from
\* a path file's trajectory into its project when it reports success, or skipped it
\* where the settings allow that: none when skip_failed_scans is off.
THEOREM FinishedFillsProject ==
    ASSUME NoContinueOfRepeats
    PROVE  Spec => [](\A w \in Workers :
               work[w].at = "record" /\ work[w].op # "calibration" =>
                   \A i \in First..LastScan :
                       \E p \in Paths : <<p, i>> \in Treated(work[w].project))
  <1> DEFINE Fills == \A w \in Workers :
               work[w].at = "record" /\ work[w].op # "calibration" =>
                   \A i \in First..LastScan :
                       \E p \in Paths : <<p, i>> \in Treated(work[w].project)
  <1>1. IInv /\ WorkInv => Fills
    <2> SUFFICES ASSUME IInv, WorkInv, NEW w \in Workers, work[w].at = "record",
                        work[w].op # "calibration"
                 PROVE  \A i \in First..LastScan : \E p \in Paths : <<p, i>> \in Treated(work[w].project)
      OBVIOUS
    <2>1. First..(End - 1) = First..LastScan
      BY RunBoundsAssumption DEF End
    <2>2. work[w].project # None /\ Filled(Scans[work[w].project], End)
      BY DEF WorkInv, LapInv
    <2>3. work[w].project \in Projects
      BY <2>2, IInvTypes DEF WorksOK, WorkType
    <2> QED
      BY <2>1, <2>2, <2>3 DEF Scans, Filled
  <1> HIDE DEF Fills
  <1>2. Spec => []Fills
    BY <1>1, WorkInvariance, PTL
  <1> QED
    BY <1>2 DEF Fills

\* "Pipeline cycle is already running" is true when it is said, as long as no
\* request continues a run: continue_cycle returns with _run_lock held when the
\* scanner's SDK refuses to open the project.
THEOREM RunLockHasOwnerCorrect ==
    ASSUME ContinuesNothing
    PROVE  Spec => []RunLockHasOwner
  <1>1. Init => LockOwned
    BY InitWork
  <1>2. IInv /\ OpInv /\ PathInv /\ LockOwned /\ [Next]_vars => LockOwned'
    BY NextLock
  <1>3. LockOwned => RunLockHasOwner
    BY DEF LockOwned, RunLockHasOwner, Owners
  <1> QED
    BY <1>1, <1>2, <1>3, PathInvariance, PTL DEF Spec

\* A run drives its own trajectory as long as no other one is selected -- the active
\* one, or that of calibration.json -- and that one is gone when nobody runs a cycle.
THEOREM RunDrivesItsPathCorrect ==
    ASSUME SelectsNothing
    PROVE  Spec => []RunDrivesItsPath
  <1>1. Init => OneTrajectory
    BY InitWork
  <1>2. IInv /\ OpInv /\ PathInv /\ OneTrajectory /\ [Next]_vars => OneTrajectory'
    BY NextOne
  <1>3. IInv /\ PathInv /\ OneTrajectory => RunDrivesItsPath
    <2> SUFFICES ASSUME IInv, PathInv, OneTrajectory PROVE RunDrivesItsPath
      OBVIOUS
    <2>1. ASSUME NEW w \in Workers, work[w].at = "moving"
          PROVE  points = IF work[w].op = "calibration" THEN Calibration ELSE active
      <3>1. CASE work[w].op = "calibration"
        BY <2>1, <3>1 DEF OneTrajectory, KeepsSnapshot
      <3>2. CASE work[w].op # "calibration"
        BY <2>1, <3>2, NamesDistinct DEF PathInv, SnapshotInv, Driving, OneTrajectory
      <3> QED
        BY <3>1, <3>2
    <2>2. Owners = {} => loaded # Calibration /\ points # Calibration
      BY DEF PathInv, CalibrationInv, StartsCalibration, KeepsSnapshot, KeepsPoints, Owners,
         Starting
    <2> QED
      BY <2>1, <2>2 DEF RunDrivesItsPath
  <1> QED
    BY <1>1, <1>2, <1>3, PathInvariance, PTL DEF Spec

\* Whatever is selected meanwhile: when nobody runs a cycle the calibration
\* trajectory is neither loaded nor in the robot client.  A start that failed
\* because calibration.json has no scan point leaves that one behind, loaded and in
\* the client, and releases the run lock: but no run other than a calibration ever
\* moves the robot along anything but a path file's trajectory.
THEOREM CalibrationIsGone ==
    Spec => [](/\ Owners = {} => loaded # Calibration /\ points # Calibration
               /\ \A w \in Workers :
                     work[w].at = "moving" /\ work[w].op # "calibration" => points \in Paths)
  <1> DEFINE Gone == Owners = {} => loaded # Calibration /\ points # Calibration
             Drives == \A w \in Workers :
                 work[w].at = "moving" /\ work[w].op # "calibration" => points \in Paths
  <1>1. PathInv => Gone
    BY DEF PathInv, CalibrationInv, StartsCalibration, KeepsSnapshot, KeepsPoints, Owners,
       Starting
  <1>2. PathInv => Drives
    BY DEF PathInv, SnapshotInv, Driving
  <1> HIDE DEF Gone, Drives
  <1>3. Spec => [](Gone /\ Drives)
    BY <1>1, <1>2, PathInvariance, PTL
  <1> QED
    BY <1>3, PTL DEF Gone, Drives

=============================================================================
