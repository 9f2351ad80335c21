-------------------------- MODULE PipelineRunProofs --------------------------
(***************************************************************************)
(* Proofs about PipelineRun: the types of its state, that one run at a     *)
(* time is started or worked on, that _state tells whether there is a run  *)
(* to stop, and that a stop once signalled is kept until its run has ended *)
(* -- for any callers, worker threads, paths, settings and bounds.         *)
(***************************************************************************)
EXTENDS PipelineRun, TLAPS

\* The thread part of TypeOK, one component at a time.
CallType == [at : CallerAt, op : AllOps, step : {None} \cup Indices,
             project : {None} \cup Projects]
WorkType == [at : WorkerAt, op : AllOps, i : Indices, project : {None} \cup Projects,
             path : Trajectories]
InitType == [at : InitAt, path : Paths \cup {Calibration, Scanless, NoPoints}]
CountsOK == init \in InitType /\ calls \in 0..MaxCalls /\ drops \in 0..MaxDrops
CallsOK == call \in [Callers -> CallType]
WorksOK == work \in [Workers -> WorkType]

\* What the steps rely on beyond types: a caller that re-opens the project has
\* read a step, and a worker scans at scan positions only.
LocalsOK ==
    /\ \A c \in Callers : call[c].at = "ensure" => call[c].step # None
    /\ \A w \in Workers : work[w].at = "scanning" => work[w].i # End

\* OneRun without its set of owners: the run lock is held for each of them, and
\* there are no two.
RunInv ==
    /\ \A c \in Callers : call[c].at \in Starting => runLock
    /\ \A w \in Workers : work[w].at # "dead" => runLock
    /\ \A c, d \in Callers : call[c].at \in Starting /\ call[d].at \in Starting => c = d
    /\ \A v, w \in Workers : work[v].at # "dead" /\ work[w].at # "dead" => v = w
    /\ \A c \in Callers, w \in Workers : ~(call[c].at \in Starting /\ work[w].at # "dead")

\* The inductive invariant.
IInv == TypeOK /\ LocalsOK /\ RunInv /\ StateTellsRun

\* What StopIsKept says of a step.
KeepsAbort == state = "stopping" /\ abort /\ state' = "stopping" => abort'

\* Every step keeps the callers' locations and locals in their domains.
LEMMA NextCallsOK == TypeOK /\ [Next]_vars => CallsOK'
  <1> SUFFICES ASSUME TypeOK, [Next]_vars PROVE CallsOK'
    OBVIOUS
  <1>c. CallsOK
    BY DEF TypeOK, ThreadTypeOK, CallsOK, CallType
  <1>s. step \in {None} \cup Indices /\ project \in {None} \cup Projects
    BY DEF TypeOK, ServiceTypeOK
  <1> USE DEF CallsOK, CallType, CallerAt, Starting, AllOps, None, NoCall
  <1>1. ASSUME NEW c \in Callers, CallerBegins(c) PROVE CallsOK'
    <2>1. ASSUME NEW op \in Ops, StartAcquires(c, op) PROVE CallsOK'
      BY <1>c, <1>s, <2>1 DEF StartAcquires, Enter
    <2>2. CASE ContinueChecks(c)
      BY <1>c, <1>s, <2>2 DEF ContinueChecks, Enter
    <2>3. CASE StopMarks(c)
      <3>1. CASE Enter(c, "stop", "setAbort")
        BY <1>c, <3>1 DEF Enter
      <3>2. CASE Goto(c, "setAbort")
        BY <1>c, <3>2 DEF Goto
      <3>3. CASE Goto(c, "restart")
        BY <1>c, <3>3 DEF Goto
      <3> QED
        BY <2>3, <3>1, <3>2, <3>3 DEF StopMarks
    <2>4. CASE ReloadChecks(c)
      BY <1>c, <1>s, <2>4 DEF ReloadChecks, Enter
    <2>5. CASE SelectChecks(c)
      BY <1>c, <1>s, <2>5 DEF SelectChecks, Enter
    <2>6. CASE JogChecks(c)
      BY <1>c, <1>s, <2>6 DEF JogChecks, Enter
    <2>7. ASSUME NEW p \in Paths, SettingsReload(c, p) PROVE CallsOK'
      BY <1>c, <1>s, <2>7 DEF SettingsReload
    <2> QED
      BY <1>1, <2>1, <2>2, <2>3, <2>4, <2>5, <2>6, <2>7 DEF CallerBegins, Start
  <1>2. ASSUME NEW c \in Callers, StartProceeds(c) PROVE CallsOK'
    <2>1. CASE ContinueAcquires(c)
      BY <1>c, <1>s, <2>1 DEF ContinueAcquires, Goto, Return
    <2>2. CASE StartValidates(c)
      BY <1>c, <1>s, <2>2 DEF StartValidates, Goto
    <2>3. CASE StartRefused(c) \/ StartHasNoScan(c)
      BY <1>c, <1>s, <2>3 DEF StartRefused, StartHasNoScan, Return, Raises
    <2>4. CASE ResumeReads(c)
      <3>1. CASE Return(c)
        BY <1>c, <1>s, <3>1 DEF Return
      <3>2. CASE call' = [call EXCEPT ![c] = [at |-> "ensure", op |-> "resume",
                                       step |-> step, project |-> project]]
        BY <1>c, <1>s, <3>2
      <3> QED
        BY <2>4, <3>1, <3>2 DEF ResumeReads, Raises
    <2>5. CASE ResumeEnsures(c)
      BY <1>c, <1>s, <2>5 DEF ResumeEnsures, Goto
    <2>6. CASE EnsureFails(c)
      BY <1>c, <1>s, <2>6 DEF EnsureFails, Return, Raises
    <2>7. CASE EnsureRefused(c)
      BY <1>c, <1>s, <2>7 DEF EnsureRefused, Return
    <2>8. CASE CalibrationLoads(c)
      BY <1>c, <1>s, <2>8 DEF CalibrationLoads, Goto
    <2>9. CASE CalibrationLoadFails(c) \/ CalibrationHasNoScan(c)
      BY <1>c, <1>s, <2>9 DEF CalibrationLoadFails, CalibrationHasNoScan, Return, Raises
    <2>10. CASE CalibrationSetsPoints(c)
      BY <1>c, <1>s, <2>10 DEF CalibrationSetsPoints, Goto
    <2>11. CASE StartClearsAbort(c)
      BY <1>c, <1>s, <2>11 DEF StartClearsAbort, Goto
    <2>12. CASE StartClearsMotion(c)
      BY <1>c, <1>s, <2>12 DEF StartClearsMotion, Goto
    <2>13. CASE StartRuns(c)
      BY <1>c, <1>s, <2>13 DEF StartRuns, Goto
    <2>14. ASSUME NEW w \in Workers, StartSpawns(c, w) PROVE CallsOK'
      BY <1>c, <1>s, <2>14 DEF StartSpawns, Return
    <2> QED
      BY <1>2, <2>1, <2>2, <2>3, <2>4, <2>5, <2>6, <2>7, <2>8, <2>9, <2>10, <2>11,
         <2>12, <2>13, <2>14 DEF StartProceeds
  <1>3. ASSUME NEW c \in Callers, StopProceeds(c) PROVE CallsOK'
    <2>1. CASE StopMarks(c)
      <3>1. CASE Enter(c, "stop", "setAbort")
        BY <1>c, <3>1 DEF Enter
      <3>2. CASE Goto(c, "setAbort")
        BY <1>c, <3>2 DEF Goto
      <3>3. CASE Goto(c, "restart")
        BY <1>c, <3>3 DEF Goto
      <3> QED
        BY <2>1, <3>1, <3>2, <3>3 DEF StopMarks
    <2>2. CASE StopSetsAbort(c)
      BY <1>c, <1>s, <2>2 DEF StopSetsAbort, Goto
    <2>3. CASE StopCancelsMotion(c)
      BY <1>c, <1>s, <2>3 DEF StopCancelsMotion, Goto
    <2>4. CASE StopJoins(c)
      BY <1>c, <1>s, <2>4 DEF StopJoins, Goto, Return
    <2>5. CASE ReloadRestarts(c)
      BY <1>c, <1>s, <2>5 DEF ReloadRestarts, Goto, Return
    <2>6. CASE ReloadForgets(c)
      BY <1>c, <1>s, <2>6 DEF ReloadForgets, Return
    <2> QED
      BY <1>3, <2>1, <2>2, <2>3, <2>4, <2>5, <2>6 DEF StopProceeds
  <1>4. ASSUME NEW c \in Callers, PathProceeds(c) PROVE CallsOK'
    <2>1. ASSUME NEW p \in Paths, SelectReloads(c, p) PROVE CallsOK'
      BY <1>c, <1>s, <2>1 DEF SelectReloads, Goto
    <2>2. CASE PathChecks(c)
      BY <1>c, <1>s, <2>2 DEF PathChecks, Goto, Return
    <2>3. CASE PathSets(c)
      BY <1>c, <1>s, <2>3 DEF PathSets, Return
    <2>4. CASE JogEnsuresClient(c)
      BY <1>c, <1>s, <2>4 DEF JogEnsuresClient, Goto, Return
    <2>5. CASE JogClearsMotion(c)
      BY <1>c, <1>s, <2>5 DEF JogClearsMotion, Goto
    <2>6. CASE JogEnds(c)
      BY <1>c, <1>s, <2>6 DEF JogEnds, Return
    <2> QED
      BY <1>4, <2>1, <2>2, <2>3, <2>4, <2>5, <2>6 DEF PathProceeds
  <1>5. ASSUME NEW w \in Workers, Lap(w) PROVE CallsOK'
    BY <1>c, <1>5 DEF Lap, LapBegins, WorkerCreates, LapReads, CalibrationEnters,
             RunCannotBegin, RunBegins, OnStep, RunEnds, RunRepeats,
             NextLapCreates, NextLapSetsPoints
  <1>6. ASSUME NEW w \in Workers, Machine(w) PROVE CallsOK'
    BY <1>c, <1>6 DEF Machine, WorkerTravels, WorkerMoves, WorkerScans, WorkerSkipsScan, AfterScan, LapEnds
  <1>7. ASSUME NEW w \in Workers, Outcome(w) PROVE CallsOK'
    BY <1>c, <1>7 DEF Outcome, WorkerSeesAbort, WorkerSeesCancel, CalibrationExits,
             RunFails
  <1>8. ASSUME NEW w \in Workers, WorkerFails(w) PROVE CallsOK'
    BY <1>c, <1>s, <1>8 DEF WorkerFails
  <1>9. ASSUME NEW w \in Workers, Cleanup(w) PROVE CallsOK'
    BY <1>c, <1>9 DEF Cleanup, WorkerClearsAbort, WorkerClearsMotion, CalibrationRestores,
             CalibrationChecksState, CalibrationRestoresPoints, WorkerReleases
  <1>10. CASE InitWorker
    BY <1>c, <1>10 DEF InitWorker, InitChecks, InitBegins, InitScanner, InitForgets,
             InitChecksClient, InitCreatesClient, InitEnds, InitGoto, NoInit
  <1>11. CASE ScannerDrops \/ LeftExports
    BY <1>c, <1>s, <1>11 DEF ScannerDrops, LeftExports, ExportTakesLock, ExportEnds
  <1>12. CASE UNCHANGED vars
    BY <1>c, <1>s, <1>12 DEF vars, serviceVars, ownVars, pathVars, scanVars, counts
  <1> QED
    BY <1>1, <1>2, <1>3, <1>4, <1>5, <1>6, <1>7, <1>8, <1>9, <1>10, <1>11, <1>12
    DEF Next, CallerProceeds, CycleWorker

\* A worker that goes on and sets one of its locals stays in its domain.
LEMMA WorkMoves ==
    ASSUME NEW r \in WorkType, NEW l \in WorkerAt
    PROVE  /\ \A p \in {None} \cup Projects : [r EXCEPT !.project = p, !.at = l] \in WorkType
           /\ \A i \in Indices : [r EXCEPT !.i = i, !.at = l] \in WorkType
           /\ \A p \in Trajectories : [r EXCEPT !.path = p, !.at = l] \in WorkType
  BY DEF WorkType

\* Every step keeps the workers' locations and locals in their domains.
LEMMA NextWorksOK == TypeOK /\ LocalsOK /\ [Next]_vars => WorksOK'
  <1> SUFFICES ASSUME TypeOK, LocalsOK, [Next]_vars PROVE WorksOK'
    OBVIOUS
  <1>w. WorksOK
    BY DEF TypeOK, ThreadTypeOK, WorksOK, WorkType
  <1>s. /\ resumeStart \in Indices /\ project \in {None} \cup Projects
        /\ points \in Trajectories /\ (loaded # Broken => loaded \in Trajectories)
    BY DEF TypeOK, ServiceTypeOK, PathTypeOK, Trajectories
  <1>n. NoWork \in WorkType
    BY RunBoundsAssumption DEF NoWork, WorkType, WorkerAt, AllOps, Indices, First, End, None,
       Trajectories
  <1> USE DEF WorksOK
  <1> USE DEF WorkType, WorkerAt, Going, Closing
  <1>1. ASSUME NEW c \in Callers, CallerBegins(c) PROVE WorksOK'
    BY <1>w, <1>1 DEF CallerBegins, Start, StartAcquires, ContinueChecks, StopMarks,
             ReloadChecks, SelectChecks, JogChecks, SettingsReload
  <1>2. ASSUME NEW c \in Callers, StartProceeds(c) PROVE WorksOK'
    <2>1. CASE ContinueAcquires(c)
      BY <1>w, <2>1 DEF ContinueAcquires
    <2>2. CASE StartValidates(c)
      BY <1>w, <2>2 DEF StartValidates
    <2>3. CASE StartRefused(c) \/ StartHasNoScan(c)
      BY <1>w, <2>3 DEF StartRefused, StartHasNoScan
    <2>4. CASE ResumeReads(c)
      BY <1>w, <2>4 DEF ResumeReads
    <2>5. CASE ResumeEnsures(c)
      BY <1>w, <2>5 DEF ResumeEnsures
    <2>6. CASE EnsureFails(c)
      BY <1>w, <2>6 DEF EnsureFails
    <2>7. CASE EnsureRefused(c)
      BY <1>w, <2>7 DEF EnsureRefused
    <2>8. CASE CalibrationLoads(c)
      BY <1>w, <2>8 DEF CalibrationLoads
    <2>9. CASE CalibrationLoadFails(c) \/ CalibrationHasNoScan(c)
      BY <1>w, <2>9 DEF CalibrationLoadFails, CalibrationHasNoScan
    <2>10. CASE CalibrationSetsPoints(c)
      BY <1>w, <2>10 DEF CalibrationSetsPoints
    <2>11. CASE StartClearsAbort(c)
      BY <1>w, <2>11 DEF StartClearsAbort
    <2>12. CASE StartClearsMotion(c)
      BY <1>w, <2>12 DEF StartClearsMotion
    <2>13. CASE StartRuns(c)
      BY <1>w, <2>13 DEF StartRuns
    <2>14. ASSUME NEW w \in Workers, StartSpawns(c, w) PROVE WorksOK'
      <3>1. call[c].op \in AllOps
        BY DEF TypeOK, ThreadTypeOK
      <3>2. [NoWork EXCEPT !.at = IF call[c].op = "calibration" THEN "enter" ELSE "top",
                         !.op = call[c].op] \in WorkType
        BY <3>1, <1>n
      <3> QED
        BY <1>w, <3>2, <2>14 DEF StartSpawns
    <2> QED
      BY <1>2, <2>1, <2>2, <2>3, <2>4, <2>5, <2>6, <2>7, <2>8, <2>9, <2>10, <2>11,
         <2>12, <2>13, <2>14 DEF StartProceeds
  <1>3. ASSUME NEW c \in Callers, StopProceeds(c) PROVE WorksOK'
    BY <1>w, <1>3 DEF StopProceeds, StopMarks, StopSetsAbort, StopCancelsMotion, StopJoins,
             ReloadRestarts, ReloadForgets
  <1>4. ASSUME NEW c \in Callers, PathProceeds(c) PROVE WorksOK'
    BY <1>w, <1>4 DEF PathProceeds, SelectReloads, PathChecks, PathSets, JogEnsuresClient,
             JogClearsMotion, JogEnds
  <1>5. ASSUME NEW w \in Workers, Lap(w) PROVE WorksOK'
    <2>1. CASE LapBegins(w)
      BY <1>w, <2>1 DEF LapBegins, WorkGoto
    <2>2. CASE WorkerCreates(w)
      BY <1>w, <2>2 DEF WorkerCreates, WorkGoto
    <2>3. CASE LapReads(w)
      <3> DEFINE l == IF startup THEN "travel" ELSE "first"
      <3>1. l \in WorkerAt
        OBVIOUS
      <3>2. work' = [work EXCEPT ![w] = [@ EXCEPT !.project = project, !.at = l]]
        BY <2>3 DEF LapReads
      <3>3. [work[w] EXCEPT !.project = project, !.at = l] \in WorkType
        <4> HIDE DEF l, WorkType, WorkerAt
        <4> QED
          BY <1>w, <1>s, <3>1, WorkMoves
      <3> HIDE DEF l, WorkType
      <3> QED
        BY <1>w, <3>2, <3>3
    <2>4. CASE CalibrationEnters(w)
      BY <1>w, <2>4 DEF CalibrationEnters, WorkGoto
    <2>5. CASE RunCannotBegin(w)
      BY <1>w, <2>5 DEF RunCannotBegin, Raise, WorkGoto
    <2>6. CASE RunBegins(w)
      <3> DEFINE l == IF StopsAtLastScan(w) /\ resumeStart = End THEN "home" ELSE "loop"
      <3>1. l \in WorkerAt
        OBVIOUS
      <3>2. work' = [work EXCEPT ![w] = [@ EXCEPT !.i = resumeStart, !.at = l]]
        BY <2>6 DEF RunBegins
      <3>3. [work[w] EXCEPT !.i = resumeStart, !.at = l] \in WorkType
        <4> HIDE DEF l, WorkType, WorkerAt
        <4> QED
          BY <1>w, <1>s, <3>1, WorkMoves
      <3> HIDE DEF l, WorkType
      <3> QED
        BY <1>w, <3>2, <3>3
    <2>7. CASE OnStep(w)
      BY <1>w, <2>7 DEF OnStep, WorkGoto
    <2>8. CASE RunEnds(w)
      BY <1>w, <2>8 DEF RunEnds, WorkGoto
    <2>9. CASE RunRepeats(w)
      <3>1. work' = [work EXCEPT ![w] = [work[w] EXCEPT !.path = loaded, !.at = "prepare"]]
        BY <1>w, <2>9 DEF RunRepeats
      <3>2. work[w] \in WorkType /\ "prepare" \in WorkerAt /\ loaded \in Trajectories
        BY <1>w, <1>s, <2>9 DEF RunRepeats
      <3>3. [work[w] EXCEPT !.path = loaded, !.at = "prepare"] \in WorkType
        <4> HIDE DEF WorkType, WorkerAt
        <4> QED
          BY <3>2, WorkMoves
      <3> HIDE DEF WorkType
      <3> QED
        BY <1>w, <3>1, <3>3
    <2>10. CASE NextLapCreates(w)
      BY <1>w, <2>10 DEF NextLapCreates, WorkGoto
    <2>11. CASE NextLapSetsPoints(w)
      BY <1>w, <2>11 DEF NextLapSetsPoints, WorkGoto
    <2> QED
      BY <1>5, <2>1, <2>2, <2>3, <2>4, <2>5, <2>6, <2>7, <2>8, <2>9, <2>10, <2>11 DEF Lap
  <1>6. ASSUME NEW w \in Workers, Machine(w) PROVE WorksOK'
    <2>1. CASE WorkerTravels(w)
      BY <1>w, <2>1 DEF WorkerTravels, WorkGoto
    <2>2. CASE WorkerMoves(w)
      <3> DEFINE l == IF work[w].i # End THEN "scanning"
                      ELSE IF work[w].op = "calibration" THEN "record" ELSE "ended"
      <3>1. l \in WorkerAt
        OBVIOUS
      <3>2. work' = [work EXCEPT ![w] = [@ EXCEPT !.path = points, !.at = l]]
        BY <2>2 DEF WorkerMoves
      <3>3. [work[w] EXCEPT !.path = points, !.at = l] \in WorkType
        <4> HIDE DEF l, WorkType, WorkerAt
        <4> QED
          BY <1>w, <1>s, <3>1, WorkMoves
      <3> HIDE DEF l, WorkType
      <3> QED
        BY <1>w, <3>2, <3>3
    <2>3. CASE WorkerScans(w) \/ WorkerSkipsScan(w)
      <3>1. work[w].i + 1 \in Indices
        BY <1>w, <2>3, RunBoundsAssumption DEF WorkerScans, WorkerSkipsScan, AfterScan, LocalsOK, Indices, First, End
      <3> DEFINE l == IF StopsAtLastScan(w) /\ work[w].i = LastScan THEN "home" ELSE "loop"
      <3>2. l \in WorkerAt
        OBVIOUS
      <3>3. work' = [work EXCEPT ![w] = [@ EXCEPT !.i = work[w].i + 1, !.at = l]]
        BY <2>3 DEF WorkerScans, WorkerSkipsScan, AfterScan
      <3>4. [work[w] EXCEPT !.i = work[w].i + 1, !.at = l] \in WorkType
        <4> HIDE DEF l, WorkType, WorkerAt
        <4> QED
          BY <1>w, <3>1, <3>2, WorkMoves
      <3> HIDE DEF l, WorkType
      <3> QED
        BY <1>w, <3>3, <3>4
    <2>4. CASE LapEnds(w)
      BY <1>w, <2>4 DEF LapEnds, WorkGoto
    <2> QED
      BY <1>6, <2>1, <2>2, <2>3, <2>4 DEF Machine
  <1>7. ASSUME NEW w \in Workers, Outcome(w) PROVE WorksOK'
    <2>1. CASE WorkerSeesAbort(w)
      BY <1>w, <2>1 DEF WorkerSeesAbort, Raise, WorkGoto
    <2>2. CASE WorkerSeesCancel(w)
      BY <1>w, <2>2 DEF WorkerSeesCancel, Raise, WorkGoto
    <2>3. CASE CalibrationExits(w)
      BY <1>w, <2>3 DEF CalibrationExits, WorkGoto
    <2>4. CASE RunFails(w)
      BY <1>w, <2>4 DEF RunFails, WorkGoto
    <2> QED
      BY <1>7, <2>1, <2>2, <2>3, <2>4 DEF Outcome
  <1>8. ASSUME NEW w \in Workers, WorkerFails(w) PROVE WorksOK'
    BY <1>w, <1>8 DEF WorkerFails, Raise, WorkGoto
  <1>9. ASSUME NEW w \in Workers, Cleanup(w) PROVE WorksOK'
    <2>1. CASE WorkerClearsAbort(w)
      BY <1>w, <2>1 DEF WorkerClearsAbort, WorkGoto
    <2>2. CASE WorkerClearsMotion(w)
      BY <1>w, <2>2 DEF WorkerClearsMotion, WorkGoto
    <2>3. CASE CalibrationRestores(w)
      BY <1>w, <2>3 DEF CalibrationRestores, WorkGoto
    <2>4. CASE CalibrationChecksState(w)
      BY <1>w, <2>4 DEF CalibrationChecksState, WorkGoto
    <2>5. CASE CalibrationRestoresPoints(w)
      BY <1>w, <2>5 DEF CalibrationRestoresPoints, WorkGoto
    <2>6. CASE WorkerReleases(w)
      BY <1>w, <1>n, <2>6 DEF WorkerReleases
    <2> QED
      BY <1>9, <2>1, <2>2, <2>3, <2>4, <2>5, <2>6 DEF Cleanup
  <1>10. CASE InitWorker
    BY <1>w, <1>10 DEF InitWorker, InitChecks, InitBegins, InitScanner, InitForgets,
             InitChecksClient, InitCreatesClient, InitEnds, InitGoto, NoInit
  <1>11. CASE ScannerDrops \/ LeftExports
    BY <1>w, <1>11 DEF ScannerDrops, LeftExports, ExportTakesLock, ExportEnds
  <1>12. CASE UNCHANGED vars
    BY <1>w, <1>12 DEF vars, serviceVars, ownVars, pathVars, scanVars, counts
  <1> QED
    BY <1>1, <1>2, <1>3, <1>4, <1>5, <1>6, <1>7, <1>8, <1>9, <1>10, <1>11, <1>12
    DEF Next, CallerProceeds, CycleWorker

\* Every step keeps what PipelineService holds in its domain.
LEMMA NextServiceOK == TypeOK /\ LocalsOK /\ [Next]_vars => ServiceTypeOK'
  <1> SUFFICES ASSUME TypeOK, LocalsOK, [Next]_vars PROVE ServiceTypeOK'
    OBVIOUS
  <1>s. ServiceTypeOK
    BY DEF TypeOK
  <1>c. \A c \in Callers : /\ call[c].step \in {None} \cup Indices
                           /\ call[c].project \in {None} \cup Projects
    BY DEF TypeOK, ThreadTypeOK
  <1>w. \A w \in Workers : /\ work[w].i \in Indices
                           /\ work[w].project \in {None} \cup Projects
    BY DEF TypeOK, ThreadTypeOK
  <1>i. First \in Indices /\ None \notin Indices
    BY RunBoundsAssumption DEF Indices, First, End, None
  <1>p. created < MaxProjects => created + 1 \in Projects
    BY RunBoundsAssumption DEF TypeOK, ScannerTypeOK, Projects
  <1> USE DEF ServiceTypeOK, serviceVars, ownVars
  <1>1. ASSUME NEW c \in Callers, CallerBegins(c) PROVE ServiceTypeOK'
    BY <1>s, <1>1 DEF CallerBegins, Start, StartAcquires, ContinueChecks, StopMarks,
             ReloadChecks, SelectChecks, JogChecks, SettingsReload
  <1>2. ASSUME NEW c \in Callers, StartProceeds(c) PROVE ServiceTypeOK'
    <2>1. CASE ContinueAcquires(c)
      BY <1>s, <2>1 DEF ContinueAcquires
    <2>2. CASE StartValidates(c)
      BY <1>s, <1>i, <2>2 DEF StartValidates
    <2>3. CASE StartRefused(c) \/ StartHasNoScan(c)
      BY <1>s, <2>3 DEF StartRefused, StartHasNoScan, Raises
    <2>4. CASE ResumeReads(c)
      BY <1>s, <2>4 DEF ResumeReads, Raises
    <2>5. CASE ResumeEnsures(c)
      <3>1. call[c].step \in Indices
        BY <1>c, <2>5 DEF ResumeEnsures, LocalsOK
      <3> QED
        BY <1>s, <3>1, <2>5 DEF ResumeEnsures
    <2>6. CASE EnsureFails(c)
      BY <1>s, <2>6 DEF EnsureFails, Raises
    <2>7. CASE EnsureRefused(c)
      BY <1>s, <2>7 DEF EnsureRefused
    <2>8. CASE CalibrationLoads(c)
      BY <1>s, <1>i, <2>8 DEF CalibrationLoads
    <2>9. CASE CalibrationLoadFails(c) \/ CalibrationHasNoScan(c)
      BY <1>s, <2>9 DEF CalibrationLoadFails, CalibrationHasNoScan, Raises
    <2>10. CASE CalibrationSetsPoints(c)
      BY <1>s, <1>i, <2>10 DEF CalibrationSetsPoints
    <2>11. CASE StartClearsAbort(c)
      BY <1>s, <2>11 DEF StartClearsAbort
    <2>12. CASE StartClearsMotion(c)
      BY <1>s, <2>12 DEF StartClearsMotion
    <2>13. CASE StartRuns(c)
      BY <1>s, <1>c, <2>13 DEF StartRuns
    <2>14. ASSUME NEW w \in Workers, StartSpawns(c, w) PROVE ServiceTypeOK'
      BY <1>s, <2>14 DEF StartSpawns
    <2> QED
      BY <1>2, <2>1, <2>2, <2>3, <2>4, <2>5, <2>6, <2>7, <2>8, <2>9, <2>10, <2>11,
         <2>12, <2>13, <2>14 DEF StartProceeds
  <1>3. ASSUME NEW c \in Callers, StopProceeds(c) PROVE ServiceTypeOK'
    BY <1>s, <1>3 DEF StopProceeds, StopMarks, StopSetsAbort, StopCancelsMotion, StopJoins,
             ReloadRestarts, ReloadForgets, Forget
  <1>4. ASSUME NEW c \in Callers, PathProceeds(c) PROVE ServiceTypeOK'
    BY <1>s, <1>4 DEF PathProceeds, SelectReloads, PathChecks, PathSets, JogEnsuresClient,
             JogClearsMotion, JogEnds
  <1>5. ASSUME NEW w \in Workers, Lap(w) PROVE ServiceTypeOK'
    <2>1. CASE LapBegins(w)
      BY <1>s, <2>1 DEF LapBegins
    <2>2. CASE WorkerCreates(w)
      BY <1>s, <1>p, <2>2 DEF WorkerCreates, NewProject
    <2>3. CASE LapReads(w)
      BY <1>s, <2>3 DEF LapReads
    <2>4. CASE CalibrationEnters(w)
      BY <1>s, <2>4 DEF CalibrationEnters
    <2>5. CASE RunCannotBegin(w)
      BY <1>s, <2>5 DEF RunCannotBegin
    <2>6. CASE RunBegins(w)
      BY <1>s, <2>6 DEF RunBegins
    <2>7. CASE OnStep(w)
      BY <1>s, <1>w, <2>7 DEF OnStep
    <2>8. CASE RunEnds(w)
      BY <1>s, <2>8 DEF RunEnds
    <2>9. CASE RunRepeats(w)
      BY <1>s, <2>9 DEF RunRepeats
    <2>10. CASE NextLapCreates(w)
      BY <1>s, <1>i, <1>p, <2>10 DEF NextLapCreates, NewProject
    <2>11. CASE NextLapSetsPoints(w)
      BY <1>s, <2>11 DEF NextLapSetsPoints
    <2> QED
      BY <1>5, <2>1, <2>2, <2>3, <2>4, <2>5, <2>6, <2>7, <2>8, <2>9, <2>10, <2>11 DEF Lap
  <1>6. ASSUME NEW w \in Workers, Machine(w) PROVE ServiceTypeOK'
    <2>1. CASE WorkerTravels(w)
      BY <1>s, <2>1 DEF WorkerTravels
    <2>2. CASE WorkerMoves(w)
      BY <1>s, <2>2 DEF WorkerMoves
    <2>3. CASE WorkerScans(w) \/ WorkerSkipsScan(w)
      BY <1>s, <2>3 DEF WorkerScans, WorkerSkipsScan, AfterScan
    <2>4. CASE LapEnds(w)
      BY <1>s, <1>w, <2>4 DEF LapEnds
    <2> QED
      BY <1>6, <2>1, <2>2, <2>3, <2>4 DEF Machine
  <1>7. ASSUME NEW w \in Workers, Outcome(w) PROVE ServiceTypeOK'
    BY <1>s, <1>7 DEF Outcome, WorkerSeesAbort, WorkerSeesCancel, CalibrationExits,
             RunFails
  <1>8. ASSUME NEW w \in Workers, WorkerFails(w) PROVE ServiceTypeOK'
    BY <1>s, <1>8 DEF WorkerFails
  <1>9. ASSUME NEW w \in Workers, Cleanup(w) PROVE ServiceTypeOK'
    BY <1>s, <1>9 DEF Cleanup, WorkerClearsAbort, WorkerClearsMotion, CalibrationRestores,
             CalibrationChecksState, CalibrationRestoresPoints, WorkerReleases
  <1>10. CASE InitWorker
    BY <1>s, <1>10 DEF InitWorker, InitChecks, InitBegins, InitScanner, InitForgets,
             InitChecksClient, InitCreatesClient, InitEnds, InitGoto, NoInit, Forget
  <1>11. CASE ScannerDrops \/ LeftExports
    BY <1>s, <1>11 DEF ScannerDrops, LeftExports, ExportTakesLock, ExportEnds, Forget
  <1>12. CASE UNCHANGED vars
    BY <1>s, <1>12 DEF vars, serviceVars, ownVars, pathVars, scanVars, counts
  <1> QED
    BY <1>1, <1>2, <1>3, <1>4, <1>5, <1>6, <1>7, <1>8, <1>9, <1>10, <1>11, <1>12
    DEF Next, CallerProceeds, CycleWorker

\* Every step keeps the trajectory and the robot client's points in their domains.
LEMMA NextPathOK == TypeOK /\ [Next]_vars => PathTypeOK'
  <1> SUFFICES ASSUME TypeOK, [Next]_vars PROVE PathTypeOK'
    OBVIOUS
  <1>s. /\ PathTypeOK
        /\ \A w \in Workers : work[w].path \in Trajectories
        /\ init.path \in Paths \cup {Calibration, Scanless, NoPoints}
    BY DEF TypeOK, ThreadTypeOK
  <1> USE DEF PathTypeOK, pathVars, Trajectories
  <1>1. ASSUME NEW c \in Callers, CallerBegins(c) PROVE PathTypeOK'
    BY <1>s, <1>1 DEF CallerBegins, Start, StartAcquires, ContinueChecks, StopMarks,
             ReloadChecks, SelectChecks, JogChecks, SettingsReload
  <1>2. ASSUME NEW c \in Callers, StartProceeds(c) PROVE PathTypeOK'
    BY <1>s, <1>2 DEF StartProceeds, ContinueAcquires, StartValidates, StartRefused, StartHasNoScan,
             ResumeReads, ResumeEnsures, EnsureFails, EnsureRefused,
             CalibrationLoads, CalibrationLoadFails, CalibrationHasNoScan, CalibrationSetsPoints,
             StartClearsAbort, StartClearsMotion, StartRuns, StartSpawns,
             PointsFromSnapshot
  <1>3. ASSUME NEW c \in Callers, StopProceeds(c) PROVE PathTypeOK'
    BY <1>s, <1>3 DEF StopProceeds, StopMarks, StopSetsAbort, StopCancelsMotion, StopJoins,
             ReloadRestarts, ReloadForgets
  <1>4. ASSUME NEW c \in Callers, PathProceeds(c) PROVE PathTypeOK'
    BY <1>s, <1>4 DEF PathProceeds, SelectReloads, PathChecks, PathSets, JogEnsuresClient,
             JogClearsMotion, JogEnds, PointsFromSnapshot
  <1>5. ASSUME NEW w \in Workers, Lap(w) PROVE PathTypeOK'
    BY <1>s, <1>5 DEF Lap, LapBegins, WorkerCreates, LapReads, CalibrationEnters,
             RunCannotBegin, RunBegins, OnStep, RunEnds, RunRepeats,
             NextLapCreates, NextLapSetsPoints, PointsFromSnapshot
  <1>6. ASSUME NEW w \in Workers, Machine(w) PROVE PathTypeOK'
    BY <1>s, <1>6 DEF Machine, WorkerTravels, WorkerMoves, WorkerScans, WorkerSkipsScan, AfterScan, LapEnds
  <1>7. ASSUME NEW w \in Workers, Outcome(w) PROVE PathTypeOK'
    BY <1>s, <1>7 DEF Outcome, WorkerSeesAbort, WorkerSeesCancel, CalibrationExits,
             RunFails
  <1>8. ASSUME NEW w \in Workers, WorkerFails(w) PROVE PathTypeOK'
    BY <1>s, <1>8 DEF WorkerFails
  <1>9. ASSUME NEW w \in Workers, Cleanup(w) PROVE PathTypeOK'
    BY <1>s, <1>9 DEF Cleanup, WorkerClearsAbort, WorkerClearsMotion, CalibrationRestores,
             CalibrationChecksState, CalibrationRestoresPoints, WorkerReleases,
             PointsFromSnapshot
  <1>10. CASE InitWorker
    BY <1>s, <1>10 DEF InitWorker, InitChecks, InitBegins, InitScanner, InitForgets,
             InitChecksClient, InitCreatesClient, InitEnds, InitGoto, NoInit
  <1>11. CASE ScannerDrops \/ LeftExports
    BY <1>s, <1>11 DEF ScannerDrops, LeftExports, ExportTakesLock, ExportEnds
  <1>12. CASE UNCHANGED vars
    BY <1>s, <1>12 DEF vars, serviceVars, ownVars, pathVars, scanVars, counts
  <1> QED
    BY <1>1, <1>2, <1>3, <1>4, <1>5, <1>6, <1>7, <1>8, <1>9, <1>10, <1>11, <1>12
    DEF Next, CallerProceeds, CycleWorker

\* Every step keeps the scanner and its projects in their domains.
LEMMA NextScannerOK == TypeOK /\ [Next]_vars => ScannerTypeOK'
  <1> SUFFICES ASSUME TypeOK, [Next]_vars PROVE ScannerTypeOK'
    OBVIOUS
  <1>s. ScannerTypeOK
    BY DEF TypeOK
  <1> USE DEF ScannerTypeOK, scanVars
  <1>1. ASSUME NEW c \in Callers, CallerBegins(c) PROVE ScannerTypeOK'
    BY <1>s, <1>1 DEF CallerBegins, Start, StartAcquires, ContinueChecks, StopMarks,
             ReloadChecks, SelectChecks, JogChecks, SettingsReload
  <1>2. ASSUME NEW c \in Callers, StartProceeds(c) PROVE ScannerTypeOK'
    BY <1>s, <1>2 DEF StartProceeds, ContinueAcquires, StartValidates, StartRefused, StartHasNoScan,
             ResumeReads, ResumeEnsures, EnsureFails, EnsureRefused,
             CalibrationLoads, CalibrationLoadFails, CalibrationHasNoScan, CalibrationSetsPoints,
             StartClearsAbort, StartClearsMotion, StartRuns, StartSpawns
  <1>3. ASSUME NEW c \in Callers, StopProceeds(c) PROVE ScannerTypeOK'
    BY <1>s, <1>3 DEF StopProceeds, StopMarks, StopSetsAbort, StopCancelsMotion, StopJoins,
             ReloadRestarts, ReloadForgets
  <1>4. ASSUME NEW c \in Callers, PathProceeds(c) PROVE ScannerTypeOK'
    BY <1>s, <1>4 DEF PathProceeds, SelectReloads, PathChecks, PathSets, JogEnsuresClient,
             JogClearsMotion, JogEnds
  <1>5. ASSUME NEW w \in Workers, Lap(w) PROVE ScannerTypeOK'
    <2>1. CASE LapBegins(w)
      BY <1>s, <2>1 DEF LapBegins
    <2>2. CASE WorkerCreates(w)
      BY <1>s, <2>2, RunBoundsAssumption DEF WorkerCreates, NewProject
    <2>3. CASE LapReads(w)
      BY <1>s, <2>3 DEF LapReads
    <2>4. CASE CalibrationEnters(w)
      BY <1>s, <2>4 DEF CalibrationEnters
    <2>5. CASE RunCannotBegin(w)
      BY <1>s, <2>5 DEF RunCannotBegin
    <2>6. CASE RunBegins(w)
      BY <1>s, <2>6 DEF RunBegins
    <2>7. CASE OnStep(w)
      BY <1>s, <2>7 DEF OnStep
    <2>8. CASE RunEnds(w)
      BY <1>s, <2>8 DEF RunEnds
    <2>9. CASE RunRepeats(w)
      BY <1>s, <2>9 DEF RunRepeats
    <2>10. CASE NextLapCreates(w)
      BY <1>s, <2>10, RunBoundsAssumption DEF NextLapCreates, NewProject
    <2>11. CASE NextLapSetsPoints(w)
      BY <1>s, <2>11 DEF NextLapSetsPoints
    <2> QED
      BY <1>5, <2>1, <2>2, <2>3, <2>4, <2>5, <2>6, <2>7, <2>8, <2>9, <2>10, <2>11 DEF Lap
  <1>6. ASSUME NEW w \in Workers, Machine(w) PROVE ScannerTypeOK'
    <2>1. CASE WorkerTravels(w)
      BY <1>s, <2>1 DEF WorkerTravels
    <2>2. CASE WorkerMoves(w)
      BY <1>s, <2>2 DEF WorkerMoves
    <2>3. CASE WorkerScans(w) \/ WorkerSkipsScan(w)
      <3>1. <<work[w].path, work[w].i>> \in Trajectories \X Indices
        BY DEF TypeOK, ThreadTypeOK
      <3> QED
        BY <1>s, <3>1, <2>3 DEF WorkerScans, WorkerSkipsScan, AfterScan
    <2>4. CASE LapEnds(w)
      BY <1>s, <2>4 DEF LapEnds
    <2> QED
      BY <1>6, <2>1, <2>2, <2>3, <2>4 DEF Machine
  <1>7. ASSUME NEW w \in Workers, Outcome(w) PROVE ScannerTypeOK'
    BY <1>s, <1>7 DEF Outcome, WorkerSeesAbort, WorkerSeesCancel, CalibrationExits,
             RunFails, LeavesExport
  <1>8. ASSUME NEW w \in Workers, WorkerFails(w) PROVE ScannerTypeOK'
    BY <1>s, <1>8 DEF WorkerFails, LeavesExport
  <1>9. ASSUME NEW w \in Workers, Cleanup(w) PROVE ScannerTypeOK'
    BY <1>s, <1>9 DEF Cleanup, WorkerClearsAbort, WorkerClearsMotion, CalibrationRestores,
             CalibrationChecksState, CalibrationRestoresPoints, WorkerReleases
  <1>10. CASE InitWorker
    BY <1>s, <1>10 DEF InitWorker, InitChecks, InitBegins, InitScanner, InitForgets,
             InitChecksClient, InitCreatesClient, InitEnds, InitGoto, NoInit
  <1>11. CASE ScannerDrops \/ LeftExports
    BY <1>s, <1>11 DEF ScannerDrops, LeftExports, ExportTakesLock, ExportEnds
  <1>12. CASE UNCHANGED vars
    BY <1>s, <1>12 DEF vars, serviceVars, ownVars, pathVars, scanVars, counts
  <1> QED
    BY <1>1, <1>2, <1>3, <1>4, <1>5, <1>6, <1>7, <1>8, <1>9, <1>10, <1>11, <1>12
    DEF Next, CallerProceeds, CycleWorker

\* Every step keeps the initialisation worker and the counters in their domains.
LEMMA NextCountsOK == TypeOK /\ [Next]_vars => CountsOK'
  <1> SUFFICES ASSUME TypeOK, [Next]_vars PROVE CountsOK'
    OBVIOUS
  <1>s. CountsOK
    BY DEF TypeOK, ThreadTypeOK, CountsOK, InitType
  <1> USE RunBoundsAssumption DEF CountsOK, InitType, InitAt, counts
  <1>1. ASSUME NEW c \in Callers, CallerBegins(c) PROVE CountsOK'
    <2>1. ASSUME NEW op \in Ops, StartAcquires(c, op) PROVE CountsOK'
      BY <1>s, <2>1 DEF StartAcquires, Enter
    <2>2. CASE ContinueChecks(c)
      BY <1>s, <2>2 DEF ContinueChecks, Enter
    <2>3. CASE StopMarks(c)
      BY <1>s, <2>3 DEF StopMarks, Enter
    <2>4. CASE ReloadChecks(c)
      BY <1>s, <2>4 DEF ReloadChecks, Enter
    <2>5. CASE SelectChecks(c)
      BY <1>s, <2>5 DEF SelectChecks, Enter
    <2>6. CASE JogChecks(c)
      BY <1>s, <2>6 DEF JogChecks, Enter
    <2>7. ASSUME NEW p \in Paths, SettingsReload(c, p) PROVE CountsOK'
      BY <1>s, <2>7 DEF SettingsReload
    <2> QED
      BY <1>1, <2>1, <2>2, <2>3, <2>4, <2>5, <2>6, <2>7 DEF CallerBegins, Start
  <1>2. ASSUME NEW c \in Callers, StartProceeds(c) PROVE CountsOK'
    BY <1>s, <1>2 DEF StartProceeds, ContinueAcquires, StartValidates, StartRefused, StartHasNoScan,
             ResumeReads, ResumeEnsures, EnsureFails, EnsureRefused,
             CalibrationLoads, CalibrationLoadFails, CalibrationHasNoScan, CalibrationSetsPoints,
             StartClearsAbort, StartClearsMotion, StartRuns, StartSpawns
  <1>3. ASSUME NEW c \in Callers, StopProceeds(c) PROVE CountsOK'
    BY <1>s, <1>3 DEF StopProceeds, StopMarks, StopSetsAbort, StopCancelsMotion, StopJoins,
             ReloadRestarts, ReloadForgets, Enter
  <1>4. ASSUME NEW c \in Callers, PathProceeds(c) PROVE CountsOK'
    BY <1>s, <1>4 DEF PathProceeds, SelectReloads, PathChecks, PathSets, JogEnsuresClient,
             JogClearsMotion, JogEnds
  <1>5. ASSUME NEW w \in Workers, Lap(w) PROVE CountsOK'
    BY <1>s, <1>5 DEF Lap, LapBegins, WorkerCreates, LapReads, CalibrationEnters,
             RunCannotBegin, RunBegins, OnStep, RunEnds, RunRepeats,
             NextLapCreates, NextLapSetsPoints
  <1>6. ASSUME NEW w \in Workers, Machine(w) PROVE CountsOK'
    BY <1>s, <1>6 DEF Machine, WorkerTravels, WorkerMoves, WorkerScans, WorkerSkipsScan, AfterScan, LapEnds
  <1>7. ASSUME NEW w \in Workers, Outcome(w) PROVE CountsOK'
    BY <1>s, <1>7 DEF Outcome, WorkerSeesAbort, WorkerSeesCancel, CalibrationExits,
             RunFails
  <1>8. ASSUME NEW w \in Workers, WorkerFails(w) PROVE CountsOK'
    BY <1>s, <1>8 DEF WorkerFails
  <1>9. ASSUME NEW w \in Workers, Cleanup(w) PROVE CountsOK'
    BY <1>s, <1>9 DEF Cleanup, WorkerClearsAbort, WorkerClearsMotion, CalibrationRestores,
             CalibrationChecksState, CalibrationRestoresPoints, WorkerReleases
  <1>10. CASE InitWorker
    <2>0. loaded \in Paths \cup {Calibration, Scanless, Broken}
      BY DEF TypeOK, PathTypeOK
    <2>1. UNCHANGED <<calls, drops>>
      BY <1>10 DEF InitWorker, InitChecks, InitBegins, InitScanner, InitForgets,
               InitChecksClient, InitCreatesClient, InitEnds
    <2>2. ASSUME NEW l \in InitAt, InitGoto(l) PROVE init' \in InitType
      BY <1>s, <2>2 DEF InitGoto
    <2>3. ASSUME InitChecksClient PROVE init' \in InitType
      <3>1. CASE init' = [at |-> "create", path |-> loaded] /\ loaded # Broken
        BY <2>0, <3>1
      <3>2. CASE InitGoto("end")
        BY <2>2, <3>2
      <3> QED
        BY <2>3, <3>1, <3>2 DEF InitChecksClient
    <2>4. ASSUME InitCreatesClient PROVE init' \in InitType
      BY <2>4 DEF InitCreatesClient, NoInit
    <2>5. init' \in InitType
      BY <1>10, <2>2, <2>3, <2>4 DEF InitWorker, InitChecks, InitBegins, InitScanner, InitForgets,
               InitEnds
    <2> QED
      BY <1>s, <2>1, <2>5
  <1>11. CASE ScannerDrops \/ LeftExports
    BY <1>s, <1>11 DEF ScannerDrops, LeftExports, ExportTakesLock, ExportEnds
  <1>12. CASE UNCHANGED vars
    BY <1>s, <1>12 DEF vars, serviceVars, ownVars, pathVars, scanVars, counts
  <1> QED
    BY <1>1, <1>2, <1>3, <1>4, <1>5, <1>6, <1>7, <1>8, <1>9, <1>10, <1>11, <1>12
    DEF Next, CallerProceeds, CycleWorker

\* Every step keeps a resumed caller's step and a scanning worker's position.
LEMMA NextLocalsOK == TypeOK /\ LocalsOK /\ [Next]_vars => LocalsOK'
  <1> SUFFICES ASSUME TypeOK, LocalsOK, [Next]_vars PROVE LocalsOK'
    OBVIOUS
  <1>c. CallsOK /\ WorksOK
    BY DEF TypeOK, ThreadTypeOK, CallsOK, WorksOK, CallType, WorkType
  <1> USE DEF LocalsOK, CallsOK, WorksOK, CallType, WorkType
  <1>1. ASSUME NEW c \in Callers, CallerBegins(c) PROVE LocalsOK'
    <2>1. ASSUME NEW op \in Ops, StartAcquires(c, op) PROVE LocalsOK'
      BY <1>c, <2>1 DEF StartAcquires, Enter, NoCall
    <2>2. CASE ContinueChecks(c)
      BY <1>c, <2>2 DEF ContinueChecks, Enter, NoCall
    <2>3. CASE StopMarks(c)
      <3>0. UNCHANGED work
        BY <2>3 DEF StopMarks, serviceVars
      <3>1. CASE Enter(c, "stop", "setAbort")
        BY <1>c, <3>0, <3>1 DEF Enter, NoCall
      <3>2. CASE call[c].at = "stopFirst" /\ Goto(c, "setAbort")
        BY <1>c, <3>0, <3>2 DEF Goto
      <3>3. CASE call[c].at = "stopFirst" /\ Goto(c, "restart")
        BY <1>c, <3>0, <3>3 DEF Goto
      <3> QED
        BY <2>3, <3>1, <3>2, <3>3 DEF StopMarks
    <2>4. CASE ReloadChecks(c)
      BY <1>c, <2>4 DEF ReloadChecks, Enter, NoCall
    <2>5. CASE SelectChecks(c)
      BY <1>c, <2>5 DEF SelectChecks, Enter, NoCall
    <2>6. CASE JogChecks(c)
      BY <1>c, <2>6 DEF JogChecks, Enter, NoCall
    <2>7. ASSUME NEW p \in Paths, SettingsReload(c, p) PROVE LocalsOK'
      BY <1>c, <2>7 DEF SettingsReload
    <2> QED
      BY <1>1, <2>1, <2>2, <2>3, <2>4, <2>5, <2>6, <2>7 DEF CallerBegins, Start
  <1>2. ASSUME NEW c \in Callers, StartProceeds(c) PROVE LocalsOK'
    <2>1. CASE ContinueAcquires(c)
      BY <1>c, <2>1 DEF ContinueAcquires, Goto, Return, NoCall
    <2>2. CASE StartValidates(c)
      BY <1>c, <2>2 DEF StartValidates, Goto
    <2>3. CASE StartRefused(c) \/ StartHasNoScan(c)
      BY <1>c, <2>3 DEF StartRefused, StartHasNoScan, Return, Raises, NoCall
    <2>4. CASE ResumeReads(c)
      <3>0. call[c].at = "read" /\ UNCHANGED work
        BY <2>4 DEF ResumeReads
      <3>1. CASE project = None \/ step = None
        <4>1. Raises(c)
          BY <2>4, <3>1 DEF ResumeReads
        <4> QED
          BY <1>c, <3>0, <4>1 DEF Raises, Return, NoCall
      <3>2. CASE ~(project = None \/ step = None)
        <4>1. UNCHANGED runLock /\ step # None
          BY <2>4, <3>2 DEF ResumeReads
        <4>2. call' = [call EXCEPT ![c] = [at |-> "ensure", op |-> "resume",
                                               step |-> step, project |-> project]]
          BY <2>4, <3>2 DEF ResumeReads
        <4> QED
          BY <1>c, <3>0, <4>1, <4>2
      <3> QED
        BY <3>1, <3>2
    <2>5. CASE ResumeEnsures(c)
      BY <1>c, <2>5 DEF ResumeEnsures, Goto
    <2>6. CASE EnsureFails(c)
      BY <1>c, <2>6 DEF EnsureFails, Return, Raises, NoCall
    <2>7. CASE EnsureRefused(c)
      BY <1>c, <2>7 DEF EnsureRefused, Return, NoCall
    <2>8. CASE CalibrationLoads(c)
      BY <1>c, <2>8 DEF CalibrationLoads, Goto
    <2>9. CASE CalibrationLoadFails(c) \/ CalibrationHasNoScan(c)
      BY <1>c, <2>9 DEF CalibrationLoadFails, CalibrationHasNoScan, Return, Raises, NoCall
    <2>10. CASE CalibrationSetsPoints(c)
      BY <1>c, <2>10 DEF CalibrationSetsPoints, Goto
    <2>11. CASE StartClearsAbort(c)
      BY <1>c, <2>11 DEF StartClearsAbort, Goto
    <2>12. CASE StartClearsMotion(c)
      BY <1>c, <2>12 DEF StartClearsMotion, Goto
    <2>13. CASE StartRuns(c)
      BY <1>c, <2>13 DEF StartRuns, Goto
    <2>14. ASSUME NEW w \in Workers, StartSpawns(c, w) PROVE LocalsOK'
      BY <1>c, <2>14 DEF StartSpawns, Return, NoCall, NoWork
    <2> QED
      BY <1>2, <2>1, <2>2, <2>3, <2>4, <2>5, <2>6, <2>7, <2>8, <2>9, <2>10, <2>11,
         <2>12, <2>13, <2>14 DEF StartProceeds
  <1>3. ASSUME NEW c \in Callers, StopProceeds(c) PROVE LocalsOK'
    <2>1. CASE StopMarks(c)
      <3>0. UNCHANGED work
        BY <2>1 DEF StopMarks, serviceVars
      <3>1. CASE Enter(c, "stop", "setAbort")
        BY <1>c, <3>0, <3>1 DEF Enter, NoCall
      <3>2. CASE call[c].at = "stopFirst" /\ Goto(c, "setAbort")
        BY <1>c, <3>0, <3>2 DEF Goto
      <3>3. CASE call[c].at = "stopFirst" /\ Goto(c, "restart")
        BY <1>c, <3>0, <3>3 DEF Goto
      <3> QED
        BY <2>1, <3>1, <3>2, <3>3 DEF StopMarks
    <2>2. CASE StopSetsAbort(c)
      BY <1>c, <2>2 DEF StopSetsAbort, Goto
    <2>3. CASE StopCancelsMotion(c)
      BY <1>c, <2>3 DEF StopCancelsMotion, Goto
    <2>4. CASE StopJoins(c)
      BY <1>c, <2>4 DEF StopJoins, Goto, Return, NoCall
    <2>5. CASE ReloadRestarts(c)
      BY <1>c, <2>5 DEF ReloadRestarts, Goto, Return, NoCall
    <2>6. CASE ReloadForgets(c)
      BY <1>c, <2>6 DEF ReloadForgets, Return, NoCall
    <2> QED
      BY <1>3, <2>1, <2>2, <2>3, <2>4, <2>5, <2>6 DEF StopProceeds
  <1>4. ASSUME NEW c \in Callers, PathProceeds(c) PROVE LocalsOK'
    <2>1. ASSUME NEW p \in Paths, SelectReloads(c, p) PROVE LocalsOK'
      BY <1>c, <2>1 DEF SelectReloads, Goto
    <2>2. CASE PathChecks(c)
      BY <1>c, <2>2 DEF PathChecks, Goto, Return, NoCall
    <2>3. CASE PathSets(c)
      BY <1>c, <2>3 DEF PathSets, Return, NoCall
    <2>4. CASE JogEnsuresClient(c)
      <3>0. call[c].at = "jogClient" /\ UNCHANGED work /\ UNCHANGED runLock
        BY <2>4 DEF JogEnsuresClient
      <3>1. CASE Goto(c, "jogClear")
        BY <1>c, <3>0, <3>1 DEF Goto
      <3>2. CASE Return(c)
        BY <1>c, <3>0, <3>2 DEF Return, NoCall
      <3> QED
        BY <2>4, <3>1, <3>2 DEF JogEnsuresClient
    <2>5. CASE JogClearsMotion(c)
      BY <1>c, <2>5 DEF JogClearsMotion, Goto
    <2>6. CASE JogEnds(c)
      BY <1>c, <2>6 DEF JogEnds, Return, NoCall
    <2> QED
      BY <1>4, <2>1, <2>2, <2>3, <2>4, <2>5, <2>6 DEF PathProceeds
  <1>5. ASSUME NEW w \in Workers, Lap(w) PROVE LocalsOK'
    <2>1. CASE LapBegins(w)
      BY <1>c, <2>1 DEF LapBegins, WorkGoto
    <2>2. CASE WorkerCreates(w)
      BY <1>c, <2>2 DEF WorkerCreates, WorkGoto
    <2>3. CASE LapReads(w)
      BY <1>c, <2>3 DEF LapReads
    <2>4. CASE CalibrationEnters(w)
      BY <1>c, <2>4 DEF CalibrationEnters, WorkGoto
    <2>5. CASE RunCannotBegin(w)
      BY <1>c, <2>5 DEF RunCannotBegin, Raise, WorkGoto
    <2>6. CASE RunBegins(w)
      BY <1>c, <2>6 DEF RunBegins
    <2>7. CASE OnStep(w)
      BY <1>c, <2>7 DEF OnStep, WorkGoto
    <2>8. CASE RunEnds(w)
      BY <1>c, <2>8 DEF RunEnds, WorkGoto
    <2>9. CASE RunRepeats(w)
      BY <1>c, <2>9 DEF RunRepeats, WorkGoto
    <2>10. CASE NextLapCreates(w)
      BY <1>c, <2>10 DEF NextLapCreates, WorkGoto
    <2>11. CASE NextLapSetsPoints(w)
      BY <1>c, <2>11 DEF NextLapSetsPoints, WorkGoto
    <2> QED
      BY <1>5, <2>1, <2>2, <2>3, <2>4, <2>5, <2>6, <2>7, <2>8, <2>9, <2>10, <2>11 DEF Lap
  <1>6. ASSUME NEW w \in Workers, Machine(w) PROVE LocalsOK'
    <2>1. CASE WorkerTravels(w)
      BY <1>c, <2>1 DEF WorkerTravels, WorkGoto
    <2>2. CASE WorkerMoves(w)
      BY <1>c, <2>2 DEF WorkerMoves
    <2>3. CASE WorkerScans(w) \/ WorkerSkipsScan(w)
      BY <1>c, <2>3 DEF WorkerScans, WorkerSkipsScan, AfterScan
    <2>4. CASE LapEnds(w)
      BY <1>c, <2>4 DEF LapEnds, WorkGoto
    <2> QED
      BY <1>6, <2>1, <2>2, <2>3, <2>4 DEF Machine
  <1>7. ASSUME NEW w \in Workers, Outcome(w) PROVE LocalsOK'
    <2>1. CASE WorkerSeesAbort(w)
      <3>1. PICK l \in {"exitAborted", "exitFailed", "aborted", "failed"} : WorkGoto(w, l)
        BY <2>1 DEF WorkerSeesAbort, SeesAbort, Raise
      <3>2. work[w].at \in Going /\ UNCHANGED call /\ UNCHANGED runLock
        BY <2>1 DEF WorkerSeesAbort, SeesAbort, Raise, Going
      <3> QED
        BY <1>c, <3>1, <3>2 DEF WorkGoto, Going
    <2>2. CASE WorkerSeesCancel(w)
      BY <1>c, <2>2 DEF WorkerSeesCancel, Raise, WorkGoto
    <2>3. CASE CalibrationExits(w)
      BY <1>c, <2>3 DEF CalibrationExits, WorkGoto
    <2>4. CASE RunFails(w)
      BY <1>c, <2>4 DEF RunFails, WorkGoto
    <2> QED
      BY <1>7, <2>1, <2>2, <2>3, <2>4 DEF Outcome
  <1>8. ASSUME NEW w \in Workers, WorkerFails(w) PROVE LocalsOK'
    <2>1. PICK l \in {"exitAborted", "exitFailed", "aborted", "failed"} : WorkGoto(w, l)
      BY <1>8 DEF WorkerFails, Commands, Raise
    <2>2. work[w].at \in Going /\ UNCHANGED call /\ UNCHANGED runLock
      BY <1>8 DEF WorkerFails, Commands, Raise, Going
    <2> QED
      BY <1>c, <2>1, <2>2 DEF WorkGoto, Going
  <1>9. ASSUME NEW w \in Workers, Cleanup(w) PROVE LocalsOK'
    BY <1>c, <1>9 DEF Cleanup, WorkerClearsAbort, WorkerClearsMotion, CalibrationRestores,
             CalibrationChecksState, CalibrationRestoresPoints, WorkerReleases,
             NoWork, WorkGoto
  <1>10. CASE InitWorker
    BY <1>c, <1>10 DEF InitWorker, InitChecks, InitBegins, InitScanner, InitForgets,
             InitChecksClient, InitCreatesClient, InitEnds, InitGoto, NoInit
  <1>11. CASE ScannerDrops \/ LeftExports
    BY <1>c, <1>11 DEF ScannerDrops, LeftExports, ExportTakesLock, ExportEnds
  <1>12. CASE UNCHANGED vars
    BY <1>c, <1>12 DEF vars, serviceVars, ownVars, pathVars, scanVars, counts
  <1> QED
    BY <1>1, <1>2, <1>3, <1>4, <1>5, <1>6, <1>7, <1>8, <1>9, <1>10, <1>11, <1>12
    DEF Next, CallerProceeds, CycleWorker

\* Every step keeps at most one owner of a run, and the run lock held for it.
LEMMA NextRunInv == TypeOK /\ RunInv /\ [Next]_vars => RunInv'
  <1> SUFFICES ASSUME TypeOK, RunInv, [Next]_vars PROVE RunInv'
    OBVIOUS
  <1>c. CallsOK /\ WorksOK
    BY DEF TypeOK, ThreadTypeOK, CallsOK, WorksOK, CallType, WorkType
  <1> USE DEF RunInv, CallsOK, WorksOK, CallType, WorkType, Starting
  <1>1. ASSUME NEW c \in Callers, CallerBegins(c) PROVE RunInv'
    <2>1. ASSUME NEW op \in Ops, StartAcquires(c, op) PROVE RunInv'
      BY <1>c, <2>1 DEF StartAcquires, Enter, NoCall
    <2>2. CASE ContinueChecks(c)
      BY <1>c, <2>2 DEF ContinueChecks, Enter, NoCall
    <2>3. CASE StopMarks(c)
      <3>0. UNCHANGED <<work, runLock>>
        BY <2>3 DEF StopMarks, serviceVars
      <3>1. CASE Enter(c, "stop", "setAbort")
        BY <1>c, <3>0, <3>1 DEF Enter, NoCall
      <3>2. CASE call[c].at = "stopFirst" /\ Goto(c, "setAbort")
        BY <1>c, <3>0, <3>2 DEF Goto
      <3>3. CASE call[c].at = "stopFirst" /\ Goto(c, "restart")
        BY <1>c, <3>0, <3>3 DEF Goto
      <3> QED
        BY <2>3, <3>1, <3>2, <3>3 DEF StopMarks
    <2>4. CASE ReloadChecks(c)
      BY <1>c, <2>4 DEF ReloadChecks, Enter, NoCall
    <2>5. CASE SelectChecks(c)
      BY <1>c, <2>5 DEF SelectChecks, Enter, NoCall
    <2>6. CASE JogChecks(c)
      BY <1>c, <2>6 DEF JogChecks, Enter, NoCall
    <2>7. ASSUME NEW p \in Paths, SettingsReload(c, p) PROVE RunInv'
      BY <1>c, <2>7 DEF SettingsReload
    <2> QED
      BY <1>1, <2>1, <2>2, <2>3, <2>4, <2>5, <2>6, <2>7 DEF CallerBegins, Start
  <1>2. ASSUME NEW c \in Callers, StartProceeds(c) PROVE RunInv'
    <2>1. CASE ContinueAcquires(c)
      BY <1>c, <2>1 DEF ContinueAcquires, Goto, Return, NoCall
    <2>2. CASE StartValidates(c)
      BY <1>c, <2>2 DEF StartValidates, Goto
    <2>3. CASE StartRefused(c) \/ StartHasNoScan(c)
      BY <1>c, <2>3 DEF StartRefused, StartHasNoScan, Return, Raises, NoCall
    <2>4. CASE ResumeReads(c)
      <3>0. call[c].at = "read" /\ UNCHANGED work
        BY <2>4 DEF ResumeReads
      <3>1. CASE project = None \/ step = None
        <4>1. Raises(c)
          BY <2>4, <3>1 DEF ResumeReads
        <4> QED
          BY <1>c, <3>0, <4>1 DEF Raises, Return, NoCall
      <3>2. CASE ~(project = None \/ step = None)
        <4>1. UNCHANGED runLock /\ step # None
          BY <2>4, <3>2 DEF ResumeReads
        <4>2. call' = [call EXCEPT ![c] = [at |-> "ensure", op |-> "resume",
                                               step |-> step, project |-> project]]
          BY <2>4, <3>2 DEF ResumeReads
        <4> QED
          BY <1>c, <3>0, <4>1, <4>2
      <3> QED
        BY <3>1, <3>2
    <2>5. CASE ResumeEnsures(c)
      BY <1>c, <2>5 DEF ResumeEnsures, Goto
    <2>6. CASE EnsureFails(c)
      BY <1>c, <2>6 DEF EnsureFails, Return, Raises, NoCall
    <2>7. CASE EnsureRefused(c)
      BY <1>c, <2>7 DEF EnsureRefused, Return, NoCall
    <2>8. CASE CalibrationLoads(c)
      BY <1>c, <2>8 DEF CalibrationLoads, Goto
    <2>9. CASE CalibrationLoadFails(c) \/ CalibrationHasNoScan(c)
      BY <1>c, <2>9 DEF CalibrationLoadFails, CalibrationHasNoScan, Return, Raises, NoCall
    <2>10. CASE CalibrationSetsPoints(c)
      BY <1>c, <2>10 DEF CalibrationSetsPoints, Goto
    <2>11. CASE StartClearsAbort(c)
      BY <1>c, <2>11 DEF StartClearsAbort, Goto
    <2>12. CASE StartClearsMotion(c)
      BY <1>c, <2>12 DEF StartClearsMotion, Goto
    <2>13. CASE StartRuns(c)
      BY <1>c, <2>13 DEF StartRuns, Goto
    <2>14. ASSUME NEW w \in Workers, StartSpawns(c, w) PROVE RunInv'
      BY <1>c, <2>14 DEF StartSpawns, Return, NoCall, NoWork
    <2> QED
      BY <1>2, <2>1, <2>2, <2>3, <2>4, <2>5, <2>6, <2>7, <2>8, <2>9, <2>10, <2>11,
         <2>12, <2>13, <2>14 DEF StartProceeds
  <1>3. ASSUME NEW c \in Callers, StopProceeds(c) PROVE RunInv'
    <2>1. CASE StopMarks(c)
      <3>0. UNCHANGED <<work, runLock>>
        BY <2>1 DEF StopMarks, serviceVars
      <3>1. CASE Enter(c, "stop", "setAbort")
        BY <1>c, <3>0, <3>1 DEF Enter, NoCall
      <3>2. CASE call[c].at = "stopFirst" /\ Goto(c, "setAbort")
        BY <1>c, <3>0, <3>2 DEF Goto
      <3>3. CASE call[c].at = "stopFirst" /\ Goto(c, "restart")
        BY <1>c, <3>0, <3>3 DEF Goto
      <3> QED
        BY <2>1, <3>1, <3>2, <3>3 DEF StopMarks
    <2>2. CASE StopSetsAbort(c)
      BY <1>c, <2>2 DEF StopSetsAbort, Goto
    <2>3. CASE StopCancelsMotion(c)
      BY <1>c, <2>3 DEF StopCancelsMotion, Goto
    <2>4. CASE StopJoins(c)
      BY <1>c, <2>4 DEF StopJoins, Goto, Return, NoCall
    <2>5. CASE ReloadRestarts(c)
      BY <1>c, <2>5 DEF ReloadRestarts, Goto, Return, NoCall
    <2>6. CASE ReloadForgets(c)
      BY <1>c, <2>6 DEF ReloadForgets, Return, NoCall
    <2> QED
      BY <1>3, <2>1, <2>2, <2>3, <2>4, <2>5, <2>6 DEF StopProceeds
  <1>4. ASSUME NEW c \in Callers, PathProceeds(c) PROVE RunInv'
    <2>1. ASSUME NEW p \in Paths, SelectReloads(c, p) PROVE RunInv'
      BY <1>c, <2>1 DEF SelectReloads, Goto
    <2>2. CASE PathChecks(c)
      BY <1>c, <2>2 DEF PathChecks, Goto, Return, NoCall
    <2>3. CASE PathSets(c)
      BY <1>c, <2>3 DEF PathSets, Return, NoCall
    <2>4. CASE JogEnsuresClient(c)
      <3>0. call[c].at = "jogClient" /\ UNCHANGED work /\ UNCHANGED runLock
        BY <2>4 DEF JogEnsuresClient
      <3>1. CASE Goto(c, "jogClear")
        BY <1>c, <3>0, <3>1 DEF Goto
      <3>2. CASE Return(c)
        BY <1>c, <3>0, <3>2 DEF Return, NoCall
      <3> QED
        BY <2>4, <3>1, <3>2 DEF JogEnsuresClient
    <2>5. CASE JogClearsMotion(c)
      BY <1>c, <2>5 DEF JogClearsMotion, Goto
    <2>6. CASE JogEnds(c)
      BY <1>c, <2>6 DEF JogEnds, Return, NoCall
    <2> QED
      BY <1>4, <2>1, <2>2, <2>3, <2>4, <2>5, <2>6 DEF PathProceeds
  <1>5. ASSUME NEW w \in Workers, Lap(w) PROVE RunInv'
    BY <1>c, <1>5 DEF Lap, LapBegins, WorkerCreates, LapReads, CalibrationEnters,
             RunCannotBegin, RunBegins, OnStep, RunEnds, RunRepeats,
             NextLapCreates, NextLapSetsPoints, Raise, WorkGoto
  <1>6. ASSUME NEW w \in Workers, Machine(w) PROVE RunInv'
    BY <1>c, <1>6 DEF Machine, WorkerTravels, WorkerMoves, WorkerScans, WorkerSkipsScan, AfterScan, LapEnds, WorkGoto
  <1>7. ASSUME NEW w \in Workers, Outcome(w) PROVE RunInv'
    <2>1. CASE WorkerSeesAbort(w)
      <3>1. PICK l \in {"exitAborted", "exitFailed", "aborted", "failed"} : WorkGoto(w, l)
        BY <2>1 DEF WorkerSeesAbort, SeesAbort, Raise
      <3>2. work[w].at \in Going /\ UNCHANGED call /\ UNCHANGED runLock
        BY <2>1 DEF WorkerSeesAbort, SeesAbort, Raise, Going
      <3> QED
        BY <1>c, <3>1, <3>2 DEF WorkGoto, Going
    <2>2. CASE WorkerSeesCancel(w)
      BY <1>c, <2>2 DEF WorkerSeesCancel, Raise, WorkGoto
    <2>3. CASE CalibrationExits(w)
      BY <1>c, <2>3 DEF CalibrationExits, WorkGoto
    <2>4. CASE RunFails(w)
      BY <1>c, <2>4 DEF RunFails, WorkGoto
    <2> QED
      BY <1>7, <2>1, <2>2, <2>3, <2>4 DEF Outcome
  <1>8. ASSUME NEW w \in Workers, WorkerFails(w) PROVE RunInv'
    <2>1. PICK l \in {"exitAborted", "exitFailed", "aborted", "failed"} : WorkGoto(w, l)
      BY <1>8 DEF WorkerFails, Commands, Raise
    <2>2. work[w].at \in Going /\ UNCHANGED call /\ UNCHANGED runLock
      BY <1>8 DEF WorkerFails, Commands, Raise, Going
    <2> QED
      BY <1>c, <2>1, <2>2 DEF WorkGoto, Going
  <1>9. ASSUME NEW w \in Workers, Cleanup(w) PROVE RunInv'
    BY <1>c, <1>9 DEF Cleanup, WorkerClearsAbort, WorkerClearsMotion, CalibrationRestores,
             CalibrationChecksState, CalibrationRestoresPoints, WorkerReleases,
             NoWork, WorkGoto
  <1>10. CASE InitWorker
    BY <1>c, <1>10 DEF InitWorker, InitChecks, InitBegins, InitScanner, InitForgets,
             InitChecksClient, InitCreatesClient, InitEnds, InitGoto, NoInit
  <1>11. CASE ScannerDrops \/ LeftExports
    BY <1>c, <1>11 DEF ScannerDrops, LeftExports, ExportTakesLock, ExportEnds
  <1>12. CASE UNCHANGED vars
    BY <1>c, <1>12 DEF vars, serviceVars, ownVars, pathVars, scanVars, counts
  <1> QED
    BY <1>1, <1>2, <1>3, <1>4, <1>5, <1>6, <1>7, <1>8, <1>9, <1>10, <1>11, <1>12
    DEF Next, CallerProceeds, CycleWorker

\* Every step keeps _state telling whether there is a run to stop.
LEMMA NextStateTells == TypeOK /\ RunInv /\ StateTellsRun /\ [Next]_vars => StateTellsRun'
  <1> SUFFICES ASSUME TypeOK, RunInv, StateTellsRun, [Next]_vars PROVE StateTellsRun'
    OBVIOUS
  <1>c. CallsOK /\ WorksOK
    BY DEF TypeOK, ThreadTypeOK, CallsOK, WorksOK, CallType, WorkType
  <1>s. state \in {"idle", "running", "stopping", "error"}
    BY DEF TypeOK, ServiceTypeOK
  <1> USE DEF StateTellsRun, RunInv, CallsOK, WorksOK, CallType, WorkType, Busy, Starting, Going, serviceVars
  <1>1. ASSUME NEW c \in Callers, CallerBegins(c) PROVE StateTellsRun'
    <2>1. ASSUME NEW op \in Ops, StartAcquires(c, op) PROVE StateTellsRun'
      BY <1>c, <2>1 DEF StartAcquires, Enter, NoCall
    <2>2. CASE ContinueChecks(c)
      BY <1>c, <2>2 DEF ContinueChecks, Enter, NoCall
    <2>3. CASE StopMarks(c)
      <3>0. UNCHANGED work /\ (state' \in Busy <=> state \in Busy)
        BY <2>3 DEF StopMarks, serviceVars
      <3>1. CASE Enter(c, "stop", "setAbort")
        BY <1>c, <3>0, <3>1 DEF Enter, NoCall
      <3>2. CASE call[c].at = "stopFirst" /\ Goto(c, "setAbort")
        BY <1>c, <3>0, <3>2 DEF Goto
      <3>3. CASE call[c].at = "stopFirst" /\ Goto(c, "restart")
        BY <1>c, <3>0, <3>3 DEF Goto
      <3> QED
        BY <2>3, <3>1, <3>2, <3>3 DEF StopMarks
    <2>4. CASE ReloadChecks(c)
      BY <1>c, <2>4 DEF ReloadChecks, Enter, NoCall
    <2>5. CASE SelectChecks(c)
      BY <1>c, <2>5 DEF SelectChecks, Enter, NoCall
    <2>6. CASE JogChecks(c)
      BY <1>c, <2>6 DEF JogChecks, Enter, NoCall
    <2>7. ASSUME NEW p \in Paths, SettingsReload(c, p) PROVE StateTellsRun'
      BY <1>c, <2>7 DEF SettingsReload
    <2> QED
      BY <1>1, <2>1, <2>2, <2>3, <2>4, <2>5, <2>6, <2>7 DEF CallerBegins, Start
  <1>2. ASSUME NEW c \in Callers, StartProceeds(c) PROVE StateTellsRun'
    <2>1. CASE ContinueAcquires(c)
      BY <1>c, <2>1 DEF ContinueAcquires, Goto, Return, NoCall
    <2>2. CASE StartValidates(c)
      BY <1>c, <2>2 DEF StartValidates, Goto
    <2>3. CASE StartRefused(c) \/ StartHasNoScan(c)
      BY <1>c, <2>3 DEF StartRefused, StartHasNoScan, Return, Raises, NoCall
    <2>4. CASE ResumeReads(c)
      <3>0. call[c].at = "read" /\ UNCHANGED <<work, state>>
        BY <2>4 DEF ResumeReads
      <3>1. CASE project = None \/ step = None
        <4>1. Raises(c)
          BY <2>4, <3>1 DEF ResumeReads
        <4> QED
          BY <1>c, <3>0, <4>1 DEF Raises, Return, NoCall
      <3>2. CASE ~(project = None \/ step = None)
        <4>1. UNCHANGED runLock /\ step # None
          BY <2>4, <3>2 DEF ResumeReads
        <4>2. call' = [call EXCEPT ![c] = [at |-> "ensure", op |-> "resume",
                                               step |-> step, project |-> project]]
          BY <2>4, <3>2 DEF ResumeReads
        <4> QED
          BY <1>c, <3>0, <4>1, <4>2
      <3> QED
        BY <3>1, <3>2
    <2>5. CASE ResumeEnsures(c)
      BY <1>c, <2>5 DEF ResumeEnsures, Goto
    <2>6. CASE EnsureFails(c)
      BY <1>c, <2>6 DEF EnsureFails, Return, Raises, NoCall
    <2>7. CASE EnsureRefused(c)
      BY <1>c, <2>7 DEF EnsureRefused, Return, NoCall
    <2>8. CASE CalibrationLoads(c)
      BY <1>c, <2>8 DEF CalibrationLoads, Goto
    <2>9. CASE CalibrationLoadFails(c) \/ CalibrationHasNoScan(c)
      BY <1>c, <2>9 DEF CalibrationLoadFails, CalibrationHasNoScan, Return, Raises, NoCall
    <2>10. CASE CalibrationSetsPoints(c)
      BY <1>c, <2>10 DEF CalibrationSetsPoints, Goto
    <2>11. CASE StartClearsAbort(c)
      BY <1>c, <2>11 DEF StartClearsAbort, Goto
    <2>12. CASE StartClearsMotion(c)
      BY <1>c, <2>12 DEF StartClearsMotion, Goto
    <2>13. CASE StartRuns(c)
      BY <1>c, <2>13 DEF StartRuns, Goto
    <2>14. ASSUME NEW w \in Workers, StartSpawns(c, w) PROVE StateTellsRun'
      BY <1>c, <2>14 DEF StartSpawns, Return, NoCall, NoWork
    <2> QED
      BY <1>2, <2>1, <2>2, <2>3, <2>4, <2>5, <2>6, <2>7, <2>8, <2>9, <2>10, <2>11,
         <2>12, <2>13, <2>14 DEF StartProceeds
  <1>3. ASSUME NEW c \in Callers, StopProceeds(c) PROVE StateTellsRun'
    <2>1. CASE StopMarks(c)
      <3>0. UNCHANGED work /\ (state' \in Busy <=> state \in Busy)
        BY <2>1 DEF StopMarks, serviceVars
      <3>1. CASE Enter(c, "stop", "setAbort")
        BY <1>c, <3>0, <3>1 DEF Enter, NoCall
      <3>2. CASE call[c].at = "stopFirst" /\ Goto(c, "setAbort")
        BY <1>c, <3>0, <3>2 DEF Goto
      <3>3. CASE call[c].at = "stopFirst" /\ Goto(c, "restart")
        BY <1>c, <3>0, <3>3 DEF Goto
      <3> QED
        BY <2>1, <3>1, <3>2, <3>3 DEF StopMarks
    <2>2. CASE StopSetsAbort(c)
      BY <1>c, <2>2 DEF StopSetsAbort, Goto
    <2>3. CASE StopCancelsMotion(c)
      BY <1>c, <2>3 DEF StopCancelsMotion, Goto
    <2>4. CASE StopJoins(c)
      BY <1>c, <2>4 DEF StopJoins, Goto, Return, NoCall
    <2>5. CASE ReloadRestarts(c)
      <3>1. call[c].at = "restart" /\ UNCHANGED <<state, work>>
        BY <2>5 DEF ReloadRestarts
      <3>2. CASE Goto(c, "forget")
        BY <1>c, <3>1, <3>2 DEF Goto
      <3>3. CASE Return(c)
        BY <1>c, <3>1, <3>3 DEF Return, NoCall
      <3> QED
        BY <2>5, <3>2, <3>3 DEF ReloadRestarts
    <2>6. CASE ReloadForgets(c)
      BY <1>c, <2>6 DEF ReloadForgets, Return, NoCall
    <2> QED
      BY <1>3, <2>1, <2>2, <2>3, <2>4, <2>5, <2>6 DEF StopProceeds
  <1>4. ASSUME NEW c \in Callers, PathProceeds(c) PROVE StateTellsRun'
    <2>1. ASSUME NEW p \in Paths, SelectReloads(c, p) PROVE StateTellsRun'
      BY <1>c, <2>1 DEF SelectReloads, Goto
    <2>2. CASE PathChecks(c)
      BY <1>c, <2>2 DEF PathChecks, Goto, Return, NoCall
    <2>3. CASE PathSets(c)
      BY <1>c, <2>3 DEF PathSets, Return, NoCall
    <2>4. CASE JogEnsuresClient(c)
      <3>0. call[c].at = "jogClient" /\ UNCHANGED <<work, state>> /\ UNCHANGED runLock
        BY <2>4 DEF JogEnsuresClient
      <3>1. CASE Goto(c, "jogClear")
        BY <1>c, <3>0, <3>1 DEF Goto
      <3>2. CASE Return(c)
        BY <1>c, <3>0, <3>2 DEF Return, NoCall
      <3> QED
        BY <2>4, <3>1, <3>2 DEF JogEnsuresClient
    <2>5. CASE JogClearsMotion(c)
      BY <1>c, <2>5 DEF JogClearsMotion, Goto
    <2>6. CASE JogEnds(c)
      BY <1>c, <2>6 DEF JogEnds, Return, NoCall
    <2> QED
      BY <1>4, <2>1, <2>2, <2>3, <2>4, <2>5, <2>6 DEF PathProceeds
  <1>5. ASSUME NEW w \in Workers, Lap(w) PROVE StateTellsRun'
    <2>1. CASE LapBegins(w)
      BY <1>c, <2>1 DEF LapBegins, WorkGoto
    <2>2. CASE WorkerCreates(w)
      BY <1>c, <2>2 DEF WorkerCreates, WorkGoto, NewProject
    <2>3. CASE LapReads(w)
      BY <1>c, <2>3 DEF LapReads
    <2>4. CASE CalibrationEnters(w)
      BY <1>c, <2>4 DEF CalibrationEnters, WorkGoto
    <2>5. CASE RunCannotBegin(w)
      BY <1>c, <2>5 DEF RunCannotBegin, Raise, WorkGoto
    <2>6. CASE RunBegins(w)
      BY <1>c, <2>6 DEF RunBegins
    <2>7. CASE OnStep(w)
      BY <1>c, <2>7 DEF OnStep, WorkGoto
    <2>8. CASE RunEnds(w)
      BY <1>c, <2>8 DEF RunEnds, WorkGoto
    <2>9. CASE RunRepeats(w)
      BY <1>c, <2>9 DEF RunRepeats, WorkGoto
    <2>10. CASE NextLapCreates(w)
      BY <1>c, <2>10 DEF NextLapCreates, WorkGoto, NewProject
    <2>11. CASE NextLapSetsPoints(w)
      BY <1>c, <2>11 DEF NextLapSetsPoints, WorkGoto
    <2> QED
      BY <1>5, <2>1, <2>2, <2>3, <2>4, <2>5, <2>6, <2>7, <2>8, <2>9, <2>10, <2>11 DEF Lap
  <1>6. ASSUME NEW w \in Workers, Machine(w) PROVE StateTellsRun'
    <2>1. CASE WorkerTravels(w)
      BY <1>c, <2>1 DEF WorkerTravels, WorkGoto
    <2>2. CASE WorkerMoves(w)
      BY <1>c, <2>2 DEF WorkerMoves
    <2>3. CASE WorkerScans(w) \/ WorkerSkipsScan(w)
      BY <1>c, <2>3 DEF WorkerScans, WorkerSkipsScan, AfterScan
    <2>4. CASE LapEnds(w)
      BY <1>c, <2>4 DEF LapEnds, WorkGoto
    <2> QED
      BY <1>6, <2>1, <2>2, <2>3, <2>4 DEF Machine
  <1>7. ASSUME NEW w \in Workers, Outcome(w) PROVE StateTellsRun'
    <2>1. CASE WorkerSeesAbort(w)
      <3>1. PICK l \in {"exitAborted", "exitFailed", "aborted", "failed"} : WorkGoto(w, l)
        BY <2>1 DEF WorkerSeesAbort, SeesAbort, Raise
      <3>2. work[w].at \in Going /\ UNCHANGED <<call, state>> /\ UNCHANGED runLock
        BY <2>1 DEF WorkerSeesAbort, SeesAbort, Raise, Going
      <3> QED
        BY <1>c, <3>1, <3>2 DEF WorkGoto, Going
    <2>2. CASE WorkerSeesCancel(w)
      BY <1>c, <2>2 DEF WorkerSeesCancel, Raise, WorkGoto
    <2>3. CASE CalibrationExits(w)
      BY <1>c, <2>3 DEF CalibrationExits, WorkGoto
    <2>4. CASE RunFails(w)
      BY <1>c, <2>4 DEF RunFails, WorkGoto
    <2> QED
      BY <1>7, <2>1, <2>2, <2>3, <2>4 DEF Outcome
  <1>8. ASSUME NEW w \in Workers, WorkerFails(w) PROVE StateTellsRun'
    <2>1. PICK l \in {"exitAborted", "exitFailed", "aborted", "failed"} : WorkGoto(w, l)
      BY <1>8 DEF WorkerFails, Commands, Raise
    <2>2. work[w].at \in Going /\ UNCHANGED <<call, state>> /\ UNCHANGED runLock
      BY <1>8 DEF WorkerFails, Commands, Raise, Going
    <2> QED
      BY <1>c, <2>1, <2>2 DEF WorkGoto, Going
  <1>9. ASSUME NEW w \in Workers, Cleanup(w) PROVE StateTellsRun'
    BY <1>c, <1>9 DEF Cleanup, WorkerClearsAbort, WorkerClearsMotion, CalibrationRestores,
             CalibrationChecksState, CalibrationRestoresPoints, WorkerReleases,
             NoWork, WorkGoto
  <1>10. CASE InitWorker
    BY <1>c, <1>10 DEF InitWorker, InitChecks, InitBegins, InitScanner, InitForgets,
             InitChecksClient, InitCreatesClient, InitEnds, InitGoto, NoInit
  <1>11. CASE ScannerDrops \/ LeftExports
    BY <1>c, <1>11 DEF ScannerDrops, LeftExports, ExportTakesLock, ExportEnds
  <1>12. CASE UNCHANGED vars
    BY <1>c, <1>12 DEF vars, serviceVars, ownVars, pathVars, scanVars, counts
  <1> QED
    BY <1>1, <1>2, <1>3, <1>4, <1>5, <1>6, <1>7, <1>8, <1>9, <1>10, <1>11, <1>12
    DEF Next, CallerProceeds, CycleWorker

\* Only a caller starting a run and a worker ending one clear _abort_event, and
\* neither does while _state is "stopping".
LEMMA NextKeepsAbort == RunInv /\ StateTellsRun /\ [Next]_vars => KeepsAbort
  <1> SUFFICES ASSUME RunInv, StateTellsRun, [Next]_vars PROVE KeepsAbort
    OBVIOUS
  <1> USE DEF KeepsAbort, serviceVars
  <1>1. ASSUME NEW c \in Callers, CallerBegins(c) PROVE KeepsAbort
    BY <1>1 DEF CallerBegins, Start, StartAcquires, ContinueChecks, StopMarks,
             ReloadChecks, SelectChecks, JogChecks, SettingsReload
  <1>2. ASSUME NEW c \in Callers, StartProceeds(c) PROVE KeepsAbort
    <2>1. CASE ContinueAcquires(c)
      BY <2>1 DEF ContinueAcquires
    <2>2. CASE StartValidates(c)
      BY <2>2 DEF StartValidates
    <2>3. CASE StartRefused(c) \/ StartHasNoScan(c)
      BY <2>3 DEF StartRefused, StartHasNoScan, Raises
    <2>4. CASE ResumeReads(c)
      BY <2>4 DEF ResumeReads, Raises
    <2>5. CASE ResumeEnsures(c)
      BY <2>5 DEF ResumeEnsures
    <2>6. CASE EnsureFails(c)
      BY <2>6 DEF EnsureFails, Raises
    <2>7. CASE EnsureRefused(c)
      BY <2>7 DEF EnsureRefused
    <2>8. CASE CalibrationLoads(c)
      BY <2>8 DEF CalibrationLoads
    <2>9. CASE CalibrationLoadFails(c) \/ CalibrationHasNoScan(c)
      BY <2>9 DEF CalibrationLoadFails, CalibrationHasNoScan, Raises
    <2>10. CASE CalibrationSetsPoints(c)
      BY <2>10 DEF CalibrationSetsPoints
    <2>11. CASE StartClearsAbort(c)
      <3>1. call[c].at = "clear"
        BY <2>11 DEF StartClearsAbort
      <3>2. state \notin Busy
        BY <3>1 DEF RunInv, StateTellsRun, Starting, Going
      <3> QED
        BY <3>2 DEF Busy
    <2>12. CASE StartClearsMotion(c)
      BY <2>12 DEF StartClearsMotion
    <2>13. CASE StartRuns(c)
      BY <2>13 DEF StartRuns
    <2>14. ASSUME NEW w \in Workers, StartSpawns(c, w) PROVE KeepsAbort
      BY <2>14 DEF StartSpawns
    <2> QED
      BY <1>2, <2>1, <2>2, <2>3, <2>4, <2>5, <2>6, <2>7, <2>8, <2>9, <2>10, <2>11,
         <2>12, <2>13, <2>14 DEF StartProceeds
  <1>3. ASSUME NEW c \in Callers, StopProceeds(c) PROVE KeepsAbort
    BY <1>3 DEF StopProceeds, StopMarks, StopSetsAbort, StopCancelsMotion, StopJoins,
             ReloadRestarts, ReloadForgets
  <1>4. ASSUME NEW c \in Callers, PathProceeds(c) PROVE KeepsAbort
    BY <1>4 DEF PathProceeds, SelectReloads, PathChecks, PathSets, JogEnsuresClient,
             JogClearsMotion, JogEnds
  <1>5. ASSUME NEW w \in Workers, Lap(w) PROVE KeepsAbort
    BY <1>5 DEF Lap, LapBegins, WorkerCreates, LapReads, CalibrationEnters,
             RunCannotBegin, RunBegins, OnStep, RunEnds, RunRepeats,
             NextLapCreates, NextLapSetsPoints, NewProject
  <1>6. ASSUME NEW w \in Workers, Machine(w) PROVE KeepsAbort
    BY <1>6 DEF Machine, WorkerTravels, WorkerMoves, WorkerScans, WorkerSkipsScan, AfterScan, LapEnds
  <1>7. ASSUME NEW w \in Workers, Outcome(w) PROVE KeepsAbort
    BY <1>7 DEF Outcome, WorkerSeesAbort, WorkerSeesCancel, CalibrationExits,
             RunFails
  <1>8. ASSUME NEW w \in Workers, WorkerFails(w) PROVE KeepsAbort
    BY <1>8 DEF WorkerFails
  <1>9. ASSUME NEW w \in Workers, Cleanup(w) PROVE KeepsAbort
    <2>1. CASE WorkerClearsAbort(w)
      <3>1. work[w].at = "clearAbort"
        BY <2>1 DEF WorkerClearsAbort
      <3>2. state \notin Busy
        BY <3>1 DEF RunInv, StateTellsRun, Starting, Going
      <3> QED
        BY <3>2 DEF Busy
    <2>2. CASE WorkerClearsMotion(w)
      BY <2>2 DEF WorkerClearsMotion
    <2>3. CASE CalibrationRestores(w)
      BY <2>3 DEF CalibrationRestores
    <2>4. CASE CalibrationChecksState(w)
      BY <2>4 DEF CalibrationChecksState
    <2>5. CASE CalibrationRestoresPoints(w)
      BY <2>5 DEF CalibrationRestoresPoints
    <2>6. CASE WorkerReleases(w)
      BY <2>6 DEF WorkerReleases
    <2> QED
      BY <1>9, <2>1, <2>2, <2>3, <2>4, <2>5, <2>6 DEF Cleanup
  <1>10. CASE InitWorker
    BY <1>10 DEF InitWorker, InitChecks, InitBegins, InitScanner, InitForgets,
             InitChecksClient, InitCreatesClient, InitEnds, InitGoto, NoInit
  <1>11. CASE ScannerDrops \/ LeftExports
    BY <1>11 DEF ScannerDrops, LeftExports, ExportTakesLock, ExportEnds
  <1>12. CASE UNCHANGED vars
    BY <1>12 DEF vars, serviceVars, ownVars, pathVars, scanVars, counts
  <1> QED
    BY <1>1, <1>2, <1>3, <1>4, <1>5, <1>6, <1>7, <1>8, <1>9, <1>10, <1>11, <1>12
    DEF Next, CallerProceeds, CycleWorker

\* The initial states satisfy the invariant.
LEMMA InitIInv == Init => IInv
  <1> SUFFICES ASSUME Init PROVE IInv
    OBVIOUS
  <1> USE DEF Init
  <1>0. First \in Indices /\ 0 \in 0..MaxProjects /\ 0 \in 0..MaxCalls /\ 0 \in 0..MaxDrops
    BY RunBoundsAssumption DEF Indices, First, End
  <1>1. ServiceTypeOK
    BY <1>0 DEF ServiceTypeOK
  <1>2. PathTypeOK
    BY DEF PathTypeOK, Trajectories
  <1>2a. ScannerTypeOK
    BY <1>0 DEF ScannerTypeOK
  <1>3. NoCall \in CallType /\ NoWork \in WorkType
    BY <1>0 DEF NoCall, CallType, CallerAt, NoWork, WorkType, WorkerAt, AllOps, Trajectories
  <1>4. ThreadTypeOK
    BY <1>0, <1>3 DEF ThreadTypeOK, CallType, WorkType, InitAt, NoInit
  <1>5. \A c \in Callers : call[c].at = "idle"
    BY DEF NoCall
  <1>6. \A w \in Workers : work[w].at = "dead"
    BY DEF NoWork
  <1>7. LocalsOK /\ RunInv /\ StateTellsRun
    BY <1>5, <1>6 DEF LocalsOK, RunInv, StateTellsRun, Starting, Going, Busy
  <1> QED
    BY <1>1, <1>2, <1>2a, <1>4, <1>7 DEF IInv, TypeOK

\* Every step keeps the invariant.
LEMMA NextIInv == IInv /\ [Next]_vars => IInv'
  <1> SUFFICES ASSUME IInv, [Next]_vars PROVE IInv'
    OBVIOUS
  <1>1. TypeOK /\ LocalsOK /\ RunInv /\ StateTellsRun
    BY DEF IInv
  <1>2. CallsOK' /\ WorksOK' /\ CountsOK'
    BY <1>1, NextCallsOK, NextWorksOK, NextCountsOK
  <1>3. ThreadTypeOK'
    BY <1>2 DEF ThreadTypeOK, CallsOK, WorksOK, CountsOK, CallType, WorkType, InitType
  <1>4. ServiceTypeOK' /\ PathTypeOK' /\ ScannerTypeOK'
    BY <1>1, NextServiceOK, NextPathOK, NextScannerOK
  <1>5. LocalsOK' /\ RunInv' /\ StateTellsRun'
    BY <1>1, NextLocalsOK, NextRunInv, NextStateTells
  <1> QED
    BY <1>3, <1>4, <1>5 DEF IInv, TypeOK

\* Every behaviour satisfies the invariant.
LEMMA Invariance == Spec => []IInv
  BY InitIInv, NextIInv, PTL DEF Spec

\* No index leaves the path, and no project is named that was not created,
\* whatever the callers do.
THEOREM RunTypeCorrect == Spec => []TypeOK
  <1>1. IInv => TypeOK
    BY DEF IInv
  <1> QED
    BY <1>1, Invariance, PTL

\* _run_lock, taken by a request and released by its worker, admits one run at
\* a time, for any number of callers and workers.
THEOREM OneRunCorrect == Spec => []OneRun
  <1>1. IInv => OneRun
    BY DEF IInv, RunInv, OneRun, Owners
  <1> QED
    BY <1>1, Invariance, PTL

\* stop_cycle can trust _state: it says "running" or "stopping" exactly while a
\* run is about to start or has its outcome to write.
THEOREM StateTellsRunCorrect == Spec => []StateTellsRun
  <1>1. IInv => StateTellsRun
    BY DEF IInv
  <1> QED
    BY <1>1, Invariance, PTL

\* The events of a stopped run are not cleared before the run has ended.
THEOREM StopIsKeptCorrect == Spec => StopIsKept
  <1>1. IInv /\ [Next]_vars => [state = "stopping" /\ abort /\ state' = "stopping" => abort']_vars
    BY NextKeepsAbort DEF IInv, KeepsAbort
  <1> QED
    BY <1>1, Invariance, PTL DEF Spec, StopIsKept

-----------------------------------------------------------------------------
(***************************************************************************)
(* Proof that PipelineRun implements RunLifecycle: every step of a caller, *)
(* a worker, the initialisation or the scanner is a step of the one run,   *)
(* or none of its business -- for any callers, workers, paths and bounds.  *)
(***************************************************************************)

HasStarter == \E c \in Callers : call[c].at \in Starting
HasWorker == \E w \in Workers : work[w].at # "dead"

\* A step of the life of the run, or a stutter of it.
LifeStep == [Lifecycle!Next]_(Lifecycle!vars)

\* Phase, told by the state and by who there is.
LEMMA PhaseIs ==
    Phase = IF state \in Busy THEN "going" ELSE IF HasStarter THEN "starting"
            ELSE IF HasWorker THEN "closing" ELSE "none"
  BY DEF Phase, HasStarter, HasWorker

LEMMA PhaseIsNext ==
    Phase' = IF state' \in Busy THEN "going" ELSE IF HasStarter' THEN "starting"
             ELSE IF HasWorker' THEN "closing" ELSE "none"
  BY DEF Phase, HasStarter, HasWorker, Busy

\* A step that leaves the owners in their roles and the events alone is a stutter.
LEMMA Stutters ==
    ASSUME HasStarter' <=> HasStarter, HasWorker' <=> HasWorker,
           UNCHANGED <<state, abort>>
    PROVE  LifeStep
  <1>1. Phase' = Phase
    BY PhaseIs, PhaseIsNext
  <1> QED
    BY <1>1 DEF LifeStep, Lifecycle!vars

\* A caller that moves without taking or leaving the run.
LEMMA CallerKeepsRole ==
    ASSUME CallsOK, NEW c \in Callers, NEW r, call' = [call EXCEPT ![c] = r],
           r.at \in Starting <=> call[c].at \in Starting
    PROVE  HasStarter' <=> HasStarter
  BY DEF HasStarter, CallsOK

LEMMA CallerGoesOn ==
    ASSUME CallsOK, NEW c \in Callers, NEW l, Goto(c, l),
           l \in Starting <=> call[c].at \in Starting
    PROVE  HasStarter' <=> HasStarter
  BY DEF HasStarter, CallsOK, CallType, Goto

\* A live worker that goes on lives.
LEMMA WorkerGoesOn ==
    ASSUME WorksOK, NEW w \in Workers, NEW l, WorkGoto(w, l),
           l # "dead", work[w].at # "dead"
    PROVE  HasWorker' <=> HasWorker
  BY DEF HasWorker, WorksOK, WorkType, WorkGoto

\* The steps of the life that the actions make.
LEMMA Requests ==
    ASSUME state \notin Busy, state' \notin Busy, ~HasStarter, ~HasWorker, HasStarter',
           UNCHANGED abort
    PROVE  LifeStep
  <1>1. Phase = "none" /\ Phase' = "starting"
    BY PhaseIs, PhaseIsNext
  <1>2. (state = "stopping") = FALSE /\ (state' = "stopping") = FALSE
    BY DEF Busy
  <1>3. Lifecycle!Request
    BY <1>1, <1>2 DEF Lifecycle!Request
  <1> QED
    BY <1>3 DEF LifeStep, Lifecycle!Next

LEMMA Withdraws ==
    ASSUME state \notin Busy, HasStarter, ~HasStarter', ~HasWorker', UNCHANGED <<state, abort>>
    PROVE  LifeStep
  <1>1. Phase = "starting" /\ Phase' = "none"
    BY PhaseIs, PhaseIsNext
  <1>2. Lifecycle!Withdraw
    BY <1>1 DEF Lifecycle!Withdraw
  <1> QED
    BY <1>2 DEF LifeStep, Lifecycle!Next

LEMMA TakesBackSignal ==
    ASSUME state \notin Busy, HasStarter \/ HasWorker, HasStarter' <=> HasStarter,
           HasWorker' <=> HasWorker, UNCHANGED state, abort' = FALSE
    PROVE  LifeStep
  <1>1. Phase \in {"starting", "closing"} /\ Phase' = Phase
    BY PhaseIs, PhaseIsNext
  <1>2. Lifecycle!TakeBackSignal
    BY <1>1 DEF Lifecycle!TakeBackSignal
  <1> QED
    BY <1>2 DEF LifeStep, Lifecycle!Next

LEMMA Goes ==
    ASSUME state \notin Busy, HasStarter, state' = "running", UNCHANGED abort
    PROVE  LifeStep
  <1>1. Phase = "starting" /\ Phase' = "going"
    BY PhaseIs, PhaseIsNext DEF Busy
  <1>2. (state' = "stopping") = (state = "stopping")
    BY DEF Busy
  <1>3. Lifecycle!Go
    BY <1>1, <1>2 DEF Lifecycle!Go
  <1> QED
    BY <1>3 DEF LifeStep, Lifecycle!Next

LEMMA AsksToStop ==
    ASSUME state \in Busy, state' = "stopping", UNCHANGED abort
    PROVE  LifeStep
  <1>1. Phase = "going" /\ Phase' = "going"
    BY PhaseIs, PhaseIsNext DEF Busy
  <1>2. Lifecycle!AskToStop
    BY <1>1 DEF Lifecycle!AskToStop
  <1> QED
    BY <1>2 DEF LifeStep, Lifecycle!Next

LEMMA Signals ==
    ASSUME HasStarter' <=> HasStarter, HasWorker' <=> HasWorker, UNCHANGED state, abort' = TRUE
    PROVE  LifeStep
  <1>1. Phase' = Phase
    BY PhaseIs, PhaseIsNext
  <1>2. Lifecycle!Signal
    BY <1>1 DEF Lifecycle!Signal
  <1> QED
    BY <1>2 DEF LifeStep, Lifecycle!Next

LEMMA Finishes ==
    ASSUME state \in Busy, state' \notin Busy, ~HasStarter', HasWorker', UNCHANGED abort
    PROVE  LifeStep
  <1>1. Phase = "going" /\ Phase' = "closing"
    BY PhaseIs, PhaseIsNext
  <1>2. (state' = "stopping") = FALSE
    BY DEF Busy
  <1>3. Lifecycle!Finish
    BY <1>1, <1>2 DEF Lifecycle!Finish
  <1> QED
    BY <1>3 DEF LifeStep, Lifecycle!Next

LEMMA Closes ==
    ASSUME state \notin Busy, ~HasStarter, HasWorker, ~HasStarter', ~HasWorker',
           UNCHANGED <<state, abort>>
    PROVE  LifeStep
  <1>1. Phase = "closing" /\ Phase' = "none"
    BY PhaseIs, PhaseIsNext
  <1>2. Lifecycle!Close
    BY <1>1 DEF Lifecycle!Close
  <1> QED
    BY <1>2 DEF LifeStep, Lifecycle!Next

\* A spawned run is going by its state before and after.
LEMMA KeepsGoing ==
    ASSUME state \in Busy, UNCHANGED <<state, abort>>
    PROVE  LifeStep
  <1>1. Phase' = Phase
    BY PhaseIs, PhaseIsNext
  <1> QED
    BY <1>1 DEF LifeStep, Lifecycle!vars

\* What the steps of starting callers make of the life.
LEMMA StartSteps ==
    ASSUME IInv, IInv', NEW c \in Callers, StartProceeds(c)
    PROVE  LifeStep
  <1>c. CallsOK /\ WorksOK
    BY DEF IInv, TypeOK, ThreadTypeOK, CallsOK, WorksOK, CallType, WorkType
  <1>r. RunInv /\ StateTellsRun /\ RunInv' /\ StateTellsRun'
    BY DEF IInv
  <1>1. ASSUME call[c].at \in Starting PROVE HasStarter /\ ~HasWorker
    BY <1>1, <1>r DEF RunInv, HasStarter, HasWorker
  <1>2. ASSUME call[c].at \in Starting \ {"spawn"} PROVE state \notin Busy
    <2>1. \A d \in Callers : call[d].at # "spawn"
      BY <1>2, <1>r DEF RunInv, Starting
    <2>2. \A w \in Workers : work[w].at \notin Going
      BY <1>2, <1>r DEF RunInv, Going
    <2> QED
      BY <2>1, <2>2, <1>r DEF StateTellsRun
  <1>3. ASSUME call[c].at \in Starting, call' = [call EXCEPT ![c] = NoCall]
        PROVE  ~HasStarter'
    <2>1. \A d \in Callers : d # c => call[d].at \notin Starting
      BY <1>3, <1>r DEF RunInv
    <2>2. \A d \in Callers : call'[d].at \notin Starting
      BY <1>3, <2>1, <1>c DEF CallsOK, NoCall, Starting
    <2> QED
      BY <2>2 DEF HasStarter
  <1>4. ASSUME UNCHANGED work PROVE HasWorker' <=> HasWorker
    BY <1>4 DEF HasWorker
  <1>5. ASSUME call[c].at \in Starting \ {"spawn"}, Return(c), UNCHANGED <<state, abort, work>>
        PROVE  LifeStep
    BY <1>1, <1>2, <1>3, <1>4, <1>5, Withdraws DEF Return
  <1>6. ASSUME NEW l \in Starting, call[c].at \in Starting, Goto(c, l),
               UNCHANGED <<state, abort, work>>
        PROVE  LifeStep
    BY <1>c, <1>4, <1>6, CallerGoesOn, Stutters
  <1>7. CASE ContinueAcquires(c)
    <2>0. call[c].at = "acquire" /\ UNCHANGED <<state, abort, work>>
      BY <1>7 DEF ContinueAcquires, serviceVars
    <2>1. CASE runLock /\ Return(c)
      <3>1. HasStarter' <=> HasStarter
        BY <1>c, <2>0, <2>1, CallerKeepsRole DEF Return, NoCall, Starting
      <3> QED
        BY <1>4, <2>0, <3>1, Stutters
    <2>2. CASE ~runLock /\ Goto(c, "validate")
      <3>1. ~HasStarter /\ ~HasWorker
        BY <1>r, <2>2 DEF RunInv, HasStarter, HasWorker
      <3>2. state \notin Busy
        BY <3>1, <1>r DEF StateTellsRun, HasStarter, HasWorker, Starting, Going
      <3>3. HasStarter'
        BY <1>c, <2>2 DEF HasStarter, Goto, CallsOK, CallType, Starting
      <3> QED
        BY <2>0, <3>1, <3>2, <3>3, Requests DEF Busy
    <2> QED
      BY <1>7, <2>1, <2>2 DEF ContinueAcquires
  <1>8. CASE StartValidates(c)
    <2>1. call[c].at = "validate" /\ UNCHANGED <<state, abort, work>>
      BY <1>8 DEF StartValidates, serviceVars
    <2>2. \E l \in {"clear", "read", "load"} : Goto(c, l)
      BY <1>8 DEF StartValidates
    <2> QED
      BY <1>6, <2>1, <2>2 DEF Starting
  <1>9. CASE StartRefused(c) \/ StartHasNoScan(c)
    BY <1>5, <1>9 DEF StartRefused, StartHasNoScan, Raises, serviceVars, Starting
  <1>10. CASE ResumeReads(c)
    <2>1. call[c].at = "read" /\ UNCHANGED <<state, abort, work>>
      BY <1>10 DEF ResumeReads, serviceVars
    <2>2. CASE Return(c)
      BY <1>5, <2>1, <2>2 DEF Starting
    <2>3. CASE call' = [call EXCEPT ![c] = [at |-> "ensure", op |-> "resume",
                                           step |-> step, project |-> project]]
      <3>1. HasStarter' <=> HasStarter
        BY <1>c, <2>1, <2>3, CallerKeepsRole DEF Starting
      <3> QED
        BY <1>4, <2>1, <3>1, Stutters
    <2> QED
      BY <1>10, <2>2, <2>3 DEF ResumeReads, Raises
  <1>11. CASE ResumeEnsures(c)
    BY <1>6, <1>11 DEF ResumeEnsures, serviceVars, Starting
  <1>12. CASE EnsureFails(c)
    BY <1>5, <1>12 DEF EnsureFails, Raises, serviceVars, Starting
  <1>13. CASE EnsureRefused(c)
    BY <1>5, <1>13 DEF EnsureRefused, serviceVars, Starting
  <1>14. CASE CalibrationLoads(c)
    BY <1>6, <1>14 DEF CalibrationLoads, serviceVars, Starting
  <1>15. CASE CalibrationLoadFails(c) \/ CalibrationHasNoScan(c)
    BY <1>5, <1>15 DEF CalibrationLoadFails, CalibrationHasNoScan, Raises, serviceVars, Starting
  <1>16. CASE CalibrationSetsPoints(c)
    BY <1>6, <1>16 DEF CalibrationSetsPoints, serviceVars, Starting
  <1>17. CASE StartClearsAbort(c)
    <2>1. call[c].at = "clear" /\ Goto(c, "clearMotion") /\ abort' = FALSE /\ UNCHANGED <<state, work>>
      BY <1>17 DEF StartClearsAbort
    <2>2. HasStarter' <=> HasStarter
      BY <1>c, <2>1, CallerGoesOn DEF Starting
    <2>3. HasStarter /\ state \notin Busy
      BY <1>1, <1>2, <2>1 DEF Starting
    <2> QED
      BY <1>4, <2>1, <2>2, <2>3, TakesBackSignal
  <1>18. CASE StartClearsMotion(c)
    BY <1>6, <1>18 DEF StartClearsMotion, serviceVars, Starting
  <1>19. CASE StartRuns(c)
    <2>1. call[c].at = "run" /\ state' = "running" /\ UNCHANGED abort
      BY <1>19 DEF StartRuns
    <2>2. HasStarter /\ state \notin Busy
      BY <1>1, <1>2, <2>1 DEF Starting
    <2> QED
      BY <2>1, <2>2, Goes
  <1>20. ASSUME NEW w \in Workers, StartSpawns(c, w) PROVE LifeStep
    <2>1. call[c].at = "spawn" /\ UNCHANGED <<state, abort>>
      BY <1>20 DEF StartSpawns
    <2>2. state \in Busy
      BY <1>r, <2>1 DEF StateTellsRun
    <2> QED
      BY <2>1, <2>2, KeepsGoing
  <1> QED
    BY <1>7, <1>8, <1>9, <1>10, <1>11, <1>12, <1>13, <1>14, <1>15, <1>16, <1>17, <1>18,
       <1>19, <1>20 DEF StartProceeds

\* A caller outside the starting of a run that goes on outside it.
LEMMA Outsiders ==
    ASSUME IInv, NEW c \in Callers, NEW r, call' = [call EXCEPT ![c] = r],
           r.at \notin Starting, call[c].at \notin Starting, UNCHANGED work
    PROVE  (HasStarter' <=> HasStarter) /\ (HasWorker' <=> HasWorker)
  <1>1. CallsOK
    BY DEF IInv, TypeOK, ThreadTypeOK, CallsOK, CallType
  <1>2. HasStarter' <=> HasStarter
    BY <1>1, CallerKeepsRole
  <1> QED
    BY <1>2 DEF HasWorker

LEMMA OutsidersGoOn ==
    ASSUME IInv, NEW c \in Callers, NEW l, Goto(c, l),
           l \notin Starting, call[c].at \notin Starting, UNCHANGED work
    PROVE  (HasStarter' <=> HasStarter) /\ (HasWorker' <=> HasWorker)
  <1>1. CallsOK
    BY DEF IInv, TypeOK, ThreadTypeOK, CallsOK, CallType
  <1>2. HasStarter' <=> HasStarter
    BY <1>1, CallerGoesOn
  <1> QED
    BY <1>2 DEF HasWorker

\* The mark of a stop is AskToStop, or nothing when there is nothing to stop.
LEMMA StopMarksStep ==
    ASSUME IInv, NEW c \in Callers, StopMarks(c)
    PROVE  LifeStep
  <1>1. UNCHANGED <<abort, work>>
    BY DEF StopMarks, serviceVars
  <1>2. CASE state \in Busy
    <2>1. state' = "stopping"
      BY <1>2 DEF StopMarks
    <2> QED
      BY <1>1, <1>2, <2>1, AsksToStop
  <1>3. CASE state \notin Busy
    <2>1. state' = state /\ call[c].at = "stopFirst" /\ Goto(c, "restart")
      BY <1>3 DEF StopMarks
    <2>2. (HasStarter' <=> HasStarter) /\ (HasWorker' <=> HasWorker)
      BY <1>1, <2>1, OutsidersGoOn DEF Starting
    <2> QED
      BY <1>1, <2>1, <2>2, Stutters
  <1> QED
    BY <1>2, <1>3

\* A request begins: it takes the run, asks for its stop, or does not touch it.
LEMMA CallerBeginsStep ==
    ASSUME IInv, IInv', NEW c \in Callers, CallerBegins(c)
    PROVE  LifeStep
  <1>c. CallsOK /\ WorksOK
    BY DEF IInv, TypeOK, ThreadTypeOK, CallsOK, WorksOK, CallType, WorkType
  <1>1. ASSUME NEW op, NEW l, Enter(c, op, l), l \notin Starting, UNCHANGED <<state, abort, work>>
        PROVE  LifeStep
    <2> DEFINE r == [NoCall EXCEPT !.at = l, !.op = op]
    <2>1. call[c].at \notin Starting /\ call' = [call EXCEPT ![c] = r]
      BY <1>1 DEF Enter, Starting
    <2>2. r.at \notin Starting
      BY <1>1 DEF NoCall
    <2> HIDE DEF r
    <2>3. (HasStarter' <=> HasStarter) /\ (HasWorker' <=> HasWorker)
      BY <1>1, <2>1, <2>2, Outsiders
    <2> QED
      BY <1>1, <2>3, Stutters
  <1>2. ASSUME NEW op \in Ops, StartAcquires(c, op) PROVE LifeStep
    <2>0. ~runLock /\ Enter(c, op, "validate") /\ UNCHANGED <<state, abort>>
      BY <1>2 DEF StartAcquires, serviceVars
    <2>1. ~HasStarter /\ ~HasWorker
      BY <2>0 DEF IInv, RunInv, HasStarter, HasWorker
    <2>2. state \notin Busy
      BY <2>1 DEF IInv, StateTellsRun, HasStarter, HasWorker, Starting, Going
    <2>3. HasStarter'
      BY <1>c, <2>0 DEF Enter, HasStarter, CallsOK, CallType, NoCall, Starting
    <2> QED
      BY <2>0, <2>1, <2>2, <2>3, Requests DEF Busy
  <1>3. CASE ContinueChecks(c)
    BY <1>1, <1>3 DEF ContinueChecks, serviceVars, Starting
  <1>4. CASE StopMarks(c)
    BY <1>4, StopMarksStep
  <1>5. CASE ReloadChecks(c)
    BY <1>1, <1>5 DEF ReloadChecks, serviceVars, Starting
  <1>6. CASE SelectChecks(c)
    BY <1>1, <1>6 DEF SelectChecks, serviceVars, Starting
  <1>7. CASE JogChecks(c)
    BY <1>1, <1>7 DEF JogChecks, serviceVars, Starting
  <1>8. ASSUME NEW p \in Paths, SettingsReload(c, p) PROVE LifeStep
    <2>1. UNCHANGED <<state, abort, call, work>>
      BY <1>8 DEF SettingsReload, serviceVars
    <2> QED
      BY <2>1, Stutters DEF HasStarter, HasWorker
  <1> QED
    BY <1>2, <1>3, <1>4, <1>5, <1>6, <1>7, <1>8 DEF CallerBegins, Start

\* A stop, a reload, a new path and a jog own no run: of their steps only the mark
\* and the signal of a stop touch its life.
LEMMA OtherCallersStep ==
    ASSUME IInv, NEW c \in Callers, StopProceeds(c) \/ PathProceeds(c)
    PROVE  LifeStep
  <1>1. ASSUME NEW l, Goto(c, l), l \notin Starting, call[c].at \notin Starting,
               UNCHANGED <<state, abort, work>>
        PROVE  LifeStep
    BY <1>1, OutsidersGoOn, Stutters
  <1>2. ASSUME Return(c), call[c].at \notin Starting, UNCHANGED <<state, abort, work>>
        PROVE  LifeStep
    <2>1. NoCall.at \notin Starting /\ call' = [call EXCEPT ![c] = NoCall]
      BY <1>2 DEF NoCall, Return, Starting
    <2>2. (HasStarter' <=> HasStarter) /\ (HasWorker' <=> HasWorker)
      BY <1>2, <2>1, Outsiders
    <2> QED
      BY <1>2, <2>2, Stutters
  <1>3. CASE StopMarks(c)
    BY <1>3, StopMarksStep
  <1>4. CASE StopSetsAbort(c)
    <2>1. call[c].at = "setAbort" /\ Goto(c, "cancel") /\ abort' = TRUE /\ UNCHANGED <<state, work>>
      BY <1>4 DEF StopSetsAbort
    <2>2. (HasStarter' <=> HasStarter) /\ (HasWorker' <=> HasWorker)
      BY <2>1, OutsidersGoOn DEF Starting
    <2> QED
      BY <2>1, <2>2, Signals
  <1>5. CASE StopCancelsMotion(c)
    BY <1>1, <1>5 DEF StopCancelsMotion, serviceVars, Starting
  <1>6. CASE StopJoins(c)
    BY <1>1, <1>2, <1>6 DEF StopJoins, serviceVars, Starting
  <1>7. CASE ReloadRestarts(c)
    BY <1>1, <1>2, <1>7 DEF ReloadRestarts, serviceVars, Starting
  <1>8. CASE ReloadForgets(c)
    BY <1>2, <1>8 DEF ReloadForgets, Starting
  <1>9. ASSUME NEW p \in Paths, SelectReloads(c, p) PROVE LifeStep
    BY <1>1, <1>9 DEF SelectReloads, serviceVars, Starting
  <1>10. CASE PathChecks(c)
    BY <1>1, <1>2, <1>10 DEF PathChecks, serviceVars, Starting
  <1>11. CASE PathSets(c)
    BY <1>2, <1>11 DEF PathSets, serviceVars, Starting
  <1>12. CASE JogEnsuresClient(c)
    BY <1>1, <1>2, <1>12 DEF JogEnsuresClient, serviceVars, Starting
  <1>13. CASE JogClearsMotion(c)
    BY <1>1, <1>13 DEF JogClearsMotion, serviceVars, Starting
  <1>14. CASE JogEnds(c)
    BY <1>2, <1>14 DEF JogEnds, serviceVars, Starting
  <1> QED
    BY <1>3, <1>4, <1>5, <1>6, <1>7, <1>8, <1>9, <1>10, <1>11, <1>12, <1>13, <1>14
    DEF StopProceeds, PathProceeds

\* A worker's lap, motions and failures leave the life as it is; the outcome ends
\* it, and the clean-up closes it.
LEMMA WorkerSteps ==
    ASSUME IInv, IInv', NEW w \in Workers, CycleWorker(w)
    PROVE  LifeStep
  <1>c. WorksOK
    BY DEF IInv, TypeOK, ThreadTypeOK, WorksOK, WorkType
  <1>1. ASSUME UNCHANGED call PROVE HasStarter' <=> HasStarter
    BY <1>1 DEF HasStarter
  <1>2. ASSUME NEW l, WorkGoto(w, l), l # "dead", work[w].at # "dead",
               UNCHANGED <<call, state, abort>>
        PROVE  LifeStep
    BY <1>c, <1>1, <1>2, WorkerGoesOn, Stutters
  <1>3. ASSUME work[w].at \in Going PROVE state \in Busy /\ ~HasStarter
    BY <1>3 DEF IInv, StateTellsRun, RunInv, HasStarter, Going
  <1>4. ASSUME work[w].at \in Going, UNCHANGED <<state, abort>> PROVE LifeStep
    BY <1>3, <1>4, KeepsGoing
  <1>5. ASSUME work[w].at \in Closing PROVE state \notin Busy /\ ~HasStarter /\ HasWorker
    <2>1. ~HasStarter /\ HasWorker /\ (\A v \in Workers : work[v].at # "dead" => v = w)
      BY <1>5 DEF IInv, RunInv, HasStarter, HasWorker, Closing
    <2>2. \A v \in Workers : work[v].at \notin Going
      BY <1>5, <2>1 DEF Going, Closing
    <2> QED
      BY <2>1, <2>2 DEF IInv, StateTellsRun, HasStarter, Starting
  <1>6. ASSUME NEW l, work[w].at \in Going, WorkGoto(w, l), l # "dead", state' \notin Busy,
               UNCHANGED <<call, abort>>
        PROVE  LifeStep
    <2>1. HasWorker' <=> HasWorker
      BY <1>c, <1>6, WorkerGoesOn DEF Going
    <2>2. HasWorker
      BY <1>6 DEF HasWorker, Going
    <2> QED
      BY <1>1, <1>3, <1>6, <2>1, <2>2, Finishes
  <1>7. CASE Lap(w)
    <2>1. CASE LapBegins(w)
      BY <1>4, <2>1 DEF LapBegins, Going, serviceVars
    <2>2. CASE WorkerCreates(w)
      BY <1>4, <2>2 DEF WorkerCreates, NewProject, Going
    <2>3. CASE LapReads(w)
      BY <1>4, <2>3 DEF LapReads, Going, serviceVars
    <2>4. CASE CalibrationEnters(w)
      BY <1>4, <2>4 DEF CalibrationEnters, Going, serviceVars
    <2>5. CASE RunCannotBegin(w)
      BY <1>4, <2>5 DEF RunCannotBegin, Going, serviceVars
    <2>6. CASE RunBegins(w)
      BY <1>4, <2>6 DEF RunBegins, Going, serviceVars
    <2>7. CASE OnStep(w)
      BY <1>4, <2>7 DEF OnStep, Going
    <2>8. CASE RunEnds(w)
      BY <1>6, <2>8 DEF RunEnds, Going, Busy
    <2>9. CASE RunRepeats(w)
      BY <1>4, <2>9 DEF RunRepeats, Going, serviceVars
    <2>10. CASE NextLapCreates(w)
      BY <1>4, <2>10 DEF NextLapCreates, NewProject, Going
    <2>11. CASE NextLapSetsPoints(w)
      BY <1>4, <2>11 DEF NextLapSetsPoints, Going, serviceVars
    <2> QED
      BY <1>7, <2>1, <2>2, <2>3, <2>4, <2>5, <2>6, <2>7, <2>8, <2>9, <2>10, <2>11 DEF Lap
  <1>8. CASE Machine(w)
    BY <1>4, <1>8 DEF Machine, WorkerTravels, WorkerMoves, WorkerScans, WorkerSkipsScan, AfterScan, LapEnds, Going,
                      serviceVars
  <1>9. CASE WorkerFails(w)
    BY <1>4, <1>9 DEF WorkerFails, Commands, Going, serviceVars
  <1>10. CASE Outcome(w)
    <2>1. CASE WorkerSeesAbort(w)
      BY <1>4, <2>1 DEF WorkerSeesAbort, SeesAbort, Going, serviceVars
    <2>2. CASE WorkerSeesCancel(w)
      BY <1>4, <2>2 DEF WorkerSeesCancel, Going, serviceVars
    <2>3. CASE CalibrationExits(w)
      BY <1>2, <2>3 DEF CalibrationExits, serviceVars
    <2>4. CASE RunFails(w)
      BY <1>6, <2>4 DEF RunFails, Going, Busy
    <2> QED
      BY <1>10, <2>1, <2>2, <2>3, <2>4 DEF Outcome
  <1>11. CASE Cleanup(w)
    <2>1. CASE WorkerClearsAbort(w)
      <3>1. /\ work[w].at = "clearAbort" /\ WorkGoto(w, "clearMotion")
            /\ abort' = FALSE /\ UNCHANGED <<state, call>>
        BY <2>1 DEF WorkerClearsAbort
      <3>2. HasWorker' <=> HasWorker
        BY <1>c, <3>1, WorkerGoesOn
      <3>3. state \notin Busy /\ HasWorker
        BY <1>5, <3>1 DEF Closing
      <3> QED
        BY <1>1, <3>1, <3>2, <3>3, TakesBackSignal
    <2>2. CASE WorkerClearsMotion(w)
      BY <1>2, <2>2 DEF WorkerClearsMotion, serviceVars
    <2>3. CASE CalibrationRestores(w)
      BY <1>2, <2>3 DEF CalibrationRestores, serviceVars
    <2>4. CASE CalibrationChecksState(w)
      BY <1>2, <2>4 DEF CalibrationChecksState, serviceVars
    <2>5. CASE CalibrationRestoresPoints(w)
      BY <1>2, <2>5 DEF CalibrationRestoresPoints, serviceVars
    <2>6. CASE WorkerReleases(w)
      <3>1. /\ work[w].at = "release" /\ work' = [work EXCEPT ![w] = NoWork]
            /\ UNCHANGED <<call, state, abort>>
        BY <2>6 DEF WorkerReleases, serviceVars
      <3>2. state \notin Busy /\ ~HasStarter /\ HasWorker
        BY <1>5, <3>1 DEF Closing
      <3>3. ~HasWorker'
        BY <1>c, <3>1 DEF IInv, RunInv, HasWorker, WorksOK, NoWork
      <3> QED
        BY <1>1, <3>1, <3>2, <3>3, Closes
    <2> QED
      BY <1>11, <2>1, <2>2, <2>3, <2>4, <2>5, <2>6 DEF Cleanup
  <1> QED
    BY <1>7, <1>8, <1>9, <1>10, <1>11 DEF CycleWorker

\* Every step of PipelineRun is a step of the life, or a stutter of it.
LEMMA NextLifeStep == IInv /\ IInv' /\ [Next]_vars => LifeStep
  <1> SUFFICES ASSUME IInv, IInv', [Next]_vars PROVE LifeStep
    OBVIOUS
  <1>1. ASSUME UNCHANGED <<call, work, state, abort>> PROVE LifeStep
    BY <1>1, Stutters DEF HasStarter, HasWorker
  <1>2. ASSUME NEW c \in Callers, CallerBegins(c) \/ CallerProceeds(c) PROVE LifeStep
    BY <1>2, CallerBeginsStep, StartSteps, OtherCallersStep DEF CallerProceeds
  <1>3. ASSUME NEW w \in Workers, CycleWorker(w) PROVE LifeStep
    BY <1>3, WorkerSteps
  <1>4. CASE InitWorker
    BY <1>1, <1>4 DEF InitWorker, InitChecks, InitBegins, InitScanner, InitForgets,
             InitChecksClient, InitCreatesClient, InitEnds, InitGoto, NoInit, serviceVars
  <1>5. CASE ScannerDrops \/ LeftExports
    BY <1>1, <1>5 DEF ScannerDrops, LeftExports, ExportTakesLock, ExportEnds, serviceVars
  <1>6. CASE UNCHANGED vars
    BY <1>1, <1>6 DEF vars, serviceVars
  <1> QED
    BY <1>2, <1>3, <1>4, <1>5, <1>6 DEF Next

\* The service's threads, events and locks implement the life of one run: started,
\* going, over and cleaned up in turn, whatever callers and workers there are, with
\* its stop taken back only before it goes or after it is over.
THEOREM LifecycleImplemented == Spec => ImplementsLifecycle
  <1>1. Init => Lifecycle!Init
    <2> SUFFICES ASSUME Init PROVE Lifecycle!Init
      OBVIOUS
    <2>1. \A c \in Callers : call[c].at = "idle"
      BY DEF Init, NoCall
    <2>2. \A w \in Workers : work[w].at = "dead"
      BY DEF Init, NoWork
    <2>3. state = "idle" /\ abort = FALSE
      BY DEF Init
    <2>4. Phase = "none"
      BY <2>1, <2>2, <2>3 DEF Phase, Busy, Starting
    <2> QED
      BY <2>3, <2>4 DEF Lifecycle!Init
  <1>2. IInv /\ IInv' /\ [Next]_vars => [Lifecycle!Next]_(Lifecycle!vars)
    BY NextLifeStep DEF LifeStep
  <1> QED
    BY <1>1, <1>2, Invariance, PTL DEF Spec, ImplementsLifecycle, Lifecycle!Spec
=============================================================================
