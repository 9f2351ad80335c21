-------------------------- MODULE PathStoreProofs --------------------------
(***************************************************************************)
(* Proofs about PathStore, for any number of request threads, names,       *)
(* requests, imports and runs.                                             *)
(*                                                                         *)
(* Each property excepts the overlaps that break it (crossed, shared,      *)
(* behind), so its invariant says what holds of every thread until such an *)
(* overlap: what a thread saw when it began is still so when it acts.      *)
(***************************************************************************)
EXTENDS PathStore, FiniteSetTheorems, TLAPS

Copying == {"select", "put", "load", "delete", "rename"}
Writing == {"save", "create", "import", "delete"}

\* Where an operation can be, and what it holds there.
StageOK(t) ==
    /\ thread[t].at \in {"open", "write", "replace"}
         => thread[t].op \in Writing /\ thread[t].name \in Names /\ thread[t].doc \in Documents
    /\ thread[t].at \in {"copy", "copying"}
         => /\ thread[t].op = "copy" /\ thread[t].name \in Names /\ thread[t].other \in Names
            /\ thread[t].other # thread[t].name
    /\ thread[t].at = "unlink"
         => thread[t].op = "delete" /\ thread[t].name \in Names /\ thread[t].doc \in Documents
    /\ thread[t].at = "rename"
         => thread[t].op = "rename" /\ thread[t].name \in Names /\ thread[t].other \in Names
    /\ thread[t].at = "update" => thread[t].op \in Copying /\ thread[t].name \in Names
    /\ thread[t].at \in {"read", "publish"}
         => /\ thread[t].op \in {"save", "select", "put", "load", "delete", "rename", "calibrate", "restore"}
            /\ thread[t].name \in Names
    /\ thread[t].at = "refresh" => thread[t].op \in {"save", "select", "load", "delete", "rename", "restore"}
    /\ thread[t].at \in {"prepare", "calibrating"} => thread[t].op = "calibrate" /\ thread[t].name \in Names
    /\ thread[t].op \in Copying => thread[t].copy \in Settings
StagesOK == \A t \in Threads : StageOK(t)

TypeInv == TypeOK /\ StagesOK /\ (run.at = "creating" => run.copy \in Settings)

\* How a request or an import begins.
BeginsAs(t, op, at, name, other) ==
    /\ <<op, at>> \in {<<"save", "open">>, <<"create", "open">>, <<"import", "open">>, <<"copy", "copy">>,
                       <<"select", "update">>, <<"put", "update">>, <<"load", "update">>,
                       <<"delete", "unlink">>, <<"rename", "rename">>}
    /\ op \in {"copy", "rename"} => other \in Names
    /\ op \in {"create", "copy", "rename"} => files[name] = Missing
    /\ op = "copy" => other # name
    /\ op = "save" => name = settings.active
    /\ op # "put" => ~IsRunning
    /\ Begins(t, op, at, name, other)

BeginsStep ==
    \E t \in Threads, name \in Names, other \in Names \cup {0},
       op \in {"save", "create", "copy", "select", "delete", "rename", "put", "load", "import"},
       at \in {"open", "copy", "update", "unlink", "rename"} : BeginsAs(t, op, at, name, other)

CopyStep(t) == CopyOpens(t) \/ CopyFindsNothing(t) \/ CopyWrites(t) \/ CopyBreaks(t)
FileStep(t) ==
    Open(t) \/ Write(t) \/ Replace(t) \/ ReplaceFails(t) \/ CopyStep(t) \/ Unlink(t) \/ Rename(t)
LoadStep(t) == Update(t) \/ Read(t) \/ Publish(t) \/ Refresh(t)
CalibrationStep == CalibrationBegins \/ CalibrationStarts \/ CalibrationFails \/ CalibrationEnds
RunStep == RunChecks \/ RunCreates \/ RunAdvances \/ RunDrives \/ RunEnds

LEMMA StoredFacts ==
    /\ Documents \subseteq Nat \ {0}
    /\ Missing \notin Documents /\ Torn \notin Documents /\ Torn # Missing
    /\ 0 \notin Names /\ Names \subseteq Documents
    /\ \A k \in 0..(MaxOps - 1) : Cardinality(Names) + k + 1 \in Documents
<1>1. Cardinality(Names) \in Nat
  BY NamesAssumption, FS_CardinalityType
<1>2. Documents = 1..(Cardinality(Names) + MaxOps) /\ Missing = 0 /\ Torn = -1
  BY DEF Documents, Missing, Torn
<1>3. Names = 1..Cardinality(Names) /\ MaxOps \in Nat
  BY NamesAssumption, BoundAssumption
<1>4. SUFFICES ASSUME NEW c \in Nat, Names = 1..c, Documents = 1..(c + MaxOps), c = Cardinality(Names)
               PROVE  /\ Documents \subseteq Nat \ {0}
                      /\ Missing \notin Documents /\ Torn \notin Documents /\ Torn # Missing
                      /\ 0 \notin Names /\ Names \subseteq Documents
                      /\ \A k \in 0..(MaxOps - 1) : c + k + 1 \in Documents
  BY <1>1, <1>2, <1>3
<1>5. QED  BY <1>2, <1>3, <1>4

LEMMA NameFacts ==
    Existing \subseteq Names /\ AutoParsed \in Names /\ NewPath \in Names /\ Calibration \in Names
BY FilesAssumption

LEMMA Steps ==
    ASSUME TypeOK, Next
    PROVE  \/ BeginsStep
           \/ \E t \in Threads : FileStep(t) \/ LoadStep(t)
           \/ CalibrationStep
           \/ RunStep
<1>1. settings.active \in Names /\ AutoParsed \in Names /\ Requests \subseteq Threads /\ {Watcher, Worker} \subseteq Threads
  BY NameFacts DEF TypeOK, Settings, Threads
<1>2. ASSUME NEW t \in Requests, BeginSave(t) PROVE BeginsStep
  BY <1>1, <1>2 DEF BeginSave, EnsurePipelineIdle, BeginsStep, BeginsAs
<1>3. ASSUME NEW t \in Requests, BeginCreate(t) PROVE BeginsStep
  BY <1>1, <1>3 DEF BeginCreate, EnsurePipelineIdle, IsNew, BeginsStep, BeginsAs
<1>4. ASSUME NEW t \in Requests, BeginCopy(t) PROVE BeginsStep
  BY <1>1, <1>4 DEF BeginCopy, EnsurePipelineIdle, IsNew, BeginsStep, BeginsAs
<1>5. ASSUME NEW t \in Requests, BeginSelect(t) PROVE BeginsStep
  BY <1>1, <1>5 DEF BeginSelect, EnsurePipelineIdle, BeginsStep, BeginsAs
<1>6. ASSUME NEW t \in Requests, BeginDelete(t) PROVE BeginsStep
  BY <1>1, <1>6 DEF BeginDelete, EnsurePipelineIdle, BeginsStep, BeginsAs
<1>7. ASSUME NEW t \in Requests, BeginRename(t) PROVE BeginsStep
  BY <1>1, <1>7 DEF BeginRename, EnsurePipelineIdle, IsNew, BeginsStep, BeginsAs
<1>8. ASSUME NEW t \in Requests, BeginPut(t) PROVE BeginsStep
  BY <1>1, <1>8 DEF BeginPut, BeginsStep, BeginsAs
<1>a. ASSUME NEW t \in Requests, BeginLoad(t) PROVE BeginsStep
  BY <1>1, <1>a DEF BeginLoad, EnsurePipelineIdle, BeginsStep, BeginsAs
<1>9. ASSUME BeginImport PROVE BeginsStep
  <2>1. BeginsAs(Watcher, "import", "open", AutoParsed, 0)
    BY <1>9 DEF BeginImport, EnsurePipelineIdle, BeginsAs
  <2>2. QED  BY <1>1, <2>1 DEF BeginsStep
<1>10. QED
  BY <1>1, <1>2, <1>3, <1>4, <1>5, <1>6, <1>7, <1>8, <1>a, <1>9
  DEF Next, FileStep, CopyStep, LoadStep, CalibrationStep, RunStep

-----------------------------------------------------------------------------
(* The fields and the threads' locals. *)

LEMMA TypeInit == Init => TypeInv
<1> SUFFICES ASSUME Init PROVE TypeInv  OBVIOUS
<1>1. Idle \in Activities /\ Stopped \in [at : {"idle", "starting", "creating", "created", "driving"},
        copy : Settings \cup {NoCopy}, doc : Documents \cup {Missing}, driven : Documents \cup {Missing}]
  BY DEF Idle, Stopped, Activities, Stored, Missing
<1>2. TypeOK
  <2>1. PICK n \in Existing : settings = [active |-> n, counter |-> 1] /\ snapshot = n /\ points = n
    BY DEF Init
  <2>2. settings \in Settings /\ snapshot \in Documents /\ points \in Documents
    BY <2>1, NameFacts, StoredFacts DEF Settings
  <2>3. files \in [Names -> Stored] /\ tmp \in [Names -> Stored] /\ opened \in [Names -> SUBSET Threads]
    BY StoredFacts DEF Init, Stored
  <2>4. thread \in [Threads -> Activities] /\ ops \in 0..MaxOps /\ runs \in 0..MaxRuns
    BY <1>1, BoundAssumption DEF Init
  <2>5. QED  BY <1>1, <2>2, <2>3, <2>4 DEF Init, TypeOK
<1>3. StagesOK
  BY DEF Init, StagesOK, StageOK, Idle, Copying
<1>4. QED  BY <1>2, <1>3 DEF TypeInv, Init, Stopped

\* What a thread holds once it has begun.
BegunAs(t, op, at, name, other) ==
    /\ thread' \in [Threads -> Activities]
    /\ \A u \in Threads : u # t => thread'[u] = thread[u]
    /\ thread'[t].op = op /\ thread'[t].at = at /\ thread'[t].name = name /\ thread'[t].other = other
    /\ op \in Writing => thread'[t].doc \in Documents
    /\ op \in Copying => thread'[t].copy \in Settings
    /\ op \in Copying \ FromOutside => thread'[t].copy = settings

LEMMA Begun ==
    ASSUME TypeOK, NEW t \in Threads, NEW name \in Names, NEW other \in Names \cup {0},
           NEW op \in {"save", "create", "copy", "select", "delete", "rename", "put", "load", "import"},
           NEW at \in {"open", "copy", "update", "unlink", "rename"},
           Begins(t, op, at, name, other)
    PROVE  BegunAs(t, op, at, name, other)
<1>1. PICK c \in CounterOf(op) :
          thread' = [thread EXCEPT ![t] =
              [op |-> op, at |-> at, name |-> name, other |-> other,
               doc |-> IF op \in {"save", "create", "import", "delete"} THEN Cardinality(Names) + ops + 1 ELSE 0,
               copy |-> IF op \in {"select", "put", "load", "delete", "rename"}
                        THEN [settings EXCEPT !.counter = c] ELSE NoCopy]]
  BY DEF Begins
<1>2. c \in Nat /\ (op \notin FromOutside => c = settings.counter) /\ settings \in Settings
  BY CountersAssumption DEF CounterOf, TypeOK, Settings
<1>3. Cardinality(Names) + ops + 1 \in Documents
  BY StoredFacts, BoundAssumption DEF Begins, TypeOK
<1> DEFINE d == IF op \in {"save", "create", "import", "delete"} THEN Cardinality(Names) + ops + 1 ELSE 0
           s == IF op \in {"select", "put", "load", "delete", "rename"}
                THEN [settings EXCEPT !.counter = c] ELSE NoCopy
           new == [op |-> op, at |-> at, name |-> name, other |-> other, doc |-> d, copy |-> s]
<1>4. d \in Stored /\ (op \in Writing => d \in Documents)
  BY <1>3 DEF Stored, Missing, Writing
<1>5. [settings EXCEPT !.counter = c] \in Settings
  BY <1>2 DEF Settings
<1>6. c = settings.counter => [settings EXCEPT !.counter = c] = settings
  BY <1>2 DEF Settings
<1>7. /\ s \in Settings \cup {NoCopy}
      /\ op \in Copying => s \in Settings
      /\ op \in Copying \ FromOutside => s = settings
  BY <1>2, <1>5, <1>6 DEF Copying
<1>8. thread' = [thread EXCEPT ![t] = new]
  BY <1>1
<1> HIDE DEF d, s
<1>9. new \in Activities
  BY <1>4, <1>7 DEF Activities
<1>10. QED  BY <1>4, <1>7, <1>8, <1>9 DEF BegunAs, TypeOK

LEMMA TypeBegins == TypeInv /\ BeginsStep => TypeInv'
<1> SUFFICES ASSUME TypeInv,
                    NEW t \in Threads, NEW name \in Names, NEW other \in Names \cup {0},
                    NEW op \in {"save", "create", "copy", "select", "delete", "rename", "put", "load", "import"},
                    NEW at \in {"open", "copy", "update", "unlink", "rename"},
                    BeginsAs(t, op, at, name, other)
             PROVE  TypeInv'
  BY DEF BeginsStep
<1>a. Begins(t, op, at, name, other) /\ TypeOK
  BY DEF BeginsAs, TypeInv
<1>b. ops + 1 \in 0..MaxOps
  BY <1>a, BoundAssumption DEF Begins, TypeOK
<1>1. BegunAs(t, op, at, name, other) /\ ops + 1 \in 0..MaxOps
  BY <1>a, <1>b, Begun
<1>2. TypeOK'
  BY <1>1 DEF BeginsAs, Begins, BegunAs, TypeInv, TypeOK, fileVars, loadVars
<1>3. StagesOK'
  BY <1>1 DEF BeginsAs, BegunAs, TypeInv, StagesOK, StageOK, Copying, Writing
<1>4. QED  BY <1>2, <1>3 DEF TypeInv, BeginsAs, Begins

Places == {"idle", "open", "write", "replace", "copy", "copying", "unlink", "rename", "update", "read",
           "publish", "refresh", "prepare", "calibrating"}

\* What a thread's step does to the threads: only its own place changes, or all of
\* it is forgotten.
MovesTo(t, at) ==
    /\ thread' \in [Threads -> Activities]
    /\ \A u \in Threads : u # t => thread'[u] = thread[u]
    /\ thread'[t].at = at
    /\ at = "idle" => thread'[t].op = "none"
    /\ at # "idle" => /\ thread'[t].op = thread[t].op /\ thread'[t].name = thread[t].name
                      /\ thread'[t].other = thread[t].other /\ thread'[t].doc = thread[t].doc
                      /\ thread'[t].copy = thread[t].copy

LEMMA Moves ==
    ASSUME TypeOK, NEW t \in Threads, NEW at \in Places, GoesOn(t, at)
    PROVE  MovesTo(t, at)
<1>1. thread \in [Threads -> Activities] /\ thread[t] \in Activities
  BY DEF TypeOK
<1>2. Idle \in Activities /\ Idle.at = "idle" /\ Idle.op = "none"
  BY DEF Idle, Activities, Stored, Missing
<1>3. CASE at = "idle"
  BY <1>1, <1>2, <1>3 DEF GoesOn, Ends, MovesTo
<1>4. CASE at # "idle"
  <2> DEFINE new == [thread[t] EXCEPT !.at = at]
  <2>1. new \in Activities
    BY <1>1 DEF Activities, Places
  <2>2. /\ new.at = at /\ new.op = thread[t].op /\ new.name = thread[t].name
        /\ new.other = thread[t].other /\ new.doc = thread[t].doc /\ new.copy = thread[t].copy
    BY <1>1 DEF Activities
  <2>3. thread' = [thread EXCEPT ![t] = new]
    BY <1>1, <1>4 DEF GoesOn
  <2> HIDE DEF new
  <2>4. QED  BY <1>1, <1>4, <2>1, <2>2, <2>3 DEF MovesTo
<1>5. QED  BY <1>3, <1>4

LEMMA Ended == ASSUME TypeOK, NEW t \in Threads, Ends(t) PROVE MovesTo(t, "idle")
BY Moves DEF GoesOn, Places

\* delete_path ends, or goes on with another active file, or with a new one when
\* there is none left.
UnlinksTo(t) ==
    /\ thread' \in [Threads -> Activities]
    /\ \A u \in Threads : u # t => thread'[u] = thread[u]
    /\ \/ /\ thread'[t].at = "idle" /\ thread'[t].op = "none"
          /\ \/ files' = files
             \/ thread[t].copy.active # thread[t].name
       \/ /\ thread[t].copy.active = thread[t].name
          /\ thread'[t].op = "delete" /\ thread'[t].doc = thread[t].doc /\ thread'[t].copy = thread[t].copy
          /\ thread'[t].name \in Names
          /\ \/ thread'[t].at = "update"
             \/ thread'[t].at = "open" /\ \A m \in Names : files'[m] = Missing

LEMMA Unlinks ==
    ASSUME TypeInv, NEW t \in Threads, Unlink(t)
    PROVE  UnlinksTo(t)
<1>1. TypeOK /\ thread \in [Threads -> Activities] /\ thread[t] \in Activities
  BY DEF TypeInv, TypeOK
<1>2. thread[t].at = "unlink" /\ thread[t].op = "delete" /\ thread[t].name \in Names
  BY DEF TypeInv, StagesOK, StageOK, Unlink
<1> DEFINE deleted == files[thread[t].name] # Missing /\ ~InUse(thread[t].name)
<1>3. CASE ~deleted \/ thread[t].copy.active # thread[t].name
  <2>1. Ends(t)
    BY <1>3 DEF Unlink
  <2>2. files' = files \/ thread[t].copy.active # thread[t].name
    BY <1>3 DEF Unlink
  <2>3. QED  BY <1>1, <2>1, <2>2, Ended DEF MovesTo, UnlinksTo
<1>4. CASE ~(~deleted \/ thread[t].copy.active # thread[t].name)
  <2> DEFINE left == {m \in Names \ {thread[t].name} : files[m] # Missing}
             at == IF left = {} THEN "open" ELSE "update"
  <2>1. PICK next \in Names : thread' = [thread EXCEPT ![t].name = next, ![t].at = at]
    BY <1>4 DEF Unlink
  <2>a. at \in {"open", "update"} /\ (at = "open" => \A m \in Names \ {thread[t].name} : files[m] = Missing)
    OBVIOUS
  <2> HIDE DEF at
  <2> DEFINE new == [thread[t] EXCEPT !.name = next, !.at = at]
  <2>2. thread' = [thread EXCEPT ![t] = new]
    BY <1>1, <2>1
  <2>3. new \in Activities
    BY <1>1, <2>a DEF Activities
  <2>4. /\ new.op = "delete" /\ new.doc = thread[t].doc /\ new.copy = thread[t].copy
        /\ new.name \in Names /\ new.at = at
    BY <1>1, <1>2 DEF Activities
  <2>5. at = "open" => \A m \in Names : files'[m] = Missing
    BY <1>1, <1>2, <1>4, <2>a DEF TypeOK, Unlink
  <2> HIDE DEF new
  <2>7. QED  BY <1>1, <1>4, <2>a, <2>2, <2>3, <2>4, <2>5 DEF UnlinksTo
<1>5. QED  BY <1>3, <1>4

LEMMA TypeFile == ASSUME NEW t \in Threads PROVE TypeInv /\ FileStep(t) => TypeInv'
<1> SUFFICES ASSUME TypeInv, FileStep(t) PROVE TypeInv'  OBVIOUS
<1>a. run' = run /\ settings' = settings
  BY DEF FileStep, CopyStep, Open, Write, Replace, ReplaceFails, CopyOpens, CopyFindsNothing, CopyWrites,
         CopyBreaks, Unlink, Rename
<1>0. TypeOK /\ StagesOK /\ thread[t] \in Activities /\ StageOK(t)
  BY DEF TypeInv, TypeOK, StagesOK
<1>1. CASE Open(t)
  <2>1. MovesTo(t, "write")
    BY <1>0, <1>1, Moves DEF Open, Places
  <2>2. TypeOK'
    BY <1>0, <1>1, <2>1 DEF Open, TypeOK, MovesTo, StageOK, Stored, loadVars
  <2>3. StagesOK'
    BY <1>0, <1>1, <2>1 DEF Open, MovesTo, StagesOK, StageOK, Writing, Copying
  <2>4. QED  BY <1>a, <2>2, <2>3 DEF TypeInv
<1>2. CASE Write(t)
  <2>1. MovesTo(t, "replace")
    BY <1>0, <1>2, Moves DEF Write, Places
  <2>2. TypeOK'
    BY <1>0, <1>2, <2>1 DEF Write, TypeOK, MovesTo, StageOK, Stored, loadVars, histVars
  <2>3. StagesOK'
    BY <1>0, <1>2, <2>1 DEF Write, MovesTo, StagesOK, StageOK, Writing, Copying
  <2>4. QED  BY <1>a, <2>2, <2>3 DEF TypeInv
<1>3. CASE Replace(t)
  <2>0. /\ thread[t].op = "save" => AfterWriting[thread[t].op] = "read"
        /\ thread[t].op \in {"create", "import"} => AfterWriting[thread[t].op] = "idle"
        /\ thread[t].op = "delete" => AfterWriting[thread[t].op] = "update"
        /\ thread[t].op \in Writing
    BY <1>0, <1>3 DEF AfterWriting, Replace, StageOK
  <2>1. MovesTo(t, AfterWriting[thread[t].op])
    BY <1>0, <1>3, <2>0, Moves DEF Replace, Places, Writing
  <2>2. TypeOK'
    BY <1>0, <1>3, <2>1 DEF Replace, TypeOK, MovesTo, StageOK, Stored, loadVars
  <2>3. StagesOK'
    BY <1>0, <1>3, <2>0, <2>1 DEF Replace, MovesTo, StagesOK, StageOK, Writing, Copying
  <2>4. QED  BY <1>a, <2>2, <2>3 DEF TypeInv
<1>4. CASE ReplaceFails(t)
  <2>1. MovesTo(t, "idle")
    BY <1>0, <1>4, Ended DEF ReplaceFails
  <2>2. TypeOK'
    BY <1>0, <1>4, <2>1 DEF ReplaceFails, TypeOK, MovesTo, StageOK, Stored, loadVars
  <2>3. StagesOK'
    BY <1>0, <1>4, <2>1 DEF MovesTo, StagesOK, StageOK, Writing, Copying
  <2>4. QED  BY <1>a, <2>2, <2>3 DEF TypeInv
<1>5. CASE CopyOpens(t)
  <2>1. MovesTo(t, "copying")
    BY <1>0, <1>5, Moves DEF CopyOpens, Places
  <2>2. TypeOK'
    BY <1>0, <1>5, <2>1 DEF CopyOpens, TypeOK, MovesTo, StageOK, Stored, loadVars
  <2>3. StagesOK'
    BY <1>0, <1>5, <2>1 DEF CopyOpens, MovesTo, StagesOK, StageOK, Writing, Copying
  <2>4. QED  BY <1>a, <2>2, <2>3 DEF TypeInv
<1>b. CASE CopyFindsNothing(t) \/ CopyWrites(t) \/ CopyBreaks(t)
  <2>1. MovesTo(t, "idle")
    BY <1>0, <1>b, Ended DEF CopyFindsNothing, CopyWrites, CopyBreaks
  <2>2. files' \in [Names -> Stored] /\ broken' \in BOOLEAN
    BY <1>0, <1>b DEF CopyFindsNothing, CopyWrites, CopyBreaks, TypeOK, StageOK, Stored, fileVars, histVars
  <2>3. UNCHANGED <<tmp, opened, loadVars, ops, runs, used, crossed, shared, behind, rewound>>
    BY <1>b DEF CopyFindsNothing, CopyWrites, CopyBreaks, fileVars, histVars
  <2>4. TypeOK'
    BY <1>a, <1>0, <2>1, <2>2, <2>3 DEF TypeOK, MovesTo, loadVars
  <2>5. StagesOK'
    BY <1>0, <2>1 DEF MovesTo, StagesOK, StageOK, Writing, Copying
  <2>6. QED  BY <1>a, <2>4, <2>5 DEF TypeInv
<1>6. CASE Unlink(t)
  <2>1. UnlinksTo(t)
    BY <1>0, <1>6, Unlinks
  <2>2. TypeOK'
    BY <1>0, <1>6, <2>1 DEF Unlink, UnlinksTo, TypeOK, StageOK, Stored, loadVars, histVars
  <2>3. StagesOK'
    BY <1>0, <1>6, <2>1 DEF Unlink, UnlinksTo, StagesOK, StageOK, Writing, Copying
  <2>4. QED  BY <1>a, <2>2, <2>3 DEF TypeInv
<1>7. CASE Rename(t)
  <2>1. MovesTo(t, "idle") \/ MovesTo(t, "update")
    BY <1>0, <1>7, Moves DEF Rename, Places
  <2>2. TypeOK'
    BY <1>0, <1>7, <2>1 DEF Rename, TypeOK, MovesTo, StageOK, Stored, loadVars, histVars
  <2>3. StagesOK'
    BY <1>0, <1>7, <2>1 DEF Rename, MovesTo, StagesOK, StageOK, Writing, Copying
  <2>4. QED  BY <1>a, <2>2, <2>3 DEF TypeInv
<1>8. QED  BY <1>1, <1>2, <1>3, <1>4, <1>5, <1>b, <1>6, <1>7 DEF FileStep, CopyStep
\* reload_active holds what it read, to publish it.
ReadsTo(t) ==
    /\ thread' \in [Threads -> Activities]
    /\ \A u \in Threads : u # t => thread'[u] = thread[u]
    /\ thread'[t].at = "publish" /\ thread'[t].op = thread[t].op /\ thread'[t].name = thread[t].name
    /\ thread'[t].copy = thread[t].copy
    /\ thread'[t].doc = files[IF thread[t].op \in {"save", "calibrate"} THEN thread[t].name ELSE settings.active]

LEMMA Reads == ASSUME TypeInv, NEW t \in Threads, Read(t) PROVE ReadsTo(t)
<1>1. TypeOK /\ thread \in [Threads -> Activities] /\ thread[t] \in Activities /\ StageOK(t)
  BY DEF TypeInv, TypeOK, StagesOK
<1> DEFINE d == files[IF thread[t].op \in {"save", "calibrate"} THEN thread[t].name ELSE settings.active]
           new == [thread[t] EXCEPT !.at = "publish", !.doc = d]
<1>2. d \in Stored
  BY <1>1 DEF Read, TypeOK, StageOK, Settings
<1>3. thread' = [thread EXCEPT ![t] = new]
  BY <1>1 DEF Read
<1> HIDE DEF d
<1>4. new \in Activities
  BY <1>1, <1>2 DEF Activities
<1>5. /\ new.at = "publish" /\ new.op = thread[t].op /\ new.name = thread[t].name
      /\ new.copy = thread[t].copy /\ new.doc = d
  BY <1>1 DEF Activities
<1> HIDE DEF new
<1>6. QED  BY <1>1, <1>3, <1>4, <1>5 DEF ReadsTo, d

\* Where the loading goes on.
Publishes(t) ==
    \/ thread[t].op = "put" /\ MovesTo(t, "idle")
    \/ thread[t].op = "calibrate" /\ MovesTo(t, "prepare")
    \/ thread[t].op \notin {"put", "calibrate"} /\ MovesTo(t, "refresh")

LEMMA Published == ASSUME TypeOK, NEW t \in Threads, Publish(t) PROVE Publishes(t)
<1>1. /\ thread[t].op = "put" => AfterLoading(thread[t].op) = "idle"
      /\ thread[t].op = "calibrate" => AfterLoading(thread[t].op) = "prepare"
      /\ thread[t].op \notin {"put", "calibrate"} => AfterLoading(thread[t].op) = "refresh"
  BY DEF AfterLoading
<1>2. AfterLoading(thread[t].op) \in Places
  BY <1>1 DEF Places
<1>3. MovesTo(t, AfterLoading(thread[t].op))
  BY <1>2, Moves DEF Publish
<1>4. QED  BY <1>1, <1>3 DEF Publishes

LEMMA TypeLoad == ASSUME NEW t \in Threads PROVE TypeInv /\ LoadStep(t) => TypeInv'
<1> SUFFICES ASSUME TypeInv, LoadStep(t) PROVE TypeInv'  OBVIOUS
<1>a. run' = run
  BY DEF LoadStep, Update, Read, Publish, Refresh
<1>0. TypeOK /\ StagesOK /\ thread[t] \in Activities /\ StageOK(t)
  BY DEF TypeInv, TypeOK, StagesOK
<1>1. CASE Update(t)
  <2>1. MovesTo(t, "read") \/ MovesTo(t, "idle")
    BY <1>0, <1>1, Moves, Ended DEF Update, Places
  <2>2. settings' \in Settings
    BY <1>0, <1>1 DEF Update, StageOK, Settings
  <2>3. TypeOK'
    BY <1>0, <1>1, <2>1, <2>2 DEF Update, TypeOK, MovesTo, loadVars, fileVars
  <2>4. StagesOK'
    BY <1>0, <1>1, <2>1 DEF Update, MovesTo, StagesOK, StageOK, Writing, Copying
  <2>5. QED  BY <1>a, <2>3, <2>4 DEF TypeInv
<1>2. CASE Read(t)
  <2>1. ReadsTo(t)
    BY <1>0, <1>2, Reads
  <2>2. TypeOK'
    BY <1>0, <1>2, <2>1 DEF Read, ReadsTo, TypeOK, loadVars, fileVars, histVars
  <2>3. StagesOK'
    BY <1>0, <1>2, <2>1 DEF Read, ReadsTo, StagesOK, StageOK, Writing, Copying
  <2>4. QED  BY <1>a, <2>2, <2>3 DEF TypeInv
<1>3. CASE Publish(t)
  <2>1. Publishes(t)
    BY <1>0, <1>3, Published
  <2>2. TypeOK'
    BY <1>0, <1>3, <2>1 DEF Publish, Publishes, TypeOK, MovesTo, IsDocument, fileVars, histVars
  <2>3. StagesOK'
    BY <1>0, <1>3, <2>1 DEF Publish, Publishes, MovesTo, StagesOK, StageOK, Writing, Copying
  <2>4. QED  BY <1>a, <2>2, <2>3 DEF TypeInv
<1>4. CASE Refresh(t)
  <2>1. MovesTo(t, "idle")
    BY <1>0, <1>4, Ended DEF Refresh
  <2>2. TypeOK'
    BY <1>0, <1>4, <2>1 DEF Refresh, TypeOK, MovesTo, fileVars, histVars
  <2>3. StagesOK'
    BY <1>0, <1>4, <2>1 DEF MovesTo, StagesOK, StageOK, Writing, Copying
  <2>4. QED  BY <1>a, <2>2, <2>3 DEF TypeInv
<1>5. QED  BY <1>1, <1>2, <1>3, <1>4 DEF LoadStep

\* A calibration's steps.
CalibrationBegun ==
    /\ thread' \in [Threads -> Activities]
    /\ \A u \in Threads : u # Worker => thread'[u] = thread[u]
    /\ thread'[Worker].op = "calibrate" /\ thread'[Worker].at = "read" /\ thread'[Worker].name = Calibration

LEMMA CalibrationBegan == ASSUME TypeOK, CalibrationBegins PROVE CalibrationBegun
<1> DEFINE new == [Idle EXCEPT !.op = "calibrate", !.at = "read", !.name = Calibration]
<1>1. thread' = [thread EXCEPT ![Worker] = new] /\ Worker \in Threads
  BY DEF CalibrationBegins, Threads
<1>2. new \in Activities /\ new.op = "calibrate" /\ new.at = "read" /\ new.name = Calibration
  BY NameFacts DEF Idle, Activities, Stored, Missing
<1> HIDE DEF new
<1>3. QED  BY <1>1, <1>2 DEF CalibrationBegun, TypeOK

CalibrationRestores ==
    /\ thread' \in [Threads -> Activities]
    /\ \A u \in Threads : u # Worker => thread'[u] = thread[u]
    /\ thread'[Worker].op = "restore" /\ thread'[Worker].at = "read"
    /\ thread'[Worker].name = thread[Worker].name

LEMMA CalibrationRestored == ASSUME TypeOK, CalibrationEnds PROVE CalibrationRestores
<1> DEFINE new == [thread[Worker] EXCEPT !.op = "restore", !.at = "read"]
<1>1. Worker \in Threads /\ thread[Worker] \in Activities
  BY DEF TypeOK, Threads
<1>2. thread' = [thread EXCEPT ![Worker] = new]
  BY <1>1 DEF CalibrationEnds, TypeOK
<1>3. new \in Activities /\ new.op = "restore" /\ new.at = "read" /\ new.name = thread[Worker].name
  BY <1>1 DEF Activities
<1> HIDE DEF new
<1>4. QED  BY <1>1, <1>2, <1>3 DEF CalibrationRestores, TypeOK

LEMMA TypeCalibration == TypeInv /\ CalibrationStep => TypeInv'
<1> SUFFICES ASSUME TypeInv, CalibrationStep PROVE TypeInv'  OBVIOUS
<1>0. /\ TypeOK /\ StagesOK /\ Worker \in Threads /\ StageOK(Worker)
      /\ UNCHANGED <<run, settings, fileVars, ops>>
  BY DEF TypeInv, StagesOK, Threads, CalibrationStep, CalibrationBegins, CalibrationStarts, CalibrationFails,
         CalibrationEnds
<1>1. CASE CalibrationBegins
  <2>1. CalibrationBegun
    BY <1>0, <1>1, CalibrationBegan
  <2>2. runs' \in 0..MaxRuns
    BY <1>0, <1>1, BoundAssumption DEF CalibrationBegins, TypeOK
  <2>3. crossed' \in BOOLEAN
    BY <1>1 DEF CalibrationBegins
  <2>4. TypeOK'
    BY <1>0, <1>1, <2>1, <2>2, <2>3 DEF CalibrationBegins, CalibrationBegun, TypeOK, fileVars, loadVars
  <2>5. StagesOK'
    BY <1>0, <2>1, NameFacts DEF CalibrationBegun, StagesOK, StageOK, Copying
  <2>6. QED  BY <1>0, <2>4, <2>5 DEF TypeInv
<1>2. CASE CalibrationStarts
  <2>1. MovesTo(Worker, "calibrating")
    BY <1>0, <1>2, Moves DEF CalibrationStarts, Places
  <2>2. TypeOK'
    BY <1>0, <1>2, <2>1 DEF CalibrationStarts, MovesTo, TypeOK, fileVars, histVars
  <2>3. StagesOK'
    BY <1>0, <1>2, <2>1 DEF CalibrationStarts, MovesTo, StagesOK, StageOK, Copying
  <2>4. QED  BY <1>0, <2>2, <2>3 DEF TypeInv
<1>3. CASE CalibrationFails
  <2>1. MovesTo(Worker, "idle")
    BY <1>0, <1>3, Ended DEF CalibrationFails
  <2>2. TypeOK'
    BY <1>0, <1>3, <2>1 DEF CalibrationFails, MovesTo, TypeOK, fileVars
  <2>3. StagesOK'
    BY <1>0, <2>1 DEF MovesTo, StagesOK, StageOK, Copying
  <2>4. QED  BY <1>0, <2>2, <2>3 DEF TypeInv
<1>4. CASE CalibrationEnds
  <2>1. CalibrationRestores
    BY <1>0, <1>4, CalibrationRestored
  <2>2. TypeOK'
    BY <1>0, <1>4, <2>1 DEF CalibrationEnds, CalibrationRestores, TypeOK, fileVars, loadVars, histVars
  <2>3. StagesOK'
    BY <1>0, <1>4, <2>1 DEF CalibrationEnds, CalibrationRestores, StagesOK, StageOK, Copying
  <2>4. QED  BY <1>0, <2>2, <2>3 DEF TypeInv
<1>5. QED  BY <1>1, <1>2, <1>3, <1>4 DEF CalibrationStep

Runs == [at : {"idle", "starting", "creating", "created", "driving"}, copy : Settings \cup {NoCopy},
         doc : Documents \cup {Missing}, driven : Documents \cup {Missing}]

LEMMA TypeRun == TypeInv /\ RunStep => TypeInv'
<1> SUFFICES ASSUME TypeInv, RunStep PROVE TypeInv'  OBVIOUS
<1>1. TypeOK /\ StagesOK /\ (run.at = "creating" => run.copy \in Settings) /\ run \in Runs /\ Stopped \in Runs
  BY DEF TypeInv, TypeOK, Runs, Stopped, Missing
<1>2. /\ thread' = thread /\ fileVars' = fileVars /\ loadVars' = loadVars
      /\ ops' = ops /\ shared' = shared /\ broken' = broken /\ behind' = behind /\ rewound' = rewound
  BY DEF RunStep, RunChecks, RunCreates, RunAdvances, RunDrives, RunEnds, histVars
<1>3. run' \in Runs /\ settings' \in Settings /\ used' \subseteq Nat
  <2>1. CASE RunChecks
    BY <1>1, <2>1 DEF RunChecks, TypeOK, Runs
  <2>2. CASE RunCreates
    BY <1>1, <2>2 DEF RunCreates, TypeOK, Runs, histVars
  <2>3. CASE RunAdvances
    BY <1>1, <2>3 DEF RunAdvances, TypeOK, Runs, Stopped, Settings
  <2>4. CASE RunDrives
    BY <1>1, <2>4 DEF RunDrives, TypeOK, Runs, histVars, IsDocument
  <2>5. CASE RunEnds
    BY <1>1, <2>5 DEF RunEnds, TypeOK, Runs, histVars
  <2>6. QED  BY <2>1, <2>2, <2>3, <2>4, <2>5 DEF RunStep
<1>4. runs' \in 0..MaxRuns /\ crossed' \in BOOLEAN
  <2>1. CASE RunChecks
    BY <1>1, <2>1, BoundAssumption DEF RunChecks, TypeOK
  <2>2. CASE ~RunChecks
    BY <1>1, <2>2 DEF RunStep, RunCreates, RunAdvances, RunDrives, RunEnds, histVars, TypeOK
  <2>3. QED  BY <2>1, <2>2
<1>5. TypeOK'
  BY <1>1, <1>2, <1>3, <1>4 DEF TypeOK, Runs, fileVars, loadVars
<1>6. StagesOK'
  BY <1>1, <1>2 DEF StagesOK, StageOK
<1>7. run'.at = "creating" => run'.copy \in Settings
  BY <1>1 DEF RunStep, RunChecks, RunCreates, RunAdvances, RunDrives, RunEnds, Stopped, Runs, TypeOK
<1>8. QED  BY <1>5, <1>6, <1>7 DEF TypeInv
THEOREM TypeInvariance == Spec => []TypeInv
<1>1. TypeInv /\ [Next]_vars => TypeInv'
  <2>1. TypeInv /\ UNCHANGED vars => TypeInv'
    BY DEF TypeInv, TypeOK, StagesOK, StageOK, vars, fileVars, loadVars, histVars
  <2>2. TypeInv /\ Next => TypeInv'
    BY Steps, TypeBegins, TypeFile, TypeLoad, TypeCalibration, TypeRun DEF TypeInv
  <2>3. QED  BY <2>1, <2>2
<1>2. QED  BY TypeInit, <1>1, PTL DEF Spec

\* Every document that is stored, loaded or driven is one that was written.
THEOREM TypeCorrect == Spec => []TypeOK
BY TypeInvariance, PTL DEF TypeInv

-----------------------------------------------------------------------------
(* Until two writers share a temporary file, each has it for itself. *)

Holds(t) == thread[t].at \in {"write", "replace"}

WritersApart ==
    ~shared =>
      /\ \A n \in Names : tmp[n] = Missing => opened[n] = {}
      /\ \A t \in Threads :
            /\ thread[t].at = "write" => tmp[thread[t].name] = Torn /\ opened[thread[t].name] = {t}
            /\ thread[t].at = "replace" => tmp[thread[t].name] \in Documents /\ opened[thread[t].name] = {}
      /\ \A t, u \in Threads : Holds(t) /\ Holds(u) /\ t # u => thread[t].name # thread[u].name

LEMMA ApartInit == Init => WritersApart
BY StoredFacts, NameFacts DEF Init, WritersApart, Holds, Idle

\* A step that leaves the temporary files and puts no thread among the writers.
LEMMA ApartKept ==
    ASSUME WritersApart, UNCHANGED <<tmp, opened>>, ~shared' => ~shared,
           \A t \in Threads : Holds(t)' => thread'[t] = thread[t]
    PROVE  WritersApart'
BY DEF WritersApart, Holds

LEMMA ApartBegins == TypeInv /\ WritersApart /\ BeginsStep => WritersApart'
<1> SUFFICES ASSUME TypeInv, WritersApart, BeginsStep PROVE WritersApart'  OBVIOUS
<1>1. UNCHANGED <<tmp, opened, shared>>
  BY DEF BeginsStep, BeginsAs, Begins, fileVars
<1>2. \A t \in Threads : Holds(t)' => thread'[t] = thread[t]
  BY DEF BeginsStep, BeginsAs, Begins, TypeInv, TypeOK, Holds
<1>3. QED  BY <1>1, <1>2, ApartKept

LEMMA ApartLoad == ASSUME NEW t \in Threads PROVE TypeInv /\ WritersApart /\ LoadStep(t) => WritersApart'
<1> SUFFICES ASSUME TypeInv, WritersApart, LoadStep(t) PROVE WritersApart'  OBVIOUS
<1>1. UNCHANGED <<tmp, opened, shared>>
  BY DEF LoadStep, Update, Read, Publish, Refresh, fileVars, histVars
<1>2. \A u \in Threads : Holds(u)' => thread'[u] = thread[u]
  <2>0. TypeOK
    BY DEF TypeInv
  <2>1. CASE Update(t)
    <3>1. MovesTo(t, "read") \/ MovesTo(t, "idle")
      BY <2>0, <2>1, Moves, Ended DEF Update, Places
    <3>2. QED  BY <3>1 DEF MovesTo, Holds
  <2>2. CASE Read(t)
    BY <2>2, Reads DEF ReadsTo, Holds
  <2>3. CASE Publish(t)
    BY <2>0, <2>3, Published DEF Publishes, MovesTo, Holds
  <2>4. CASE Refresh(t)
    BY <2>0, <2>4, Ended DEF Refresh, MovesTo, Holds
  <2>5. QED  BY <2>1, <2>2, <2>3, <2>4 DEF LoadStep
<1>3. QED  BY <1>1, <1>2, ApartKept

LEMMA ApartFile == ASSUME NEW t \in Threads PROVE TypeInv /\ WritersApart /\ FileStep(t) => WritersApart'
<1> SUFFICES ASSUME TypeInv, WritersApart, FileStep(t), ~shared' PROVE WritersApart'
  BY DEF WritersApart
<1>0. TypeOK /\ StageOK(t) /\ ~shared
  BY DEF TypeInv, StagesOK, TypeOK, FileStep, CopyStep, Open, Write, Replace, ReplaceFails, CopyOpens,
         CopyFindsNothing, CopyWrites, CopyBreaks, Unlink, Rename, histVars
<1>1. CASE Open(t)
  <2>1. MovesTo(t, "write") /\ thread[t].at = "open" /\ thread[t].name \in Names
    BY <1>0, <1>1, Moves DEF Open, Places, StageOK
  <2>2. /\ tmp[thread[t].name] = Missing /\ opened[thread[t].name] = {}
        /\ tmp' = [tmp EXCEPT ![thread[t].name] = Torn]
        /\ opened' = [opened EXCEPT ![thread[t].name] = @ \cup {t}] /\ files' = files
    BY <1>0, <1>1, <2>1 DEF Open, WritersApart
  <2>3. opened'[thread[t].name] = {t} /\ tmp'[thread[t].name] = Torn
    BY <1>0, <2>1, <2>2 DEF TypeOK
  <2>4. \A u \in Threads \ {t} : Holds(u) => thread[u].name # thread[t].name
    BY <1>0, <2>2, StoredFacts DEF WritersApart, Holds
  <2>5. \A u \in Threads \ {t} : Holds(u)' => Holds(u) /\ thread'[u] = thread[u]
    BY <2>1 DEF MovesTo, Holds
  <2>6. \A n \in Names \ {thread[t].name} : tmp'[n] = tmp[n] /\ opened'[n] = opened[n]
    BY <1>0, <2>2 DEF TypeOK
  <2>7. \A u \in Threads : Holds(u) => thread[u].name \in Names
    BY DEF TypeInv, StagesOK, StageOK, Holds
  <2>8. QED
    BY <1>0, <2>1, <2>2, <2>3, <2>4, <2>5, <2>6, <2>7, StoredFacts DEF WritersApart, MovesTo, Holds
<1>2. CASE Write(t)
  <2>1. MovesTo(t, "replace") /\ thread[t].at = "write" /\ thread[t].name \in Names /\ thread[t].doc \in Documents
    BY <1>0, <1>2, Moves DEF Write, Places, StageOK
  <2>2. /\ tmp' = [tmp EXCEPT ![thread[t].name] = thread[t].doc]
        /\ opened' = [opened EXCEPT ![thread[t].name] = @ \ {t}] /\ files' = files
    BY <1>0, <1>2, <2>1 DEF Write, WritersApart
  <2>3. opened'[thread[t].name] = {} /\ tmp'[thread[t].name] \in Documents
    BY <1>0, <2>1, <2>2 DEF TypeOK, WritersApart
  <2>4. \A u \in Threads \ {t} : Holds(u) => thread[u].name # thread[t].name
    BY <1>0, <2>1 DEF WritersApart, Holds
  <2>5. \A u \in Threads \ {t} : Holds(u)' => Holds(u) /\ thread'[u] = thread[u]
    BY <2>1 DEF MovesTo, Holds
  <2>6. \A n \in Names \ {thread[t].name} : tmp'[n] = tmp[n] /\ opened'[n] = opened[n]
    BY <1>0, <2>2 DEF TypeOK
  <2>7. \A u \in Threads : Holds(u) => thread[u].name \in Names
    BY DEF TypeInv, StagesOK, StageOK, Holds
  <2>8. \A u \in Threads : Holds(u)' => thread'[u].name = thread[u].name /\ Holds(u)
    BY <2>1, <2>5 DEF MovesTo, Holds
  <2>9. \A u, v \in Threads : Holds(u)' /\ Holds(v)' /\ u # v => thread'[u].name # thread'[v].name
    BY <1>0, <2>8 DEF WritersApart
  <2>10. \A n \in Names : tmp'[n] = Missing => opened'[n] = {}
    BY <1>0, <2>2, <2>3, <2>6 DEF WritersApart
  <2>11. ASSUME NEW u \in Threads
         PROVE  /\ thread'[u].at = "write" => tmp'[thread'[u].name] = Torn /\ opened'[thread'[u].name] = {u}
                /\ thread'[u].at = "replace" => tmp'[thread'[u].name] \in Documents /\ opened'[thread'[u].name] = {}
    <3>1. CASE u = t
      BY <2>1, <2>3, <3>1 DEF MovesTo
    <3>2. CASE u # t
      <4>1. CASE ~Holds(u)'
        BY <4>1 DEF Holds
      <4>2. CASE Holds(u)'
        <5>1. Holds(u) /\ thread'[u] = thread[u] /\ thread[u].name \in Names \ {thread[t].name}
          BY <2>4, <2>5, <2>7, <3>2, <4>2
        <5>2. tmp'[thread[u].name] = tmp[thread[u].name] /\ opened'[thread[u].name] = opened[thread[u].name]
          BY <2>6, <5>1
        <5>3. QED  BY <1>0, <5>1, <5>2 DEF WritersApart
      <4>3. QED  BY <4>1, <4>2
    <3>3. QED  BY <3>1, <3>2
  <2>12. QED  BY <2>9, <2>10, <2>11 DEF WritersApart
<1>3. CASE Replace(t) \/ ReplaceFails(t)
  <2>1. /\ \A u \in Threads \ {t} : thread'[u] = thread[u]
        /\ thread'[t].at \notin {"write", "replace"}
        /\ thread[t].at = "replace" /\ thread[t].name \in Names
    BY <1>0, <1>3 DEF Replace, ReplaceFails, StageOK, AfterWriting, Writing, GoesOn, Ends, Idle, TypeOK,
           Activities
  <2>2. /\ tmp[thread[t].name] \in Documents /\ opened[thread[t].name] = {}
        /\ tmp' = [tmp EXCEPT ![thread[t].name] = Missing] /\ opened' = opened
    BY <1>0, <1>3, <2>1 DEF Replace, ReplaceFails, WritersApart
  <2>4. \A u \in Threads \ {t} : Holds(u) => thread[u].name # thread[t].name
    BY <1>0, <2>1 DEF WritersApart, Holds
  <2>5. \A u \in Threads : Holds(u)' => u # t /\ Holds(u) /\ thread'[u] = thread[u]
    BY <2>1 DEF Holds
  <2>6. \A n \in Names \ {thread[t].name} : tmp'[n] = tmp[n] /\ opened'[n] = opened[n]
    BY <1>0, <2>2 DEF TypeOK
  <2>7. \A u \in Threads : Holds(u) => thread[u].name \in Names
    BY DEF TypeInv, StagesOK, StageOK, Holds
  <2>8. QED
    BY <1>0, <2>1, <2>2, <2>4, <2>5, <2>6, <2>7, StoredFacts DEF WritersApart, Holds
<1>4. CASE CopyStep(t) \/ Unlink(t) \/ Rename(t)
  <2>1. /\ \A u \in Threads \ {t} : thread'[u] = thread[u]
        /\ thread'[t].at \notin {"write", "replace"} /\ tmp' = tmp /\ opened' = opened
    <3>1. CASE Unlink(t)
      BY <1>0, <3>1, Unlinks DEF Unlink, UnlinksTo
    <3>2. CASE CopyStep(t) \/ Rename(t)
      BY <1>0, <3>2 DEF CopyStep, CopyOpens, CopyFindsNothing, CopyWrites, CopyBreaks, Rename, GoesOn,
             Ends, Idle,
                        TypeOK, Activities, fileVars
    <3>3. QED  BY <1>4, <3>1, <3>2
  <2>2. \A u \in Threads : Holds(u)' => thread'[u] = thread[u]
    BY <2>1 DEF Holds
  <2>3. QED  BY <1>0, <2>1, <2>2, ApartKept
<1>5. QED  BY <1>1, <1>2, <1>3, <1>4 DEF FileStep

LEMMA ApartCalibration == TypeInv /\ WritersApart /\ CalibrationStep => WritersApart'
<1> SUFFICES ASSUME TypeInv, WritersApart, CalibrationStep PROVE WritersApart'  OBVIOUS
<1>0. TypeOK /\ UNCHANGED <<tmp, opened, shared>> /\ Worker \in Threads
  BY DEF TypeInv, CalibrationStep, CalibrationBegins, CalibrationStarts, CalibrationFails, CalibrationEnds,
         fileVars, histVars, Threads
<1>1. \A u \in Threads : Holds(u)' => thread'[u] = thread[u]
  <2>1. CASE CalibrationBegins
    BY <1>0, <2>1, CalibrationBegan DEF CalibrationBegun, Holds
  <2>2. CASE CalibrationStarts
    BY <1>0, <2>2, Moves DEF CalibrationStarts, Places, MovesTo, Holds
  <2>3. CASE CalibrationFails
    BY <1>0, <2>3, Ended DEF CalibrationFails, MovesTo, Holds
  <2>4. CASE CalibrationEnds
    BY <1>0, <2>4, CalibrationRestored DEF CalibrationRestores, Holds
  <2>5. QED  BY <2>1, <2>2, <2>3, <2>4 DEF CalibrationStep
<1>2. QED  BY <1>0, <1>1, ApartKept

LEMMA ApartInvariance == Spec => []WritersApart
<1>1. TypeInv /\ WritersApart /\ [Next]_vars => WritersApart'
  <2>1. TypeInv /\ WritersApart /\ UNCHANGED vars => WritersApart'
    BY DEF WritersApart, Holds, vars, fileVars, histVars
  <2>2. WritersApart /\ RunStep => WritersApart'
    BY DEF RunStep, RunChecks, RunCreates, RunAdvances, RunDrives, RunEnds, WritersApart, Holds, fileVars,
           histVars
  <2>3. TypeInv /\ WritersApart /\ Next => WritersApart'
    BY Steps, ApartBegins, ApartFile, ApartLoad, ApartCalibration, <2>2 DEF TypeInv
  <2>4. QED  BY <2>1, <2>3
<1>2. QED  BY ApartInit, <1>1, TypeInvariance, PTL DEF Spec

\* And until one reads or writes what another copies to, or a copy is broken off, a
\* torn file is the target of the one copy that is making it.
Copies(t) == thread[t].at = "copying"

CopiesApart ==
    (~shared /\ ~broken) =>
      /\ \A n \in Names : files[n] = Torn => \E t \in Threads : CopiesTo(t, n)
      /\ \A t, u \in Threads : Copies(t) /\ Copies(u) /\ t # u => thread[t].name # thread[u].name
      /\ \A t \in Threads :
            Copies(t) => files[thread[t].name] = Torn /\ files[thread[t].other] \in Documents

LEMMA CopiesInit == Init => CopiesApart
BY StoredFacts, NameFacts DEF Init, CopiesApart, Copies, CopiesTo, Idle

\* A step that no copy takes part in, and that stores nothing torn.
LEMMA CopiesKept ==
    ASSUME TypeInv, CopiesApart, ~shared' => ~shared, ~broken' => ~broken,
           \A t \in Threads : /\ Copies(t)' <=> Copies(t)
                              /\ Copies(t) => thread'[t] = thread[t],
           \A n \in Names : files'[n] # files[n] => files'[n] # Torn /\ ~InUse(n)
    PROVE  CopiesApart'
<1> SUFFICES ASSUME ~shared', ~broken' PROVE CopiesApart'
  BY DEF CopiesApart
<1>1. \A t \in Threads : Copies(t) => thread[t].name \in Names /\ thread[t].other \in Names
  BY DEF TypeInv, StagesOK, StageOK, Copies
<1>2. \A t \in Threads : Copies(t) => /\ files'[thread[t].name] = files[thread[t].name]
                                     /\ files'[thread[t].other] = files[thread[t].other]
  BY <1>1 DEF InUse, Copies
<1>3. \A n \in Names : files'[n] = Torn => \E t \in Threads : CopiesTo(t, n)'
  BY DEF CopiesApart, CopiesTo, Copies
<1>4. \A t \in Threads : Copies(t)' => Copies(t) /\ thread'[t] = thread[t]
  OBVIOUS
<1>5. QED  BY <1>2, <1>3, <1>4 DEF CopiesApart

LEMMA CopiesBegins == TypeInv /\ CopiesApart /\ BeginsStep => CopiesApart'
<1> SUFFICES ASSUME TypeInv, CopiesApart, BeginsStep PROVE CopiesApart'  OBVIOUS
<1>1. UNCHANGED <<files, shared, broken>>
  BY DEF BeginsStep, BeginsAs, Begins, fileVars
<1>2. \A t \in Threads : (Copies(t)' <=> Copies(t)) /\ (Copies(t) => thread'[t] = thread[t])
  BY DEF BeginsStep, BeginsAs, Begins, TypeInv, TypeOK, Busy, Copies
<1>3. QED  BY <1>1, <1>2, CopiesKept

LEMMA CopiesLoad == ASSUME NEW t \in Threads PROVE TypeInv /\ CopiesApart /\ LoadStep(t) => CopiesApart'
<1> SUFFICES ASSUME TypeInv, CopiesApart, LoadStep(t) PROVE CopiesApart'  OBVIOUS
<1>0. TypeOK /\ UNCHANGED <<files, shared, broken>>
  BY DEF TypeInv, LoadStep, Update, Read, Publish, Refresh, fileVars, histVars
<1>1. \A u \in Threads : (Copies(u)' <=> Copies(u)) /\ (Copies(u) => thread'[u] = thread[u])
  <2>1. CASE Update(t)
    <3>1. (MovesTo(t, "read") \/ MovesTo(t, "idle")) /\ thread[t].at = "update"
      BY <1>0, <2>1, Moves, Ended DEF Update, Places
    <3>2. QED  BY <3>1 DEF MovesTo, Copies
  <2>2. CASE Read(t)
    BY <2>2, Reads DEF Read, ReadsTo, Copies
  <2>3. CASE Publish(t)
    BY <1>0, <2>3, Published DEF Publish, Publishes, MovesTo, Copies
  <2>4. CASE Refresh(t)
    BY <1>0, <2>4, Ended DEF Refresh, MovesTo, Copies
  <2>5. QED  BY <2>1, <2>2, <2>3, <2>4 DEF LoadStep
<1>2. QED  BY <1>0, <1>1, CopiesKept

LEMMA CopiesCalibration == TypeInv /\ CopiesApart /\ CalibrationStep => CopiesApart'
<1> SUFFICES ASSUME TypeInv, CopiesApart, CalibrationStep PROVE CopiesApart'  OBVIOUS
<1>0. TypeOK /\ UNCHANGED <<files, shared, broken>> /\ Worker \in Threads
  BY DEF TypeInv, CalibrationStep, CalibrationBegins, CalibrationStarts, CalibrationFails, CalibrationEnds,
         fileVars, histVars, Threads
<1>1. \A u \in Threads : (Copies(u)' <=> Copies(u)) /\ (Copies(u) => thread'[u] = thread[u])
  <2>1. CASE CalibrationBegins
    BY <1>0, <2>1, CalibrationBegan DEF CalibrationBegins, CalibrationBegun, Busy, Copies
  <2>2. CASE CalibrationStarts
    BY <1>0, <2>2, Moves DEF CalibrationStarts, Places, MovesTo, Copies
  <2>3. CASE CalibrationFails
    BY <1>0, <2>3, Ended DEF CalibrationFails, MovesTo, Copies
  <2>4. CASE CalibrationEnds
    BY <1>0, <2>4, CalibrationRestored DEF CalibrationEnds, CalibrationRestores, Copies
  <2>5. QED  BY <2>1, <2>2, <2>3, <2>4 DEF CalibrationStep
<1>2. QED  BY <1>0, <1>1, CopiesKept

LEMMA CopiesFile ==
    ASSUME NEW t \in Threads PROVE TypeInv /\ WritersApart /\ CopiesApart /\ FileStep(t) => CopiesApart'
<1> SUFFICES ASSUME TypeInv, WritersApart, CopiesApart, FileStep(t), ~shared', ~broken' PROVE CopiesApart'
  BY DEF CopiesApart
<1>0. TypeOK /\ StageOK(t) /\ ~shared /\ ~broken
  BY DEF TypeInv, StagesOK, TypeOK, FileStep, CopyStep, Open, Write, Replace, ReplaceFails, CopyOpens,
         CopyFindsNothing, CopyWrites, CopyBreaks, Unlink, Rename, histVars
<1>a. \A u \in Threads : Copies(u) => /\ thread[u].name \in Names /\ thread[u].other \in Names
                                     /\ thread[u].other # thread[u].name
  BY DEF TypeInv, StagesOK, StageOK, Copies
<1>1. CASE Open(t) \/ Write(t) \/ ReplaceFails(t)
  <2>1. (MovesTo(t, "write") \/ MovesTo(t, "replace") \/ MovesTo(t, "idle")) /\ files' = files
    BY <1>0, <1>1, Moves, Ended DEF Open, Write, ReplaceFails, Places
  <2>2. thread[t].at # "copying"
    BY <1>1 DEF Open, Write, ReplaceFails
  <2>3. \A u \in Threads : (Copies(u)' <=> Copies(u)) /\ (Copies(u) => thread'[u] = thread[u])
    BY <2>1, <2>2 DEF MovesTo, Copies
  <2>4. QED  BY <1>0, <2>1, <2>3, CopiesKept
<1>2. CASE Replace(t)
  <2>1. /\ thread[t].at = "replace" /\ thread[t].name \in Names /\ ~InUse(thread[t].name)
        /\ files' = [files EXCEPT ![thread[t].name] = tmp[thread[t].name]]
        /\ tmp[thread[t].name] \in Documents
    BY <1>0, <1>2 DEF Replace, StageOK, WritersApart
  <2>2. \A u \in Threads : (Copies(u)' <=> Copies(u)) /\ (Copies(u) => thread'[u] = thread[u])
    BY <1>0, <1>2, <2>1 DEF Replace, StageOK, AfterWriting, Writing, GoesOn, Ends, Idle, TypeOK,
           Activities, Copies
  <2>3. \A n \in Names : files'[n] # files[n] => files'[n] # Torn /\ ~InUse(n)
    BY <1>0, <2>1, StoredFacts DEF TypeOK
  <2>4. QED  BY <1>0, <2>2, <2>3, CopiesKept
<1>3. CASE Unlink(t)
  <2>1. UnlinksTo(t) /\ thread[t].at = "unlink"
    BY <1>0, <1>3, Unlinks DEF Unlink
  <2>2. \A u \in Threads : (Copies(u)' <=> Copies(u)) /\ (Copies(u) => thread'[u] = thread[u])
    BY <2>1 DEF UnlinksTo, Copies
  <2>3. \A n \in Names : files'[n] # files[n] => files'[n] # Torn /\ ~InUse(n)
    BY <1>0, <1>3, StoredFacts DEF Unlink, TypeOK, StageOK
  <2>4. QED  BY <1>0, <2>2, <2>3, CopiesKept
<1>4. CASE Rename(t)
  <2> DEFINE from == thread[t].other
             to == thread[t].name
             renamed == files[from] # Missing /\ files[to] = Missing /\ ~InUse(from)
  <2>1. (MovesTo(t, "idle") \/ MovesTo(t, "update")) /\ thread[t].at = "rename" /\ from \in Names /\ to \in Names
    BY <1>0, <1>4, Moves DEF Rename, Places, StageOK
  <2>2. \A u \in Threads : (Copies(u)' <=> Copies(u)) /\ (Copies(u) => thread'[u] = thread[u])
    BY <2>1 DEF MovesTo, Copies
  <2>3. CASE ~renamed
    <3>1. files' = files
      BY <1>4, <2>3 DEF Rename
    <3>2. QED  BY <1>0, <2>2, <3>1, CopiesKept
  <2>4. CASE renamed
    <3>1. files' = [files EXCEPT ![to] = files[from], ![from] = Missing]
      BY <1>4, <2>4 DEF Rename
    <3>2. ~InUse(to)
      BY <1>0, <2>4, StoredFacts DEF CopiesApart, Copies, InUse
    <3>3. files[from] # Torn
      BY <1>0, <2>1, <2>4 DEF CopiesApart, CopiesTo, InUse
    <3>4. \A n \in Names : files'[n] # files[n] => files'[n] # Torn /\ ~InUse(n)
      BY <1>0, <2>1, <2>4, <3>1, <3>2, <3>3, StoredFacts DEF TypeOK
    <3>5. QED  BY <1>0, <2>2, <3>4, CopiesKept
  <2>5. QED  BY <2>3, <2>4
<1>5. CASE CopyOpens(t)
  <2> DEFINE n == thread[t].name
             source == thread[t].other
  <2>1. /\ MovesTo(t, "copying") /\ thread[t].at = "copy" /\ n \in Names /\ source \in Names /\ n # source
        /\ files[source] # Missing /\ files' = [files EXCEPT ![n] = Torn]
        /\ ~InUse(n) /\ \A u \in Threads : ~CopiesTo(u, source)
    BY <1>0, <1>5, Moves DEF CopyOpens, Places, StageOK
  <2>2. files[source] \in Documents
    BY <1>0, <2>1 DEF CopiesApart, TypeOK, Stored
  <2>3. files'[n] = Torn /\ \A m \in Names \ {n} : files'[m] = files[m]
    BY <1>0, <2>1 DEF TypeOK
  <2>4. \A u \in Threads \ {t} : thread'[u] = thread[u]
    BY <2>1 DEF MovesTo
  <2>5. thread'[t].at = "copying" /\ thread'[t].name = n /\ thread'[t].other = source
    BY <2>1 DEF MovesTo
  <2>6. \A u \in Threads \ {t} : Copies(u)' => Copies(u) /\ thread[u].name # n /\ thread[u].other # n
    BY <2>1, <2>4 DEF Copies, InUse
  <2>7. \A m \in Names : files'[m] = Torn => \E u \in Threads : CopiesTo(u, m)'
    <3> SUFFICES ASSUME NEW m \in Names, files'[m] = Torn PROVE \E u \in Threads : CopiesTo(u, m)'
      OBVIOUS
    <3>1. CASE m = n
      BY <2>5, <3>1 DEF CopiesTo
    <3>2. CASE m # n
      <4>1. PICK u \in Threads : CopiesTo(u, m)
        BY <1>0, <2>3, <3>2 DEF CopiesApart
      <4>2. u # t
        BY <2>1, <4>1 DEF CopiesTo
      <4>3. QED  BY <2>4, <4>1, <4>2 DEF CopiesTo
    <3>3. QED  BY <3>1, <3>2
  <2>8. ASSUME NEW u \in Threads, Copies(u)'
        PROVE  files'[thread'[u].name] = Torn /\ files'[thread'[u].other] \in Documents
    <3>1. CASE u = t
      BY <2>1, <2>2, <2>3, <2>5, <3>1
    <3>2. CASE u # t
      BY <1>0, <1>a, <2>3, <2>4, <2>6, <2>8, <3>2 DEF CopiesApart
    <3>3. QED  BY <3>1, <3>2
  <2>9. ASSUME NEW u \in Threads, NEW v \in Threads, Copies(u)', Copies(v)', u # v
        PROVE  thread'[u].name # thread'[v].name
    BY <1>0, <2>4, <2>5, <2>6, <2>9 DEF CopiesApart
  <2>10. QED  BY <2>7, <2>8, <2>9 DEF CopiesApart
<1>6. CASE CopyFindsNothing(t)
  <2>1. MovesTo(t, "idle") /\ thread[t].at = "copy" /\ files' = files
    BY <1>0, <1>6, Ended DEF CopyFindsNothing, fileVars
  <2>2. \A u \in Threads : (Copies(u)' <=> Copies(u)) /\ (Copies(u) => thread'[u] = thread[u])
    BY <2>1 DEF MovesTo, Copies
  <2>3. QED  BY <1>0, <2>1, <2>2, CopiesKept
<1>7. CASE CopyWrites(t)
  <2> DEFINE n == thread[t].name
  <2>1. MovesTo(t, "idle") /\ thread[t].at = "copying" /\ n \in Names
    BY <1>0, <1>7, Ended DEF CopyWrites, StageOK
  <2>2. files[n] = Torn /\ files[thread[t].other] \in Documents
    BY <1>0, <2>1 DEF CopiesApart, Copies
  <2>3. files' = [files EXCEPT ![n] = files[thread[t].other]]
    BY <1>7, <2>2 DEF CopyWrites
  <2>4. files'[n] \in Documents /\ \A m \in Names \ {n} : files'[m] = files[m]
    BY <1>0, <2>1, <2>2, <2>3 DEF TypeOK
  <2>5. \A u \in Threads \ {t} : thread'[u] = thread[u]
    BY <2>1 DEF MovesTo
  <2>6. \A u \in Threads : Copies(u)' => u # t /\ Copies(u) /\ thread'[u] = thread[u]
    BY <2>1, <2>5 DEF MovesTo, Copies
  <2>7. \A u \in Threads \ {t} : Copies(u) => thread[u].name # n /\ thread[u].other # n
    BY <1>0, <2>1, <2>2, StoredFacts DEF CopiesApart, Copies
  <2>8. ASSUME NEW m \in Names, files'[m] = Torn PROVE \E u \in Threads : CopiesTo(u, m)'
    <3>1. m # n
      BY <2>4, <2>8, StoredFacts
    <3>2. PICK u \in Threads : CopiesTo(u, m)
      BY <1>0, <2>4, <2>8, <3>1 DEF CopiesApart
    <3>3. u # t
      BY <3>1, <3>2 DEF CopiesTo
    <3>4. QED  BY <2>5, <3>2, <3>3 DEF CopiesTo
  <2>9. ASSUME NEW u \in Threads, Copies(u)'
        PROVE  files'[thread'[u].name] = Torn /\ files'[thread'[u].other] \in Documents
    BY <1>0, <1>a, <2>4, <2>6, <2>7, <2>9 DEF CopiesApart
  <2>10. ASSUME NEW u \in Threads, NEW v \in Threads, Copies(u)', Copies(v)', u # v
         PROVE  thread'[u].name # thread'[v].name
    BY <1>0, <2>6, <2>10 DEF CopiesApart
  <2>11. QED  BY <2>8, <2>9, <2>10 DEF CopiesApart
<1>8. CASE CopyBreaks(t)
  BY <1>8 DEF CopyBreaks
<1>9. QED  BY <1>1, <1>2, <1>3, <1>4, <1>5, <1>6, <1>7, <1>8 DEF FileStep, CopyStep

\* TornByTwoWriters for every number of requests: but for the target of a copy that is
\* under way, only two writers of one name at once or a copy that is broken off leave a
\* stored file torn.
THEOREM StoredWhole == Spec => []TornByTwoWriters
<1>1. TypeInv /\ WritersApart /\ CopiesApart /\ [Next]_vars => CopiesApart'
  <2>1. CopiesApart /\ UNCHANGED vars => CopiesApart'
    BY DEF CopiesApart, CopiesTo, Copies, vars, fileVars, histVars
  <2>2. CopiesApart /\ RunStep => CopiesApart'
    BY DEF RunStep, RunChecks, RunCreates, RunAdvances, RunDrives, RunEnds, CopiesApart, CopiesTo, Copies,
           fileVars, histVars
  <2>3. TypeInv /\ WritersApart /\ CopiesApart /\ Next => CopiesApart'
    BY Steps, CopiesBegins, CopiesFile, CopiesLoad, CopiesCalibration, <2>2 DEF TypeInv
  <2>4. QED  BY <2>1, <2>3
<1>2. CopiesApart => TornByTwoWriters
  BY DEF CopiesApart, TornByTwoWriters
<1>3. QED  BY CopiesInit, <1>1, <1>2, TypeInvariance, ApartInvariance, PTL DEF Spec

-----------------------------------------------------------------------------
(* Until two requests overlap, what a request saw when it began is still so. *)

BusyOK(t) ==
    /\ run.at = "idle" \/ (thread[t].op = "put" /\ run.at \in {"created", "driving"})
    /\ (thread[t].op \in Copying \ FromOutside /\ thread[t].at \notin {"read", "publish", "refresh"})
          => thread[t].copy = settings
    /\ (thread[t].op = "save" /\ thread[t].at # "refresh") => thread[t].name = settings.active
    /\ (thread[t].op = "create" \/ thread[t].at \in {"copy", "rename"}
          \/ (thread[t].op = "delete" /\ thread[t].at \in {"open", "write", "replace"}))
          => files[thread[t].name] = Missing
    /\ thread[t].at = "copying" => files[thread[t].name] = Torn
    /\ thread[t].op \in {"calibrate", "restore"} => t = Worker

Alone ==
    ~crossed =>
      /\ \A t, u \in Threads : Busy(t) /\ Busy(u) => t = u
      /\ \A t \in Threads : Busy(t) => BusyOK(t)
      /\ ~rewound => \A k \in used : k < settings.counter
      /\ run.at = "creating" => run.copy = settings

LEMMA AloneInit == Init => Alone
BY DEF Init, Alone, BusyOK, Busy, Idle, Stopped

LEMMA AloneBegins == TypeInv /\ Alone /\ BeginsStep => Alone'
<1> SUFFICES ASSUME TypeInv, Alone, ~crossed',
                    NEW t \in Threads, NEW name \in Names, NEW other \in Names \cup {0},
                    NEW op \in {"save", "create", "copy", "select", "delete", "rename", "put", "load", "import"},
                    NEW at \in {"open", "copy", "update", "unlink", "rename"},
                    BeginsAs(t, op, at, name, other)
             PROVE  Alone'
  BY DEF BeginsStep, Alone
<1>1. /\ ~crossed /\ (\A u \in Threads : ~Busy(u)) /\ run.at \notin {"starting", "creating"}
      /\ UNCHANGED <<run, settings, used, rewound, files>>
  BY DEF BeginsAs, Begins, TypeInv, TypeOK, fileVars
<1>2. /\ \A u \in Threads : u # t => thread'[u] = thread[u]
      /\ thread'[t].op = op /\ thread'[t].at = at /\ thread'[t].name = name
      /\ op \in Copying \ FromOutside => thread'[t].copy = settings
  BY Begun DEF BeginsAs, BegunAs, TypeInv
<1>3. BusyOK(t)'
  <2>1. run.at \in {"idle", "created", "driving"} /\ (op # "put" => run.at = "idle")
    BY <1>1 DEF TypeInv, TypeOK, BeginsAs, IsRunning
  <2>2. /\ op = "save" => name = settings.active
        /\ op = "create" \/ at \in {"copy", "rename"} => files[name] = Missing
        /\ op = "delete" => at = "unlink"
    BY DEF BeginsAs
  <2>3. QED  BY <1>1, <1>2, <2>1, <2>2 DEF BusyOK
<1>4. QED  BY <1>1, <1>2, <1>3 DEF Alone, Busy

\* A step of the one thread that is busy.
LEMMA AloneKept ==
    ASSUME Alone, NEW t \in Threads, Busy(t), ~crossed, UNCHANGED <<run, used>>,
           ~rewound' => \A k \in used : k < settings'.counter,
           \A u \in Threads : u # t => thread'[u] = thread[u],
           Busy(t)' => BusyOK(t)'
    PROVE  Alone'
<1>1. (\A u \in Threads : u # t => ~Busy(u)) /\ run.at # "creating"
  BY DEF Alone, BusyOK
<1>2. \A u \in Threads : Busy(u)' => u = t
  BY <1>1 DEF Busy
<1>3. QED  BY <1>1, <1>2 DEF Alone

LEMMA AloneFile == ASSUME NEW t \in Threads PROVE TypeInv /\ Alone /\ FileStep(t) => Alone'
<1> SUFFICES ASSUME TypeInv, Alone, FileStep(t), ~crossed' PROVE Alone'
  BY DEF Alone
<1>0. /\ TypeOK /\ StageOK(t) /\ Busy(t) /\ ~crossed
      /\ UNCHANGED <<run, used, rewound, settings>>
  BY DEF TypeInv, StagesOK, TypeOK, FileStep, CopyStep, Open, Write, Replace, ReplaceFails, CopyOpens,
         CopyFindsNothing, CopyWrites, CopyBreaks, Unlink, Rename, Busy, histVars
<1>1. BusyOK(t)
  BY <1>0 DEF Alone
<1>2. (\A u \in Threads : u # t => thread'[u] = thread[u]) /\ (Busy(t)' => BusyOK(t)')
  <2>1. CASE Open(t)
    <3>1. MovesTo(t, "write") /\ thread[t].at = "open" /\ files' = files
      BY <1>0, <2>1, Moves DEF Open, Places
    <3>2. QED  BY <1>0, <1>1, <3>1 DEF MovesTo, BusyOK
  <2>2. CASE Write(t)
    <3>1. MovesTo(t, "replace") /\ thread[t].at = "write" /\ files' = files
      BY <1>0, <2>2, Moves DEF Write, Places
    <3>2. QED  BY <1>0, <1>1, <3>1 DEF MovesTo, BusyOK
  <2>3. CASE Replace(t)
    <3>1. /\ thread[t].at = "replace" /\ thread[t].op \in Writing
          /\ thread[t].op = "save" => AfterWriting[thread[t].op] = "read"
          /\ thread[t].op \in {"create", "import"} => AfterWriting[thread[t].op] = "idle"
          /\ thread[t].op = "delete" => AfterWriting[thread[t].op] = "update"
      BY <1>0, <2>3 DEF Replace, StageOK, AfterWriting
    <3>2. MovesTo(t, AfterWriting[thread[t].op])
      BY <1>0, <2>3, <3>1, Moves DEF Replace, Places, Writing
    <3>3. QED  BY <1>0, <1>1, <3>1, <3>2 DEF MovesTo, BusyOK, Busy, Writing, Copying
  <2>8. CASE CopyOpens(t)
    <3>1. MovesTo(t, "copying") /\ thread[t].at = "copy" /\ thread[t].op = "copy"
      BY <1>0, <2>8, Moves DEF CopyOpens, Places, StageOK
    <3>2. files'[thread[t].name] = Torn
      BY <1>0, <2>8, <3>1 DEF CopyOpens, TypeOK, StageOK
    <3>3. QED  BY <1>0, <1>1, <3>1, <3>2 DEF MovesTo, BusyOK, Copying
  <2>4. CASE ReplaceFails(t) \/ CopyFindsNothing(t) \/ CopyWrites(t) \/ CopyBreaks(t)
    <3>1. MovesTo(t, "idle")
      BY <1>0, <2>4, Ended DEF ReplaceFails, CopyFindsNothing, CopyWrites, CopyBreaks
    <3>2. QED  BY <3>1 DEF MovesTo, Busy
  <2>5. CASE Unlink(t)
    <3>1. UnlinksTo(t) /\ thread[t].op = "delete" /\ thread[t].at = "unlink"
      BY <1>0, <2>5, Unlinks DEF Unlink, StageOK
    <3>2. QED  BY <1>0, <1>1, <3>1 DEF UnlinksTo, BusyOK, Busy, Copying
  <2>6. CASE Rename(t)
    <3>1. (MovesTo(t, "idle") \/ MovesTo(t, "update")) /\ thread[t].op = "rename" /\ thread[t].at = "rename"
      BY <1>0, <2>6, Moves DEF Rename, Places, StageOK
    <3>2. QED  BY <1>0, <1>1, <3>1 DEF MovesTo, BusyOK, Busy, Copying
  <2>7. QED  BY <2>1, <2>2, <2>3, <2>4, <2>5, <2>6, <2>8 DEF FileStep, CopyStep
<1>3. ~rewound' => \A k \in used : k < settings'.counter
  BY <1>0 DEF Alone
<1>4. QED  BY <1>0, <1>2, <1>3, AloneKept

LEMMA AloneLoad == ASSUME NEW t \in Threads PROVE TypeInv /\ Alone /\ LoadStep(t) => Alone'
<1> SUFFICES ASSUME TypeInv, Alone, LoadStep(t), ~crossed' PROVE Alone'
  BY DEF Alone
<1>0. /\ TypeOK /\ StageOK(t) /\ Busy(t) /\ ~crossed
      /\ UNCHANGED <<run, used, files>>
  BY DEF TypeInv, StagesOK, TypeOK, LoadStep, Update, Read, Publish, Refresh, Busy, histVars, fileVars
<1>1. BusyOK(t)
  BY <1>0 DEF Alone
<1>2. /\ \A u \in Threads : u # t => thread'[u] = thread[u]
      /\ Busy(t)' => BusyOK(t)'
      /\ ~rewound' => \A k \in used : k < settings'.counter
  <2>a. ~rewound => \A k \in used : k < settings.counter
    BY <1>0 DEF Alone
  <2>1. CASE Update(t)
    <3>1. /\ MovesTo(t, "read") \/ MovesTo(t, "idle")
          /\ thread[t].at = "update" /\ thread[t].op \in Copying /\ thread[t].copy \in Settings
      BY <1>0, <2>1, Moves, Ended DEF Update, Places, StageOK
    <3>2. settings'.counter = thread[t].copy.counter /\ settings'.counter \in Nat
      BY <2>1, <3>1 DEF Update, Settings
    <3>3. ASSUME ~rewound' PROVE \A k \in used : k < settings'.counter
      <4>1. CASE thread[t].op \in FromOutside
        <5>1. \A k \in used : ~(thread[t].copy.counter <= k)
          BY <2>1, <3>3, <4>1 DEF Update
        <5>2. used \subseteq Nat
          BY <1>0 DEF TypeOK
        <5>3. QED  BY <3>2, <5>1, <5>2
      <4>2. CASE thread[t].op \notin FromOutside
        <5>1. thread[t].copy = settings /\ ~rewound
          BY <1>1, <2>1, <3>1, <3>3, <4>2 DEF Update, BusyOK
        <5>2. QED  BY <2>a, <3>2, <5>1
      <4>3. QED  BY <4>1, <4>2
    <3>4. Busy(t)' => BusyOK(t)'
      BY <1>0, <1>1, <3>1 DEF MovesTo, BusyOK, Busy, Copying
    <3>5. QED  BY <3>1, <3>3, <3>4 DEF MovesTo
  <2>2. CASE Read(t)
    <3>1. ReadsTo(t) /\ thread[t].at = "read" /\ UNCHANGED <<settings, rewound>>
      BY <2>2, Reads DEF Read, histVars
    <3>2. QED  BY <1>0, <1>1, <2>a, <3>1 DEF ReadsTo, BusyOK, Busy, StageOK
  <2>3. CASE Publish(t)
    <3>1. Publishes(t) /\ thread[t].at = "publish" /\ UNCHANGED <<settings, rewound>>
      BY <1>0, <2>3, Published DEF Publish, histVars
    <3>2. thread[t].op = "calibrate" => t = Worker
      BY <1>0, <1>1 DEF BusyOK
    <3>a. CASE MovesTo(t, "idle")
      BY <2>a, <3>1, <3>a DEF MovesTo, Busy
    <3>b. CASE ~MovesTo(t, "idle")
      <4>1. thread[t].op # "put" /\ (MovesTo(t, "prepare") \/ MovesTo(t, "refresh"))
        BY <3>1, <3>b DEF Publishes
      <4>2. /\ thread'[t].op = thread[t].op /\ thread'[t].at \in {"prepare", "refresh"}
            /\ thread'[t].copy = thread[t].copy /\ thread'[t].name = thread[t].name
            /\ thread'[t].op \notin Copying \ FromOutside \/ thread'[t].at = "refresh"
            /\ thread'[t].op # "save" \/ thread'[t].at = "refresh"
            /\ thread'[t].op # "create"
        BY <1>0, <3>1, <4>1 DEF Publishes, MovesTo, StageOK, Copying
      <4>3. run.at = "idle"
        BY <1>1, <4>1 DEF BusyOK
      <4>4. BusyOK(t)'
        BY <1>0, <1>1, <3>2, <4>2, <4>3 DEF BusyOK
      <4>5. QED  BY <2>a, <3>1, <4>1, <4>4 DEF MovesTo
    <3>3. QED  BY <3>a, <3>b
  <2>4. CASE Refresh(t)
    <3>1. MovesTo(t, "idle") /\ UNCHANGED <<settings, rewound>>
      BY <1>0, <2>4, Ended DEF Refresh, histVars
    <3>2. QED  BY <2>a, <3>1 DEF MovesTo, Busy
  <2>5. QED  BY <2>1, <2>2, <2>3, <2>4 DEF LoadStep
<1>3. QED  BY <1>0, <1>2, AloneKept

LEMMA AloneRun == TypeInv /\ Alone /\ RunStep => Alone'
<1> SUFFICES ASSUME TypeInv, Alone, RunStep, ~crossed' PROVE Alone'
  BY DEF Alone
<1>0. /\ TypeOK /\ run \in Runs /\ ~crossed /\ UNCHANGED <<thread, files, rewound>>
  BY DEF TypeInv, TypeOK, Runs, RunStep, RunChecks, RunCreates, RunAdvances, RunDrives, RunEnds, fileVars,
         histVars
<1>1. run.at \in {"starting", "creating"} => \A t \in Threads : ~Busy(t)
  BY <1>0 DEF Alone, BusyOK
<1>2. CASE RunChecks
  <2>1. (\A t \in Threads : ~Busy(t)) /\ settings' = settings /\ used' = used /\ run'.at = "starting"
    BY <1>0, <1>2 DEF RunChecks, Runs
  <2>2. QED  BY <1>0, <2>1 DEF Alone, Busy
<1>3. CASE RunCreates
  <2>1. (\A t \in Threads : ~Busy(t)) /\ settings' = settings /\ used' = used /\ run'.copy = settings
    BY <1>0, <1>1, <1>3 DEF RunCreates, Runs, histVars
  <2>2. QED  BY <1>0, <2>1 DEF Alone, Busy
<1>4. CASE RunAdvances
  <2>1. /\ \A t \in Threads : ~Busy(t)
        /\ run.copy = settings /\ run'.at = "created" /\ used' = used \cup {settings.counter}
        /\ settings' = [settings EXCEPT !.counter = @ + 1]
    BY <1>0, <1>1, <1>4 DEF RunAdvances, Stopped, Alone
  <2>2. settings'.counter = settings.counter + 1 /\ settings.counter \in Nat /\ used \subseteq Nat
    BY <1>0, <2>1 DEF TypeOK, Settings
  <2>3. ~rewound => \A k \in used' : k < settings'.counter
    BY <1>0, <2>1, <2>2 DEF Alone
  <2>4. QED  BY <1>0, <2>1, <2>3 DEF Alone, Busy
<1>5. CASE RunDrives \/ RunEnds
  <2>1. /\ settings' = settings /\ used' = used
        /\ run'.at = "idle" \/ (run.at = "created" /\ run'.at = "driving")
    <3>1. CASE RunDrives
      BY <1>0, <3>1 DEF RunDrives, Stopped, Runs, histVars
    <3>2. CASE RunEnds
      BY <1>0, <3>2 DEF RunEnds, Stopped, histVars
    <3>3. QED  BY <1>5, <3>1, <3>2
  <2>2. \A t \in Threads : Busy(t)' => BusyOK(t)'
    BY <1>0, <2>1 DEF Alone, Busy, BusyOK
  <2>3. QED  BY <1>0, <2>1, <2>2 DEF Alone, Busy
<1>6. QED  BY <1>2, <1>3, <1>4, <1>5 DEF RunStep

LEMMA AloneCalibration == TypeInv /\ Alone /\ CalibrationStep => Alone'
<1> SUFFICES ASSUME TypeInv, Alone, CalibrationStep, ~crossed' PROVE Alone'
  BY DEF Alone
<1>0. /\ TypeOK /\ ~crossed /\ Worker \in Threads /\ StageOK(Worker)
      /\ UNCHANGED <<run, used, rewound, settings, files>>
  BY DEF TypeInv, StagesOK, Threads, TypeOK, CalibrationStep, CalibrationBegins, CalibrationStarts,
         CalibrationFails, CalibrationEnds, fileVars, histVars
<1>a. ~rewound' => \A k \in used : k < settings'.counter
  BY <1>0 DEF Alone
<1>1. CASE CalibrationBegins
  <2>1. CalibrationBegun /\ (\A t \in Threads : ~Busy(t)) /\ run.at = "idle"
    BY <1>0, <1>1, CalibrationBegan DEF CalibrationBegins
  <2>2. BusyOK(Worker)'
    BY <1>0, <2>1 DEF CalibrationBegun, BusyOK, Copying
  <2>3. \A t \in Threads : Busy(t)' => t = Worker
    BY <2>1 DEF CalibrationBegun, Busy
  <2>4. QED  BY <1>0, <1>a, <2>1, <2>2, <2>3 DEF Alone
<1>2. CASE CalibrationStarts \/ CalibrationFails
  <2>1. /\ MovesTo(Worker, "calibrating") \/ MovesTo(Worker, "idle")
        /\ thread[Worker].at = "prepare"
    BY <1>0, <1>2, Moves, Ended DEF CalibrationStarts, CalibrationFails, Places
  <2>2. Busy(Worker) /\ BusyOK(Worker) /\ thread[Worker].op = "calibrate"
    BY <1>0, <2>1 DEF Alone, Busy, StageOK
  <2>3. Busy(Worker)' => BusyOK(Worker)'
    BY <1>0, <2>1, <2>2 DEF MovesTo, BusyOK, Busy, Copying
  <2>4. \A u \in Threads : u # Worker => thread'[u] = thread[u]
    BY <2>1 DEF MovesTo
  <2>5. QED  BY <1>0, <1>a, <2>2, <2>3, <2>4, AloneKept
<1>3. CASE CalibrationEnds
  <2>1. CalibrationRestores /\ thread[Worker].at = "calibrating"
    BY <1>0, <1>3, CalibrationRestored DEF CalibrationEnds
  <2>2. Busy(Worker) /\ BusyOK(Worker) /\ thread[Worker].op = "calibrate"
    BY <1>0, <2>1 DEF Alone, Busy, StageOK
  <2>3. BusyOK(Worker)'
    BY <1>0, <2>1, <2>2 DEF CalibrationRestores, BusyOK, Copying
  <2>4. QED  BY <1>0, <1>a, <2>1, <2>2, <2>3, AloneKept DEF CalibrationRestores
<1>4. QED  BY <1>1, <1>2, <1>3 DEF CalibrationStep

LEMMA AloneInvariance == Spec => []Alone
<1>1. TypeInv /\ Alone /\ [Next]_vars => Alone'
  <2>1. Alone /\ UNCHANGED vars => Alone'
    BY DEF Alone, Busy, BusyOK, vars, fileVars, histVars
  <2>2. TypeInv /\ Alone /\ Next => Alone'
    BY Steps, AloneBegins, AloneFile, AloneLoad, AloneCalibration, AloneRun DEF TypeInv
  <2>3. QED  BY <2>1, <2>2
<1>2. QED  BY AloneInit, <1>1, TypeInvariance, PTL DEF Spec

\* ProjectNumberIsNew for every number of requests and runs: while no two of them
\* overlap, and no form or stored project writes back a counter that some number used
\* is not below, no project is created under a number that has been used.
THEOREM NumbersAreNew == Spec => []ProjectNumberIsNew
<1>1. TypeInv /\ Alone => ProjectNumberIsNew
  <2> SUFFICES ASSUME TypeInv, Alone, run.at = "creating", ~crossed, ~rewound, run.copy.counter \in used PROVE FALSE
    BY DEF ProjectNumberIsNew
  <2>1. settings.counter \in used /\ settings.counter \in Nat
    BY DEF Alone, TypeInv, TypeOK, Settings
  <2>2. settings.counter < settings.counter
    BY <2>1 DEF Alone
  <2>3. QED  BY <2>1, <2>2
<1>2. QED  BY <1>1, TypeInvariance, AloneInvariance, PTL

\* NothingOverwritten for every number of requests: while no two overlap, a stored
\* document goes only by a save, an import, a delete or a rename of its own name, and a
\* copy puts its document only where it has begun to.
THEOREM NothingLost == Spec => NothingOverwritten
<1> DEFINE Kept ==
        \A n \in Names :
          (files[n] # Missing /\ files'[n] # files[n] /\ ~crossed) =>
              \E t \in Threads :
                 \/ thread[t].op \in {"save", "import"} /\ thread[t].name = n
                 \/ thread[t].at = "copying" /\ thread[t].name = n
                 \/ thread[t].op = "delete" /\ files'[n] = Missing
                 \/ thread[t].op = "rename" /\ thread[t].other = n /\ files'[thread[t].name] = files[n]
<1>1. TypeInv /\ Alone /\ [Next]_vars => [Kept]_vars
  <2> SUFFICES ASSUME TypeInv, Alone, Next, NEW n \in Names,
                      files[n] # Missing, files'[n] # files[n], ~crossed
               PROVE  \E t \in Threads :
                        \/ thread[t].op \in {"save", "import"} /\ thread[t].name = n
                        \/ thread[t].at = "copying" /\ thread[t].name = n
                        \/ thread[t].op = "delete" /\ files'[n] = Missing
                        \/ thread[t].op = "rename" /\ thread[t].other = n /\ files'[thread[t].name] = files[n]
    OBVIOUS
  <2>1. TypeOK /\ files' # files /\ files \in [Names -> Stored]
    BY DEF TypeInv, TypeOK
  <2>2. PICK t \in Threads : Replace(t) \/ CopyOpens(t) \/ CopyWrites(t) \/ Unlink(t) \/ Rename(t)
    <3>1. ~BeginsStep /\ ~RunStep /\ ~CalibrationStep
      BY <2>1 DEF BeginsStep, BeginsAs, Begins, RunStep, RunChecks, RunCreates, RunAdvances, RunDrives, RunEnds,
                    CalibrationStep, CalibrationBegins, CalibrationStarts, CalibrationFails, CalibrationEnds, fileVars
    <3>2. \A t \in Threads : ~LoadStep(t) /\ ~Open(t) /\ ~Write(t) /\ ~ReplaceFails(t)
                            /\ ~CopyFindsNothing(t) /\ ~CopyBreaks(t)
      BY <2>1 DEF LoadStep, Update, Read, Publish, Refresh, Open, Write, ReplaceFails, CopyFindsNothing,
             CopyBreaks,
                  fileVars
    <3>3. QED  BY <2>1, <3>1, <3>2, Steps DEF FileStep, CopyStep
  <2>3. StageOK(t) /\ BusyOK(t)
    BY <2>2 DEF TypeInv, StagesOK, Alone, Busy, Replace, CopyOpens, CopyFindsNothing, CopyWrites,
           CopyBreaks, Unlink, Rename
  <2>4. CASE Replace(t)
    <3>1. n = thread[t].name /\ thread[t].op \in Writing
      BY <2>1, <2>3, <2>4 DEF Replace, StageOK
    <3>2. thread[t].op \in {"save", "import"}
      BY <2>3, <2>4, <3>1 DEF Replace, BusyOK, Writing
    <3>3. QED  BY <3>1, <3>2
  <2>5. CASE CopyOpens(t)
    <3>1. n = thread[t].name /\ thread[t].at = "copy"
      BY <2>1, <2>3, <2>5 DEF CopyOpens, StageOK, TypeOK
    <3>2. QED  BY <2>3, <3>1 DEF BusyOK
  <2>9. CASE CopyWrites(t)
    <3>1. n = thread[t].name /\ thread[t].at = "copying"
      BY <2>1, <2>3, <2>9 DEF CopyWrites, StageOK
    <3>2. QED  BY <3>1
  <2>6. CASE Unlink(t)
    <3>1. n = thread[t].name /\ files'[n] = Missing /\ thread[t].op = "delete"
      BY <2>1, <2>3, <2>6 DEF Unlink, StageOK
    <3>2. QED  BY <3>1
  <2>7. CASE Rename(t)
    <3> DEFINE from == thread[t].other
               to == thread[t].name
    <3>1. /\ files[from] # Missing /\ files[to] = Missing
          /\ files' = [files EXCEPT ![to] = files[from], ![from] = Missing]
      BY <2>1, <2>7 DEF Rename
    <3>2. from \in Names /\ to \in Names /\ from # to /\ thread[t].op = "rename"
      BY <2>3, <2>7, <3>1 DEF Rename, StageOK
    <3>3. files'[to] = files[from] /\ (\A m \in Names \ {from, to} : files'[m] = files[m])
      BY <2>1, <3>1, <3>2 DEF TypeOK
    <3>4. n = from
      BY <3>1, <3>3
    <3>5. QED  BY <3>2, <3>3, <3>4
  <2>8. QED  BY <2>2, <2>4, <2>5, <2>9, <2>6, <2>7
<1>2. QED  BY <1>1, TypeInvariance, AloneInvariance, PTL DEF Spec, NothingOverwritten

-----------------------------------------------------------------------------
(* And the loaded trajectory and the client's points are those of the active *)
(* file, until it is imported over or changed by a settings request.         *)

\* The threads that have changed the active file or its name, and not yet loaded it.
Stale(t) ==
    \/ thread[t].at \in {"read", "publish", "prepare", "calibrating"}
    \/ thread[t].op \in {"delete", "rename"} /\ thread[t].at \in {"open", "write", "replace", "update"}

Loads ==
    (~crossed /\ ~behind) =>
      /\ \A t \in Threads : (thread[t].op = "put" /\ Busy(t)) => thread[t].at = "update"
      /\ \A t \in Threads : (thread[t].at = "publish" /\ thread[t].op # "calibrate")
                              => thread[t].doc = files[settings.active]
      /\ (\A t \in Threads : ~Stale(t)) => snapshot \in {files[settings.active], Missing}
      /\ (\A t \in Threads : thread[t].at \notin {"refresh", "prepare"}) => snapshot \in {points, Missing}
      /\ run.at \in {"starting", "creating", "created"} => snapshot # Missing
      /\ run.at = "driving" => run.doc = run.driven
LEMMA LoadsInit == Init => Loads
BY StoredFacts, NameFacts DEF Init, Loads, Stale, Busy, Idle, Stopped, Missing

LEMMA LoadsBegins == TypeInv /\ Loads /\ BeginsStep => Loads'
<1> SUFFICES ASSUME TypeInv, Loads, ~crossed', ~behind',
                    NEW t \in Threads, NEW name \in Names, NEW other \in Names \cup {0},
                    NEW op \in {"save", "create", "copy", "select", "delete", "rename", "put", "load", "import"},
                    NEW at \in {"open", "copy", "update", "unlink", "rename"},
                    BeginsAs(t, op, at, name, other)
             PROVE  Loads'
  BY DEF BeginsStep, Loads
<1>1. /\ ~crossed /\ ~behind /\ (\A u \in Threads : ~Busy(u))
      /\ UNCHANGED <<run, settings, files, snapshot, points>>
  BY DEF BeginsAs, Begins, TypeInv, TypeOK, fileVars, loadVars
<1>2. /\ \A u \in Threads : u # t => thread'[u] = thread[u]
      /\ thread'[t].op = op /\ thread'[t].at = at
  BY Begun DEF BeginsAs, BegunAs, TypeInv
<1>3. op = "put" => at = "update"
  BY DEF BeginsAs
<1>4. \A u \in Threads : ~Stale(u) /\ thread[u].at \notin {"refresh", "prepare"}
  BY <1>1 DEF Busy, Stale
<1>5. QED  BY <1>1, <1>2, <1>3, <1>4 DEF Loads, Busy, Stale

\* A step of the one thread that is busy, before and after it.
LEMMA LoadsKept ==
    ASSUME Alone, Loads, NEW t \in Threads, Busy(t), ~crossed, ~behind, run' = run,
           \A u \in Threads : u # t => thread'[u] = thread[u],
           (thread'[t].op = "put" /\ Busy(t)') => thread'[t].at = "update",
           (thread'[t].at = "publish" /\ thread'[t].op # "calibrate") => thread'[t].doc = files'[settings'.active],
           ~Stale(t)' => snapshot' \in {files'[settings'.active], Missing},
           thread'[t].at \notin {"refresh", "prepare"} => snapshot' \in {points', Missing},
           run.at \in {"starting", "creating", "created"} => snapshot' # Missing
    PROVE  Loads'
<1>1. \A u \in Threads : u # t => ~Busy(u) /\ ~Busy(u)'
  BY DEF Alone, Busy
<1>2. QED  BY <1>1 DEF Loads, Busy

LEMMA LoadsFile ==
    ASSUME NEW t \in Threads PROVE TypeInv /\ Alone /\ Loads /\ FileStep(t) => Loads'
<1> SUFFICES ASSUME TypeInv, Alone, Loads, FileStep(t), ~crossed', ~behind' PROVE Loads'
  BY DEF Loads
<1>0. /\ TypeOK /\ StageOK(t) /\ Busy(t) /\ ~crossed /\ ~behind
      /\ UNCHANGED <<run, settings, snapshot, points>>
  BY DEF TypeInv, StagesOK, TypeOK, FileStep, CopyStep, Open, Write, Replace, ReplaceFails, CopyOpens,
         CopyFindsNothing, CopyWrites, CopyBreaks, Unlink, Rename, Busy,
         histVars, loadVars
<1>1. /\ BusyOK(t) /\ (\A u \in Threads : u # t => ~Busy(u)) /\ settings.active \in Names
      /\ thread[t].at \in {"open", "write", "replace", "copy", "copying", "unlink", "rename"}
  BY <1>0 DEF Alone, TypeOK, Settings, FileStep, CopyStep, Open, Write, Replace, ReplaceFails, CopyOpens,
         CopyFindsNothing, CopyWrites, CopyBreaks, Unlink, Rename
<1>2. /\ thread[t].op \in Writing \cup {"copy", "rename"} /\ thread[t].name \in Names
      /\ thread[t].op = "rename" => thread[t].at = "rename"
  BY <1>0, <1>1 DEF StageOK, Writing
<1>3. /\ \A u \in Threads : u # t => ~Stale(u) /\ thread[u].at \notin {"refresh", "prepare"}
      /\ thread[t].at \notin {"refresh", "prepare"}
  BY <1>1 DEF Busy, Stale
<1>4. /\ ~Stale(t) => snapshot \in {files[settings.active], Missing}
      /\ snapshot \in {points, Missing}
      /\ run.at \in {"starting", "creating", "created"} => snapshot # Missing
  BY <1>0, <1>3 DEF Loads
<1>5. /\ \A u \in Threads : u # t => thread'[u] = thread[u]
      /\ thread'[t].op = "put" => ~Busy(t)'
      /\ thread'[t].at # "publish"
      /\ ~Stale(t)' => snapshot \in {files'[settings.active], Missing}
  <2>1. CASE Open(t)
    <3>1. MovesTo(t, "write") /\ files' = files /\ thread[t].at = "open"
      BY <1>0, <2>1, Moves DEF Open, Places
    <3>2. QED  BY <1>1, <1>2, <1>4, <3>1 DEF MovesTo, Stale, Writing
  <2>2. CASE Write(t)
    <3>1. MovesTo(t, "replace") /\ files' = files /\ thread[t].at = "write"
      BY <1>0, <2>2, Moves DEF Write, Places
    <3>2. QED  BY <1>1, <1>2, <1>4, <3>1 DEF MovesTo, Stale, Writing
  <2>3. CASE Replace(t)
    <3>1. /\ thread[t].at = "replace" /\ thread[t].op \in Writing
          /\ thread[t].op = "save" => AfterWriting[thread[t].op] = "read"
          /\ thread[t].op \in {"create", "import"} => AfterWriting[thread[t].op] = "idle"
          /\ thread[t].op = "delete" => AfterWriting[thread[t].op] = "update"
      BY <1>0, <2>3 DEF Replace, StageOK, AfterWriting
    <3>2. MovesTo(t, AfterWriting[thread[t].op])
      BY <1>0, <2>3, <3>1, Moves DEF Replace, Places, Writing
    <3>3. /\ \A m \in Names : m # thread[t].name => files'[m] = files[m]
          /\ thread[t].op = "import" => thread[t].name # settings.active
          /\ thread[t].op = "create" => files[thread[t].name] = Missing
      BY <1>0, <1>1, <2>3 DEF Replace, TypeOK, BusyOK
    <3>4. QED  BY <1>1, <1>2, <1>4, <3>1, <3>2, <3>3 DEF MovesTo, Stale, Busy, Writing
  <2>4. CASE ReplaceFails(t)
    <3>1. MovesTo(t, "idle") /\ files' = files /\ thread[t].op \in Writing \ {"delete"} /\ thread[t].at = "replace"
      BY <1>0, <1>2, <2>4, Ended DEF ReplaceFails, StageOK
    <3>2. QED  BY <1>4, <3>1 DEF MovesTo, Stale, Writing
  <2>5. CASE CopyOpens(t)
    <3>1. MovesTo(t, "copying") /\ thread[t].op = "copy" /\ thread[t].at = "copy" /\ files[thread[t].name] = Missing
      BY <1>0, <1>1, <2>5, Moves DEF CopyOpens, Places, StageOK, BusyOK
    <3>2. \A m \in Names : m # thread[t].name => files'[m] = files[m]
      BY <1>0, <2>5 DEF CopyOpens, TypeOK
    <3>3. QED  BY <1>1, <1>4, <3>1, <3>2 DEF MovesTo, Stale
  <2>9. CASE CopyWrites(t)
    <3>1. MovesTo(t, "idle") /\ thread[t].op = "copy" /\ thread[t].at = "copying" /\ files[thread[t].name] = Torn
      BY <1>0, <1>1, <2>9, Ended DEF CopyWrites, StageOK, BusyOK
    <3>2. \A m \in Names : m # thread[t].name => files'[m] = files[m]
      BY <1>0, <2>9 DEF CopyWrites, TypeOK
    <3>3. snapshot # Torn
      BY <1>0, StoredFacts DEF TypeOK
    <3>4. QED  BY <1>1, <1>4, <3>1, <3>2, <3>3 DEF MovesTo, Stale
  <2>10. CASE CopyFindsNothing(t) \/ CopyBreaks(t)
    <3>1. MovesTo(t, "idle") /\ thread[t].op = "copy" /\ thread[t].at \in {"copy", "copying"} /\ files' = files
      BY <1>0, <2>10, Ended DEF CopyFindsNothing, CopyBreaks, StageOK, fileVars
    <3>2. QED  BY <1>4, <3>1 DEF MovesTo, Stale
  <2>6. CASE Unlink(t)
    <3>1. UnlinksTo(t) /\ thread[t].op = "delete" /\ thread[t].at = "unlink" /\ thread[t].copy = settings
      BY <1>0, <1>1, <2>6, Unlinks DEF Unlink, StageOK, BusyOK, Copying, FromOutside
    <3>2. \A m \in Names : m # thread[t].name => files'[m] = files[m]
      BY <1>0, <1>2, <2>6 DEF Unlink, TypeOK
    <3>3. QED  BY <1>1, <1>4, <3>1, <3>2 DEF UnlinksTo, Stale, Busy
  <2>7. CASE Rename(t)
    <3> DEFINE from == thread[t].other
               to == thread[t].name
               renamed == files[from] # Missing /\ files[to] = Missing /\ ~InUse(from)
    <3>1. /\ thread[t].op = "rename" /\ thread[t].at = "rename" /\ thread[t].copy = settings
          /\ from \in Names /\ to \in Names
      BY <1>0, <1>1, <2>7 DEF Rename, StageOK, BusyOK, Copying, FromOutside
    <3>2. CASE renamed /\ settings.active = from
      <4>1. MovesTo(t, "update")
        BY <1>0, <2>7, <3>1, <3>2, Moves DEF Rename, Places
      <4>2. QED  BY <3>1, <4>1 DEF MovesTo, Stale
    <3>3. CASE ~(renamed /\ settings.active = from)
      <4>1. MovesTo(t, "idle")
        BY <1>0, <2>7, <3>1, <3>3, Moves DEF Rename, Places
      <4>2. \A m \in Names : m # from /\ files[m] # Missing => files'[m] = files[m]
        BY <1>0, <2>7, <3>1 DEF Rename, TypeOK
      <4>3. ~renamed => files' = files
        BY <2>7 DEF Rename
      <4>4. QED  BY <1>1, <1>4, <3>1, <3>3, <4>1, <4>2, <4>3 DEF MovesTo, Stale
    <3>4. QED  BY <3>2, <3>3
  <2>8. QED  BY <2>1, <2>2, <2>3, <2>4, <2>5, <2>9, <2>10, <2>6, <2>7 DEF FileStep, CopyStep
<1>6. QED  BY <1>0, <1>4, <1>5, LoadsKept

LEMMA LoadsLoad ==
    ASSUME NEW t \in Threads PROVE TypeInv /\ Alone /\ Loads /\ LoadStep(t) => Loads'
<1> SUFFICES ASSUME TypeInv, Alone, Loads, LoadStep(t), ~crossed', ~behind' PROVE Loads'
  BY DEF Loads
<1>0. /\ TypeOK /\ StageOK(t) /\ Busy(t) /\ ~crossed /\ ~behind
      /\ UNCHANGED <<run, files>>
  BY DEF TypeInv, StagesOK, TypeOK, LoadStep, Update, Read, Publish, Refresh, Busy, histVars, fileVars
<1>1. /\ BusyOK(t) /\ (\A u \in Threads : u # t => ~Busy(u)) /\ settings.active \in Names
      /\ thread[t].at \in {"update", "read", "publish", "refresh"}
      /\ thread[t].op = "put" => thread[t].at = "update"
  BY <1>0 DEF Alone, Loads, TypeOK, Settings, LoadStep, Update, Read, Publish, Refresh
<1>2. \A u \in Threads : u # t => ~Stale(u) /\ thread[u].at \notin {"refresh", "prepare"}
  BY <1>1 DEF Busy, Stale
<1>3. /\ ~Stale(t) => snapshot \in {files[settings.active], Missing}
      /\ thread[t].at \notin {"refresh", "prepare"} => snapshot \in {points, Missing}
      /\ run.at \in {"starting", "creating", "created"} => snapshot # Missing
      /\ (thread[t].at = "publish" /\ thread[t].op # "calibrate") => thread[t].doc = files[settings.active]
  BY <1>0, <1>2 DEF Loads
<1>4. CASE Update(t)
  <2>1. /\ MovesTo(t, "read") /\ thread[t].at = "update" /\ thread[t].op # "put"
        /\ UNCHANGED <<snapshot, points>>
    BY <1>0, <1>4, Moves DEF Update, Places, loadVars
  <2>2. QED  BY <1>0, <1>3, <2>1, LoadsKept DEF MovesTo, Stale
<1>5. CASE Read(t)
  <2>1. ReadsTo(t) /\ thread[t].at = "read" /\ UNCHANGED <<snapshot, points, settings>>
    BY <1>5, Reads DEF Read, loadVars
  <2>2. thread[t].op # "calibrate" => thread'[t].doc = files[settings.active]
    BY <1>1, <2>1 DEF ReadsTo, BusyOK
  <2>3. QED  BY <1>0, <1>1, <1>3, <2>1, <2>2, LoadsKept DEF ReadsTo, Stale
<1>6. CASE Publish(t)
  <2>1. /\ thread[t].at = "publish" /\ thread[t].op # "put" /\ run.at = "idle"
        /\ UNCHANGED <<points, settings>>
    BY <1>1, <1>6 DEF Publish, BusyOK
  <2>2. CASE thread[t].op = "calibrate"
    <3>1. MovesTo(t, "prepare")
      BY <1>0, <1>6, <2>2, Published DEF Publishes
    <3>2. QED  BY <1>0, <1>1, <2>1, <2>2, <3>1, LoadsKept DEF MovesTo, Stale
  <2>3. CASE thread[t].op # "calibrate"
    <3>1. MovesTo(t, "refresh")
      BY <1>0, <1>6, <2>1, <2>3, Published DEF Publishes
    <3>2. snapshot' \in {files[settings.active], Missing}
      BY <1>3, <1>6, <2>1, <2>3 DEF Publish
    <3>3. QED  BY <1>0, <1>1, <2>1, <3>1, <3>2, LoadsKept DEF MovesTo
  <2>4. QED  BY <2>2, <2>3
<1>7. CASE Refresh(t)
  <2>1. /\ MovesTo(t, "idle") /\ thread[t].at = "refresh" /\ UNCHANGED <<snapshot, settings>>
        /\ run.at = "idle" /\ points' = IF snapshot = Missing THEN points ELSE snapshot
    <3>1. thread[Worker].at # "calibrating"
      BY <1>1, <1>7 DEF Refresh, Busy, Threads
    <3>2. QED  BY <1>0, <1>1, <1>7, <3>1, Ended DEF Refresh, BusyOK, IsRunning
  <2>2. QED  BY <1>0, <1>1, <1>3, <2>1, LoadsKept DEF MovesTo, Stale, StageOK
<1>8. QED  BY <1>4, <1>5, <1>6, <1>7 DEF LoadStep

LEMMA LoadsCalibration == TypeInv /\ Alone /\ Loads /\ CalibrationStep => Loads'
<1> SUFFICES ASSUME TypeInv, Alone, Loads, CalibrationStep, ~crossed', ~behind' PROVE Loads'
  BY DEF Loads
<1>0. /\ TypeOK /\ ~crossed /\ ~behind /\ Worker \in Threads /\ StageOK(Worker)
      /\ UNCHANGED <<run, settings, files, snapshot>>
  BY DEF TypeInv, StagesOK, Threads, TypeOK, CalibrationStep, CalibrationBegins, CalibrationStarts,
         CalibrationFails, CalibrationEnds, fileVars, loadVars, histVars
<1>1. CASE CalibrationBegins
  <2>1. /\ CalibrationBegun /\ (\A t \in Threads : ~Busy(t)) /\ run.at = "idle"
        /\ points' = points
    BY <1>0, <1>1, CalibrationBegan DEF CalibrationBegins, loadVars
  <2>2. \A t \in Threads : ~Stale(t) /\ thread[t].at \notin {"refresh", "prepare"}
    BY <2>1 DEF Busy, Stale
  <2>3. Stale(Worker)'
    BY <2>1 DEF CalibrationBegun, Stale
  <2>4. \A t \in Threads : t # Worker => ~Busy(t)'
    BY <2>1 DEF CalibrationBegun, Busy
  <2>5. snapshot \in {points, Missing}
    BY <1>0, <2>2 DEF Loads
  <2>6. QED  BY <1>0, <2>1, <2>3, <2>4, <2>5 DEF Loads, CalibrationBegun, Busy
<1>2. CASE CalibrationStarts
  <2>1. MovesTo(Worker, "calibrating") /\ thread[Worker].at = "prepare" /\ points' = snapshot
    BY <1>0, <1>2, Moves DEF CalibrationStarts, Places
  <2>2. Busy(Worker) /\ BusyOK(Worker) /\ thread[Worker].op = "calibrate"
    BY <1>0, <2>1 DEF Alone, Busy, StageOK
  <2>3. run.at = "idle"
    BY <2>2 DEF BusyOK
  <2>4. QED  BY <1>0, <2>1, <2>2, <2>3, LoadsKept DEF MovesTo, Stale
<1>3. CASE CalibrationFails
  BY <1>3 DEF CalibrationFails
<1>4. CASE CalibrationEnds
  <2>1. CalibrationRestores /\ thread[Worker].at = "calibrating" /\ points' = points
    BY <1>0, <1>4, CalibrationRestored DEF CalibrationEnds, loadVars
  <2>2. Busy(Worker) /\ BusyOK(Worker) /\ thread[Worker].op = "calibrate"
    BY <1>0, <2>1 DEF Alone, Busy, StageOK
  <2>3. run.at = "idle" /\ \A u \in Threads : u # Worker => ~Busy(u)
    BY <1>0, <2>2 DEF BusyOK, Alone
  <2>4. snapshot \in {points, Missing}
    <3>1. \A u \in Threads : thread[u].at \notin {"refresh", "prepare"}
      BY <2>1, <2>3 DEF Busy
    <3>2. QED  BY <1>0, <3>1 DEF Loads
  <2>5. QED  BY <1>0, <2>1, <2>2, <2>3, <2>4, LoadsKept DEF CalibrationRestores, Stale
<1>5. QED  BY <1>1, <1>2, <1>3, <1>4 DEF CalibrationStep

LEMMA LoadsRun == TypeInv /\ Alone /\ Loads /\ RunStep => Loads'
<1> SUFFICES ASSUME TypeInv, Alone, Loads, RunStep, ~crossed', ~behind' PROVE Loads'
  BY DEF Loads
<1>0. /\ TypeOK /\ run \in Runs /\ ~crossed /\ ~behind
      /\ UNCHANGED <<files, thread, snapshot, points>>
  BY DEF TypeInv, TypeOK, Runs, RunStep, RunChecks, RunCreates, RunAdvances, RunDrives, RunEnds,
         fileVars, loadVars, histVars
<1>1. settings'.active = settings.active
  <2>1. CASE RunAdvances
    BY <1>0, <2>1 DEF RunAdvances, Alone, TypeOK, Settings
  <2>2. CASE ~RunAdvances
    BY <2>2 DEF RunStep, RunChecks, RunCreates, RunDrives, RunEnds
  <2>3. QED  BY <2>1, <2>2
<1>2. run'.at \in {"starting", "creating", "created"} => snapshot # Missing
  BY <1>0 DEF RunStep, RunChecks, RunCreates, RunAdvances, RunDrives, RunEnds, Runs, Stopped, Loads
<1>3. run'.at = "driving" => run'.doc = run'.driven
  <2>1. CASE RunDrives
    <3>1. CASE IsDocument(files[settings.active])
      <4>1. \A t \in Threads : Busy(t) => thread[t].op = "put" /\ thread[t].at = "update"
        BY <1>0, <2>1 DEF RunDrives, Alone, BusyOK, Loads
      <4>2. \A t \in Threads : ~Stale(t) /\ thread[t].at \notin {"refresh", "prepare"}
        BY <4>1 DEF Busy, Stale
      <4>3. files[settings.active] = points
        BY <1>0, <2>1, <4>2 DEF RunDrives, Loads
      <4>4. QED  BY <1>0, <2>1, <3>1, <4>3 DEF RunDrives, Runs
    <3>2. CASE ~IsDocument(files[settings.active])
      BY <2>1, <3>2 DEF RunDrives, Stopped
    <3>3. QED  BY <3>1, <3>2
  <2>2. CASE ~RunDrives
    <3>1. CASE RunChecks \/ RunCreates
      BY <1>0, <3>1 DEF RunChecks, RunCreates, Runs
    <3>2. CASE RunAdvances
      BY <3>2 DEF RunAdvances, Stopped
    <3>3. CASE RunEnds
      BY <3>3 DEF RunEnds, Stopped
    <3>4. QED  BY <2>2, <3>1, <3>2, <3>3 DEF RunStep
  <2>3. QED  BY <2>1, <2>2
<1>4. QED  BY <1>0, <1>1, <1>2, <1>3 DEF Loads, Busy, Stale

LEMMA LoadsInvariance == Spec => []Loads
<1>1. TypeInv /\ Alone /\ Loads /\ [Next]_vars => Loads'
  <2>1. Loads /\ UNCHANGED vars => Loads'
    BY DEF Loads, Busy, Stale, vars, fileVars, loadVars, histVars
  <2>2. TypeInv /\ Alone /\ Loads /\ Next => Loads'
    BY Steps, LoadsBegins, LoadsFile, LoadsLoad, LoadsCalibration, LoadsRun DEF TypeInv
  <2>3. QED  BY <2>1, <2>2
<1>2. QED  BY LoadsInit, <1>1, TypeInvariance, AloneInvariance, PTL DEF Spec

\* LoadedIsActive for every number of requests, runs and calibrations: only an overlap,
\* an import over the active file, a settings request, a failed write or a calibration
\* that fails to start leaves another trajectory loaded.
THEOREM ActiveIsLoaded == Spec => []LoadedIsActive
<1>1. Loads => LoadedIsActive
  BY DEF Loads, LoadedIsActive, Quiet, Stale, Busy
<1>2. QED  BY <1>1, LoadsInvariance, PTL

\* DrivesWhatItTravelledTo for every number of requests and runs.
THEOREM RunsDriveTheirPath == Spec => []DrivesWhatItTravelledTo
<1>1. Loads => DrivesWhatItTravelledTo
  BY DEF Loads, DrivesWhatItTravelledTo
<1>2. QED  BY <1>1, LoadsInvariance, PTL
=============================================================================
