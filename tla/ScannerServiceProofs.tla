------------------------ MODULE ScannerServiceProofs ------------------------
(***************************************************************************)
(* Proofs about ScannerService, for any number of callers, exporters,      *)
(* clients, projects, operations, scans and losses.                        *)
(*                                                                         *)
(* The start lock is what the argument rests on: whoever is between taking *)
(* it and publishing a client owns the start, while it owns the start the  *)
(* service has no client, and the client it made is in its hands.          *)
(***************************************************************************)
EXTENDS ScannerService, TLAPS

Users == Callers \cup {Worker} \cup Exporters
Locals == [pc : Places, op : Operations, c : 0..MaxClients]

\* Where only a thread with the start lock is.
OnlyStart == {"begin", "connect", "init", "publish", "connected", "fail", "failed", "unlock", "unlockRetry"}
Stopping == {"waitConn", "take", "quiet", "close"}
\* Where the thread with the start lock has made a client and not yet published it.
Connecting == {"connect", "lockCmd", "init", "open", "opening", "mark", "setup", "setting", "unlockCmd",
               "publish", "fail"}
Owns(t) == startLock = t /\ th[t].pc \in Connecting

StarterOK(t) ==
    /\ th[t].op \in Starting \cup {"none", "stop"}
    /\ th[t].pc \in OnlyStart => startLock = t
    /\ th[t].op \in {"restart", "force"} /\ th[t].pc \in Stopping => startLock = t
    /\ startLock = t => \/ th[t].pc \in OnlyStart \cup Connecting
                        \/ th[t].pc \in Stopping /\ th[t].op \in {"restart", "force"}
    /\ Owns(t) => th[t].c \in Clients
StartersOK == \A t \in Callers : StarterOK(t)
WorkerOK ==
    /\ th[Worker].pc \in {"scan", "scanning", "ready", "end"} => th[Worker].op = "scan"
    /\ th[Worker].pc = "begin" /\ th[Worker].op = "new" => projects < MaxProjects
    /\ th[Worker].pc \notin {"idle", "begin"} =>
          IF th[Worker].op = "new" THEN projects > 0 ELSE runProject > 0
ExporterOK(x) == th[x].pc \in {"generate", "generating", "save", "saving"} => th[x].c \in Clients
ExportersOK == \A x \in Exporters : ExporterOK(x)

TypeInv == TypeOK /\ StartersOK /\ WorkerOK /\ ExportersOK

-----------------------------------------------------------------------------
(* What a step does to the threads. *)

LEMMA ThreadFacts ==
    /\ Callers \subseteq Threads /\ Exporters \subseteq Threads /\ Worker \in Threads /\ Clients \subseteq Threads
    /\ Worker \notin Callers /\ Worker \notin Exporters /\ Worker \notin Clients
    /\ Callers \cap Exporters = {} /\ Callers \cap Clients = {} /\ Exporters \cap Clients = {}
    /\ NoThread \notin Threads
    /\ Clients = 1..MaxClients /\ MaxClients \in Nat /\ 0 \in 0..MaxClients
BY ThreadAssumption, BoundAssumption DEF Threads, Clients

\* Only thread t moves, to place p in operation o with client k.
Now(t, p, o, k) ==
    /\ th' \in [Threads -> Locals]
    /\ \A u \in Threads : u # t => th'[u] = th[u]
    /\ th'[t].pc = p /\ th'[t].op = o /\ th'[t].c = k

LEMMA NowSets ==
    ASSUME th \in [Threads -> Locals], NEW t \in Threads, NEW new \in Locals, th' = [th EXCEPT ![t] = new]
    PROVE  Now(t, new.pc, new.op, new.c)
BY DEF Now

LEMMA NowIs ==
    ASSUME th \in [Threads -> Locals], NEW t \in Threads,
           NEW p \in Places, NEW o \in Operations, NEW k \in 0..MaxClients,
           th' = [th EXCEPT ![t] = [pc |-> p, op |-> o, c |-> k]]
    PROVE  Now(t, p, o, k)
<1> DEFINE new == [pc |-> p, op |-> o, c |-> k]
<1>1. new \in Locals /\ new.pc = p /\ new.op = o /\ new.c = k
  BY DEF Locals
<1> HIDE DEF new
<1>2. th' = [th EXCEPT ![t] = new]
  BY DEF new
<1>3. QED  BY <1>1, <1>2 DEF Now

LEMMA NowGoto ==
    ASSUME th \in [Threads -> Locals], NEW t \in Threads, NEW p \in Places, Goto(t, p)
    PROVE  Now(t, p, th[t].op, th[t].c)
<1>1. th[t] \in Locals
  OBVIOUS
<1>2. [th[t] EXCEPT !.pc = p] = [pc |-> p, op |-> th[t].op, c |-> th[t].c]
  BY <1>1 DEF Locals
<1>3. th' = [th EXCEPT ![t] = [pc |-> p, op |-> th[t].op, c |-> th[t].c]]
  BY <1>2 DEF Goto
<1>4. QED  BY <1>1, <1>3, NowIs DEF Locals

LEMMA NowWith ==
    ASSUME th \in [Threads -> Locals], NEW t \in Threads, NEW p \in Places, NEW k \in 0..MaxClients,
           th' = [th EXCEPT ![t].pc = p, ![t].c = k]
    PROVE  Now(t, p, th[t].op, k)
<1> DEFINE new == [th[t] EXCEPT !.pc = p, !.c = k]
<1>1. th[t] \in Locals
  OBVIOUS
<1>2. new \in Locals /\ new.pc = p /\ new.op = th[t].op /\ new.c = k
  BY <1>1 DEF Locals
<1>3. th' = [th EXCEPT ![t] = new]
  OBVIOUS
<1> HIDE DEF new
<1>4. QED  BY <1>2, <1>3 DEF Now

LEMMA NowTaking ==
    ASSUME th \in [Threads -> Locals], NEW t \in Threads, NEW p \in Places, NEW k \in 0..MaxClients,
           th' = [th EXCEPT ![t].c = k, ![t].pc = p]
    PROVE  Now(t, p, th[t].op, k)
<1> DEFINE new == [th[t] EXCEPT !.c = k, !.pc = p]
<1>1. th[t] \in Locals
  OBVIOUS
<1>2. new \in Locals /\ new.pc = p /\ new.op = th[t].op /\ new.c = k
  BY <1>1 DEF Locals
<1>3. th' = [th EXCEPT ![t] = new]
  OBVIOUS
<1> HIDE DEF new
<1>4. QED  BY <1>2, <1>3 DEF Now

LEMMA NowLeaves ==
    ASSUME th \in [Threads -> Locals], NEW t \in Threads, Leaves(t)
    PROVE  Now(t, "idle", "none", 0)
BY NowIs, ThreadFacts DEF Leaves, Idle, Places, Operations

\* What holds of the callers, the worker and the exporters survives a caller's step
\* if it holds of the caller, and the start lock only passes between it and nobody.
LEMMA CallerMoves ==
    ASSUME TypeInv, NEW t \in Callers,
           th' \in [Threads -> Locals], \A u \in Users : u # t => th'[u] = th[u],
           \/ startLock' = startLock
           \/ startLock \in {t, NoThread} /\ startLock' \in {t, NoThread},
           StarterOK(t)', projects' = projects, runProject' = runProject
    PROVE  ThreadsTypeOK' /\ StartersOK' /\ WorkerOK' /\ ExportersOK'
<1>1. ThreadsTypeOK'
  BY DEF ThreadsTypeOK, Locals
<1>2. ASSUME NEW u \in Callers PROVE StarterOK(u)'
  <2>1. CASE u = t
    BY <2>1
  <2>2. CASE u # t
    <3>1. th'[u] = th[u] /\ StarterOK(u) /\ u # NoThread
      BY <2>2, ThreadFacts DEF Users, TypeInv, StartersOK
    <3>2. QED  BY <2>2, <3>1 DEF StarterOK, Owns
  <2>3. QED  BY <2>1, <2>2
<1>3. th'[Worker] = th[Worker] /\ \A x \in Exporters : th'[x] = th[x]
  BY ThreadFacts DEF Users
<1>4. WorkerOK'
  BY <1>3 DEF TypeInv, WorkerOK
<1>5. ExportersOK'
  BY <1>3 DEF TypeInv, ExportersOK, ExporterOK
<1>6. QED  BY <1>1, <1>2, <1>4, <1>5 DEF StartersOK

\* A step of the worker, an exporter or a receiver leaves the callers alone.
LEMMA OthersMove ==
    ASSUME TypeInv, NEW t \in Threads \ Callers, NEW p, NEW o, NEW k, Now(t, p, o, k),
           startLock' = startLock
    PROVE  ThreadsTypeOK' /\ StartersOK' /\ (\A x \in Exporters : x # t => ExporterOK(x)')
<1>1. ThreadsTypeOK'
  BY DEF Now, ThreadsTypeOK, Locals
<1>2. StartersOK'
  BY ThreadFacts DEF Now, TypeInv, StartersOK, StarterOK, Owns
<1>3. \A x \in Exporters : x # t => ExporterOK(x)'
  BY ThreadFacts DEF Now, TypeInv, ExportersOK, ExporterOK
<1>4. QED  BY <1>1, <1>2, <1>3

LEMMA ReceiverMoves ==
    ASSUME TypeInv, th' \in [Threads -> Locals], \A u \in Users : th'[u] = th[u],
           startLock' = startLock, projects' = projects, runProject' = runProject
    PROVE  ThreadsTypeOK' /\ StartersOK' /\ WorkerOK' /\ ExportersOK'
<1>1. ThreadsTypeOK'
  BY DEF ThreadsTypeOK, Locals
<1>2. StartersOK' /\ WorkerOK' /\ ExportersOK'
  BY DEF Users, TypeInv, StartersOK, StarterOK, Owns, WorkerOK, ExportersOK, ExporterOK
<1>3. QED  BY <1>1, <1>2

LEMMA TypeUse ==
    ASSUME TypeInv
    PROVE  /\ LocksTypeOK /\ ClientsTypeOK /\ ThreadsTypeOK /\ RunTypeOK /\ ExportTypeOK /\ CountsTypeOK
           /\ th \in [Threads -> Locals]
           /\ \A t \in Threads : th[t].pc \in Places /\ th[t].op \in Operations /\ th[t].c \in 0..MaxClients
           /\ \A t \in Callers : StarterOK(t)
BY DEF TypeInv, TypeOK, StartersOK, ThreadsTypeOK, Locals

LEMMA BoundFacts ==
    /\ MaxProjects \in Nat /\ MaxOps \in Nat /\ MaxScans \in Nat /\ MaxLosses \in Nat
    /\ Preview \in Nat /\ Preview = MaxProjects + 1 /\ NoProject = 0 /\ 0..MaxProjects \subseteq 0..Preview
    /\ 0 \in 0..Preview /\ Preview \in 0..Preview
BY BoundAssumption DEF Preview, NoProject

-----------------------------------------------------------------------------
(* The fields and the threads' locals. *)

LEMMA TypeAsks ==
    ASSUME TypeInv, NEW t \in Callers, NEW op \in {"start", "restart", "force", "stop", "apply"}, Asks(t, op)
    PROVE  TypeInv'
<1> DEFINE p == CASE op = "stop" -> "waitConn" [] op = "apply" -> "ensure" [] OTHER -> "lockStart"
<1>1. p \in {"waitConn", "ensure", "lockStart"} /\ (op # "stop" => p # "waitConn")
  OBVIOUS
<1> DEFINE new == [Idle EXCEPT !.op = op, !.pc = p]
<1>2. new \in Locals /\ new.pc = p /\ new.op = op /\ new.c = 0
  BY <1>1, ThreadFacts DEF Idle, Locals, Places, Operations
<1>a. th' = [th EXCEPT ![t] = new]
  BY DEF Asks
<1> HIDE DEF p, new
<1>3. Now(t, p, op, 0)
  BY <1>2, <1>a, TypeUse, NowSets, ThreadFacts
<1>4. StarterOK(t)'
  BY <1>1, <1>3, TypeUse, ThreadFacts DEF Asks, Now, StarterOK, Owns, OnlyStart,
     Stopping, Connecting, Starting, lockVars
<1>5. ThreadsTypeOK' /\ StartersOK' /\ WorkerOK' /\ ExportersOK'
  BY <1>3, <1>4, CallerMoves, ThreadFacts DEF Asks, Now, Users, lockVars
<1>6. LocksTypeOK' /\ ClientsTypeOK'
  BY TypeUse DEF Asks, LocksTypeOK, ClientsTypeOK, lockVars, flagVars, clientVars, sdkVars
<1>7. RunTypeOK' /\ ExportTypeOK'
  BY TypeUse DEF Asks, StrayIf, RunTypeOK, ExportTypeOK
<1>8. CountsTypeOK'
  BY TypeUse, BoundFacts DEF Asks, CountsTypeOK
<1>9. QED  BY <1>5, <1>6, <1>7, <1>8 DEF TypeInv, TypeOK

LEMMA TypeEnsure == ASSUME TypeInv, NEW t \in Callers, EnsureConnected(t) PROVE TypeInv'
<1>1. PICK p \in {"lockCmd", "lockStart"} : Goto(t, p)
  BY DEF EnsureConnected
<1>2. Now(t, p, th[t].op, th[t].c)
  BY <1>1, TypeUse, NowGoto, ThreadFacts DEF Places
<1>3. StarterOK(t)'
  BY <1>2, TypeUse DEF EnsureConnected, Now, StarterOK, Owns, OnlyStart, Stopping, Connecting, Starting, lockVars
<1>4. ThreadsTypeOK' /\ StartersOK' /\ WorkerOK' /\ ExportersOK'
  BY <1>2, <1>3, CallerMoves, ThreadFacts DEF EnsureConnected, Now, Users, lockVars, runVars, countVars
<1>5. LocksTypeOK' /\ ClientsTypeOK' /\ RunTypeOK' /\ ExportTypeOK' /\ CountsTypeOK'
  BY TypeUse DEF EnsureConnected, LocksTypeOK, ClientsTypeOK, RunTypeOK, ExportTypeOK, CountsTypeOK,
                 lockVars, flagVars, clientVars, sdkVars, runVars, meshVars, histVars, countVars
<1>6. QED  BY <1>4, <1>5 DEF TypeInv, TypeOK

\* What LockStart and the rest of a start, and a caller's stop, leave alone.
LEMMA StartsFrame ==
    ASSUME TypeInv, NEW t \in Callers, Starts(t)
    PROVE  /\ UNCHANGED <<runVars, meshVars, histVars, projects, ops, scans, losses, cmdLock>>
           /\ RunTypeOK' /\ ExportTypeOK'
<1>1. UNCHANGED <<runVars, meshVars, histVars, projects, ops, scans, losses, cmdLock>>
  BY DEF Starts, LockStart, AlreadyStarted, BeginStart, Connects, Initializes, Publish, ClearConnecting,
         FailStart, UnlockStart, lockVars, countVars
<1>2. QED  BY <1>1, TypeUse DEF RunTypeOK, ExportTypeOK, runVars, meshVars, histVars

LEMMA TypeStarts == ASSUME TypeInv, NEW t \in Callers, Starts(t) PROVE TypeInv'
<1> USE DEF Now, Places, Users
<1>0. /\ t \in Threads /\ t # NoThread /\ StarterOK(t) /\ th[t].c \in 0..MaxClients
      /\ LocksTypeOK /\ ClientsTypeOK /\ CountsTypeOK /\ th \in [Threads -> Locals]
  BY TypeUse, ThreadFacts
<1>1. CASE LockStart(t)
  <2> DEFINE p == CASE th[t].op = "restart" -> "take" [] th[t].op = "force" -> "waitConn" [] OTHER -> "begin"
  <2>1. p \in {"take", "waitConn", "begin"} /\ (p # "begin" => th[t].op \in {"restart", "force"})
    OBVIOUS
  <2>2. Goto(t, p)
    BY <1>1 DEF LockStart
  <2> HIDE DEF p
  <2>3. Now(t, p, th[t].op, th[t].c)
    BY <1>0, <2>1, <2>2, NowGoto
  <2>4. StarterOK(t)'
    BY <1>0, <1>1, <2>1, <2>3 DEF LockStart, StarterOK, Owns, OnlyStart, Stopping, Connecting, Starting
  <2>5. ThreadsTypeOK' /\ StartersOK' /\ WorkerOK' /\ ExportersOK'
    BY <1>1, <2>3, <2>4, StartsFrame, CallerMoves, ThreadFacts DEF LockStart, runVars
  <2>6. LocksTypeOK' /\ ClientsTypeOK' /\ CountsTypeOK'
    BY <1>0, <1>1 DEF LockStart, LocksTypeOK, ClientsTypeOK, CountsTypeOK, clientVars, sdkVars, countVars
  <2>7. QED  BY <2>5, <2>6, StartsFrame DEF TypeInv, TypeOK
<1>2. CASE AlreadyStarted(t)
  <2>1. Now(t, "unlock", th[t].op, th[t].c)
    BY <1>0, <1>2, NowGoto DEF AlreadyStarted
  <2>2. StarterOK(t)'
    BY <1>0, <1>2, <2>1 DEF AlreadyStarted, StarterOK, Owns, OnlyStart, Stopping, Connecting, Starting, lockVars
  <2>3. ThreadsTypeOK' /\ StartersOK' /\ WorkerOK' /\ ExportersOK'
    BY <1>2, <2>1, <2>2, StartsFrame, CallerMoves, ThreadFacts DEF AlreadyStarted, lockVars, runVars
  <2>4. LocksTypeOK' /\ ClientsTypeOK' /\ CountsTypeOK'
    BY <1>0, <1>2 DEF AlreadyStarted, LocksTypeOK, ClientsTypeOK, CountsTypeOK, lockVars, flagVars, clientVars,
                      sdkVars, countVars
  <2>5. QED  BY <2>3, <2>4, StartsFrame DEF TypeInv, TypeOK
<1>3. CASE BeginStart(t)
  <2>1. clients + 1 \in Clients /\ clients + 1 \in 0..MaxClients
    BY <1>0, <1>3, ThreadFacts DEF BeginStart, CountsTypeOK
  <2>2. Now(t, "connect", th[t].op, clients + 1)
    BY <1>0, <1>3, <2>1, NowWith DEF BeginStart
  <2>3. StarterOK(t)'
    BY <1>0, <1>3, <2>1, <2>2 DEF BeginStart, StarterOK, Owns, OnlyStart, Stopping, Connecting, Starting, lockVars
  <2>4. ThreadsTypeOK' /\ StartersOK' /\ WorkerOK' /\ ExportersOK'
    BY <1>3, <2>2, <2>3, StartsFrame, CallerMoves, ThreadFacts DEF BeginStart, lockVars, runVars
  <2>5. LocksTypeOK' /\ ClientsTypeOK' /\ CountsTypeOK'
    BY <1>0, <1>3, <2>1 DEF BeginStart, LocksTypeOK, ClientsTypeOK, CountsTypeOK, lockVars, sdkVars
  <2>6. QED  BY <2>4, <2>5, StartsFrame DEF TypeInv, TypeOK
<1>4. CASE Connects(t)
  <2>1. Now(t, "lockCmd", th[t].op, th[t].c)
    BY <1>0, <1>4, NowGoto DEF Connects
  <2>2. StarterOK(t)'
    BY <1>0, <1>4, <2>1 DEF Connects, StarterOK, Owns, OnlyStart, Stopping, Connecting, Starting, lockVars
  <2>3. ThreadsTypeOK' /\ StartersOK' /\ WorkerOK' /\ ExportersOK'
    BY <1>4, <2>1, <2>2, StartsFrame, CallerMoves, ThreadFacts DEF Connects, lockVars, runVars
  <2>4. LocksTypeOK' /\ ClientsTypeOK' /\ CountsTypeOK'
    BY <1>0, <1>4, BoundFacts DEF Connects, LocksTypeOK, ClientsTypeOK, CountsTypeOK, lockVars, flagVars,
                      sdkVars, countVars
  <2>5. QED  BY <2>3, <2>4, StartsFrame DEF TypeInv, TypeOK
<1>5. CASE Initializes(t)
  <2> DEFINE c == th[t].c
             mine == [th[t] EXCEPT !.pc = "open"]
             its == [th[c] EXCEPT !.pc = "idle"]
  <2>1. startLock = t /\ c \in Clients /\ c # t
    BY <1>0, <1>5, ThreadFacts DEF Initializes, StarterOK, Owns, OnlyStart, Connecting
  <2>2. /\ mine \in Locals /\ mine.pc = "open" /\ mine.op = th[t].op /\ mine.c = th[t].c
        /\ its \in Locals /\ its.pc = "idle"
    BY <1>0, <2>1, ThreadFacts DEF Locals
  <2>3. th' = [th EXCEPT ![t] = mine, ![c] = its]
    BY <1>5, <2>1 DEF Initializes
  <2> HIDE DEF mine, its
  <2>4. /\ th' \in [Threads -> Locals] /\ th'[t] = mine
        /\ \A u \in Threads : u \notin {t, c} => th'[u] = th[u]
    BY <1>0, <2>1, <2>2, <2>3, ThreadFacts
  <2>5. StarterOK(t)'
    BY <1>0, <1>5, <2>1, <2>2, <2>4 DEF Initializes, StarterOK, Owns, OnlyStart,
       Stopping, Connecting, Starting, lockVars
  <2>6. ThreadsTypeOK' /\ StartersOK' /\ WorkerOK' /\ ExportersOK'
    BY <1>5, <2>1, <2>4, <2>5, StartsFrame, CallerMoves, ThreadFacts DEF Initializes, lockVars, runVars
  <2>7. LocksTypeOK' /\ ClientsTypeOK' /\ CountsTypeOK'
    BY <1>0, <1>5, BoundFacts DEF Initializes, LocksTypeOK, ClientsTypeOK, CountsTypeOK, lockVars, flagVars,
                      sdkVars, countVars
  <2>8. QED  BY <2>6, <2>7, StartsFrame DEF TypeInv, TypeOK
<1>6. CASE Publish(t)
  <2>1. Now(t, "connected", th[t].op, th[t].c)
    BY <1>0, <1>6, NowGoto DEF Publish
  <2>2. StarterOK(t)'
    BY <1>0, <1>6, <2>1 DEF Publish, StarterOK, Owns, OnlyStart, Stopping, Connecting, Starting, lockVars
  <2>3. ThreadsTypeOK' /\ StartersOK' /\ WorkerOK' /\ ExportersOK'
    BY <1>6, <2>1, <2>2, StartsFrame, CallerMoves, ThreadFacts DEF Publish, lockVars, runVars
  <2>4. LocksTypeOK' /\ ClientsTypeOK' /\ CountsTypeOK'
    BY <1>0, <1>6 DEF Publish, LocksTypeOK, ClientsTypeOK, CountsTypeOK, lockVars, clientVars, sdkVars, countVars
  <2>5. QED  BY <2>3, <2>4, StartsFrame DEF TypeInv, TypeOK
<1>7. CASE ClearConnecting(t)
  <2>1. PICK p \in {"unlock", "unlockRetry"} : Goto(t, p)
    BY <1>7 DEF ClearConnecting
  <2>2. Now(t, p, th[t].op, th[t].c)
    BY <1>0, <2>1, NowGoto
  <2>3. StarterOK(t)'
    BY <1>0, <1>7, <2>2 DEF ClearConnecting, StarterOK, Owns, OnlyStart, Stopping, Connecting, Starting, lockVars
  <2>4. ThreadsTypeOK' /\ StartersOK' /\ WorkerOK' /\ ExportersOK'
    BY <1>7, <2>2, <2>3, StartsFrame, CallerMoves, ThreadFacts DEF ClearConnecting, lockVars, runVars
  <2>5. LocksTypeOK' /\ ClientsTypeOK' /\ CountsTypeOK'
    BY <1>0, <1>7 DEF ClearConnecting, LocksTypeOK, ClientsTypeOK, CountsTypeOK, lockVars, clientVars, sdkVars,
                      countVars
  <2>6. QED  BY <2>4, <2>5, StartsFrame DEF TypeInv, TypeOK
<1>8. CASE FailStart(t)
  <2>1. Now(t, "failed", th[t].op, 0)
    BY <1>0, <1>8, NowWith, ThreadFacts DEF FailStart
  <2>2. StarterOK(t)'
    BY <1>0, <1>8, <2>1 DEF FailStart, StarterOK, Owns, OnlyStart, Stopping, Connecting, Starting, lockVars
  <2>3. ThreadsTypeOK' /\ StartersOK' /\ WorkerOK' /\ ExportersOK'
    BY <1>8, <2>1, <2>2, StartsFrame, CallerMoves, ThreadFacts DEF FailStart, lockVars, runVars
  <2>4. LocksTypeOK' /\ ClientsTypeOK' /\ CountsTypeOK'
    BY <1>0, <1>8, BoundFacts DEF FailStart, Closed, LocksTypeOK, ClientsTypeOK, CountsTypeOK, lockVars, flagVars,
                      countVars
  <2>5. QED  BY <2>3, <2>4, StartsFrame DEF TypeInv, TypeOK
<1>9. CASE UnlockStart(t)
  <2>1. \/ Now(t, "lockCmd", th[t].op, 0) \/ Now(t, "idle", "none", 0)
        \/ Now(t, "lockStart", th[t].op, th[t].c)
    BY <1>0, <1>9, NowWith, NowGoto, NowLeaves, ThreadFacts DEF UnlockStart
  <2>2. StarterOK(t)'
    BY <1>0, <1>9, <2>1 DEF UnlockStart, StarterOK, Owns, OnlyStart, Stopping, Connecting, Starting
  <2>3. startLock = t /\ startLock' = NoThread
    BY <1>0, <1>9 DEF UnlockStart, StarterOK, OnlyStart
  <2>4. ThreadsTypeOK' /\ StartersOK' /\ WorkerOK' /\ ExportersOK'
    BY <2>1, <2>2, <2>3, StartsFrame, CallerMoves, ThreadFacts DEF runVars
  <2>5. LocksTypeOK' /\ ClientsTypeOK' /\ CountsTypeOK'
    BY <1>0, <1>9 DEF UnlockStart, LocksTypeOK, ClientsTypeOK, CountsTypeOK, clientVars, sdkVars, countVars
  <2>6. QED  BY <2>4, <2>5, StartsFrame DEF TypeInv, TypeOK
<1>10. QED  BY <1>1, <1>2, <1>3, <1>4, <1>5, <1>6, <1>7, <1>8, <1>9 DEF Starts

\* What a stop leaves alone.
LEMMA StopsFrame ==
    ASSUME TypeInv, NEW t \in Callers \cup Clients, Stops(t)
    PROVE  /\ UNCHANGED <<lockVars, runVars, meshVars, histVars, countVars>>
           /\ RunTypeOK' /\ ExportTypeOK' /\ CountsTypeOK'
<1>1. UNCHANGED <<lockVars, runVars, meshVars, histVars, countVars>>
  BY DEF Stops, WaitConnecting, Take, Quiet, Close
<1>2. QED  BY <1>1, TypeUse DEF RunTypeOK, ExportTypeOK, CountsTypeOK, runVars, meshVars, histVars, countVars

\* Where a stop ends: the operation is over, a receiver reports, or the start lock
\* is still held for the start that follows.
LEMMA FinishesTo ==
    ASSUME TypeInv, NEW t \in Callers \cup Clients, Finishes(t)
    PROVE  \/ t \in Clients /\ Now(t, "report", th[t].op, 0)
           \/ t \in Callers /\ th[t].op \in {"restart", "force"} /\ Now(t, "begin", th[t].op, 0)
           \/ t \in Callers /\ th[t].op \notin {"restart", "force"} /\ Now(t, "idle", "none", 0)
<1>0. t \in Threads /\ 0 \in 0..MaxClients /\ th \in [Threads -> Locals] /\ Callers \cap Clients = {}
  BY TypeUse, ThreadFacts
<1>1. CASE t \in Clients
  <2>1. AfterStop(t) = "report"
    BY <1>0, <1>1 DEF AfterStop
  <2>2. th' = [th EXCEPT ![t].pc = "report", ![t].c = 0]
    BY <2>1 DEF Finishes
  <2>3. QED  BY <1>0, <1>1, <2>2, NowWith DEF Places
<1>2. CASE t \in Callers /\ th[t].op \in {"restart", "force"}
  <2>1. AfterStop(t) = "begin"
    BY <1>0, <1>2 DEF AfterStop
  <2>2. th' = [th EXCEPT ![t].pc = "begin", ![t].c = 0]
    BY <2>1 DEF Finishes
  <2>3. QED  BY <1>0, <1>2, <2>2, NowWith DEF Places
<1>3. CASE t \in Callers /\ th[t].op \notin {"restart", "force"}
  BY <1>0, <1>3, NowLeaves DEF Finishes, AfterStop
<1>4. QED  BY <1>1, <1>2, <1>3

LEMMA StopsTo ==
    ASSUME TypeInv, NEW t \in Callers \cup Clients, Stops(t)
    PROVE  /\ th[t].pc \in Stopping
           /\ \/ \E p \in {"take", "quiet", "close"}, k \in 0..MaxClients : Now(t, p, th[t].op, k)
              \/ Finishes(t)
<1>0. t \in Threads /\ th \in [Threads -> Locals] /\ th[t].c \in 0..MaxClients /\ sdk \in 0..MaxClients
  BY TypeUse, ThreadFacts DEF LocksTypeOK
<1>1. CASE WaitConnecting(t)
  BY <1>0, <1>1, NowGoto DEF WaitConnecting, Stopping, Places
<1>2. CASE Take(t)
  BY <1>0, <1>2, NowWith DEF Take, Stopping, Places
<1>3. CASE Quiet(t)
  BY <1>0, <1>3, NowGoto DEF Quiet, Stopping, Places
<1>4. CASE Close(t)
  BY <1>4 DEF Close, Stopping
<1>5. QED  BY <1>1, <1>2, <1>3, <1>4 DEF Stops

LEMMA TypeStops == ASSUME TypeInv, NEW t \in Callers \cup Clients, Stops(t) PROVE TypeInv'
<1>1. PICK p \in {"take", "quiet", "close", "report", "begin", "idle"}, o \in Operations, k \in 0..MaxClients :
         /\ Now(t, p, o, k)
         /\ t \in Callers /\ p = "begin" => th[t].op \in {"restart", "force"}
         /\ t \in Callers /\ p = "idle" => th[t].op \notin {"restart", "force"}
         /\ t \in Callers => p # "report" /\ (p = "idle" => o = "none")
         /\ p \notin {"idle", "report"} => o = th[t].op
  BY TypeUse, StopsTo, FinishesTo, ThreadFacts DEF Operations
<1>2. LocksTypeOK' /\ ClientsTypeOK'
  <2>0. LocksTypeOK /\ ClientsTypeOK
    BY TypeUse
  <2>1. CASE WaitConnecting(t)
    BY <2>0, <2>1 DEF WaitConnecting, LocksTypeOK, ClientsTypeOK, lockVars, clientVars, sdkVars
  <2>2. CASE Take(t)
    BY <2>0, <2>2, ThreadFacts, BoundFacts DEF Take, LocksTypeOK, ClientsTypeOK, lockVars, flagVars, clientVars,
       sdkVars
  <2>3. CASE Quiet(t)
    BY <2>0, <2>3 DEF Quiet, LocksTypeOK, ClientsTypeOK, lockVars, flagVars, sdkVars
  <2>4. CASE Close(t)
    BY <2>0, <2>4, BoundFacts DEF Close, Closed, LocksTypeOK, ClientsTypeOK, lockVars, flagVars
  <2>5. QED  BY <2>1, <2>2, <2>3, <2>4 DEF Stops
<1>3. ThreadsTypeOK' /\ StartersOK' /\ WorkerOK' /\ ExportersOK'
  <2>1. CASE t \in Callers
    <3>1. StarterOK(t)'
      BY <1>1, <2>1, TypeUse, StopsTo, StopsFrame
         DEF Now, StarterOK, Owns, OnlyStart, Stopping, Connecting, Starting, lockVars
    <3>2. QED
      BY <1>1, <2>1, <3>1, StopsFrame, CallerMoves, ThreadFacts DEF Now, Users, lockVars, runVars, countVars
  <2>2. CASE t \in Clients
    BY <1>1, <2>2, StopsFrame, ReceiverMoves, ThreadFacts DEF Now, Users, lockVars, runVars, countVars
  <2>3. QED  BY <2>1, <2>2
<1>4. QED  BY <1>2, <1>3, StopsFrame DEF TypeInv, TypeOK

LEMMA UserMoves ==
    ASSUME TypeInv, NEW t \in Users, NEW p, NEW o, NEW k, Now(t, p, o, k),
           startLock' = startLock,
           t # Worker => projects' = projects /\ runProject' = runProject,
           t \in Callers => StarterOK(t)', t = Worker => WorkerOK', t \in Exporters => ExporterOK(t)'
    PROVE  ThreadsTypeOK' /\ StartersOK' /\ WorkerOK' /\ ExportersOK'
<1>0. t \in Threads /\ Users \subseteq Threads
  BY ThreadFacts DEF Users
<1>1. ThreadsTypeOK'
  BY DEF Now, ThreadsTypeOK, Locals
<1>2. StartersOK'
  BY <1>0 DEF Now, Users, TypeInv, StartersOK, StarterOK, Owns
<1>3. ExportersOK'
  BY <1>0 DEF Now, Users, TypeInv, ExportersOK, ExporterOK
<1>4. WorkerOK'
  BY <1>0, ThreadFacts DEF Now, Users, TypeInv, WorkerOK
<1>5. QED  BY <1>1, <1>2, <1>3, <1>4

\* The steps of a command that only go on, in the order of its places.
Going == {<<"open", "opening">>, <<"opening", "mark">>, <<"mark", "setup">>, <<"mark", "unlockCmd">>,
          <<"setup", "setting">>, <<"setting", "unlockCmd">>, <<"scan", "scanning">>,
          <<"scanning", "unlockCmd">>, <<"generate", "generating">>, <<"generate", "saving">>,
          <<"generating", "save">>, <<"save", "saving">>, <<"saving", "unlockCmd">>}
GoesOn(t) == \E p \in Places : <<th[t].pc, p>> \in Going /\ Goto(t, p)

LEMMA GoesOnTo ==
    ASSUME TypeInv, NEW t \in Users, GoesOn(t), UNCHANGED <<startLock, projects, runProject>>
    PROVE  ThreadsTypeOK' /\ StartersOK' /\ WorkerOK' /\ ExportersOK'
<1>0. t \in Threads /\ th \in [Threads -> Locals] /\ (t \in Callers => StarterOK(t))
  BY TypeUse, ThreadFacts DEF Users
<1>1. PICK p \in Places : <<th[t].pc, p>> \in Going /\ Goto(t, p)
  BY DEF GoesOn
<1>2. Now(t, p, th[t].op, th[t].c)
  BY <1>0, <1>1, NowGoto
<1>3. ASSUME t \in Callers PROVE StarterOK(t)'
  BY <1>0, <1>1, <1>2, <1>3 DEF Going, Now, StarterOK, Owns, OnlyStart, Stopping, Connecting, Starting
<1>4. ASSUME t = Worker PROVE WorkerOK'
  BY <1>0, <1>1, <1>2, <1>4 DEF Going, Now, TypeInv, WorkerOK
<1>5. ASSUME t \in Exporters PROVE ExporterOK(t)'
  BY <1>0, <1>1, <1>2, <1>5 DEF Going, Now, TypeInv, ExportersOK, ExporterOK
<1>6. QED  BY <1>2, <1>3, <1>4, <1>5, UserMoves

LEMMA CommandGoesOn ==
    ASSUME NEW t, \/ Open(t) \/ Opened(t) \/ Mark(t) \/ SetUp(t) \/ IsSetUp(t) \/ Scan(t) \/ Scanned(t)
                  \/ TakesLateAnswer(t)
    PROVE  GoesOn(t)
<1>1. CASE TakesLateAnswer(t)
  BY <1>1 DEF TakesLateAnswer, GoesOn, Going, Places
<1>2. CASE ~TakesLateAnswer(t)
  BY <1>2 DEF Open, Opened, Mark, SetUp, IsSetUp, Scan, Scanned, GoesOn, Going, Places
<1>3. QED  BY <1>1, <1>2

LEMMA ExportGoesOn == ASSUME NEW x, Generates(x) PROVE GoesOn(x)
BY DEF Generates, Generate, Generated, Save, Saved, GoesOn, Going, Places

\* Where a command begins: in init under the start lock, else with the service's client.
LEMMA LockCmdTo ==
    ASSUME TypeInv, NEW t \in Users, LockCmd(t)
    PROVE  \E p \in Places, k \in 0..MaxClients :
              /\ Now(t, p, th[t].op, k)
              /\ startLock = t => p = "init" /\ k = th[t].c
              /\ startLock # t => p \in {"scan", "generate", "unlockCmd", "open"} /\ k \in Clients /\ k = sdk
              /\ p = "scan" => th[t].op = "scan"
<1>0. /\ t \in Threads /\ th \in [Threads -> Locals] /\ th[t].c \in 0..MaxClients /\ LocksTypeOK
      /\ t \in Callers => StarterOK(t)
  BY TypeUse, ThreadFacts DEF Users
<1> DEFINE k == IF startLock = t THEN th[t].c ELSE sdk
           p == CASE startLock = t          -> "init"
                  [] th[t].op = "scan"      -> "scan"
                  [] th[t].op = "export"    -> "generate"
                  [] th[t].op = "resume" /\ project = runProject -> "unlockCmd"
                  [] OTHER                  -> "open"
<1>1. /\ startLock = t => k = th[t].c
      /\ startLock # t => k \in Clients /\ k = sdk
      /\ k \in 0..MaxClients
  BY <1>0, ThreadFacts DEF LockCmd, LocksTypeOK
<1>2. startLock = t => t \in Callers /\ th[t].op \notin {"scan", "export", "resume"}
  BY <1>0, ThreadFacts DEF LocksTypeOK, StarterOK, Starting
<1>3. /\ startLock = t => p = "init"
      /\ startLock # t => p \in {"scan", "generate", "unlockCmd", "open"}
      /\ p = "scan" => th[t].op = "scan"
  BY <1>2
<1>4. p \in Places
  BY <1>3 DEF Places
<1>5. th' = [th EXCEPT ![t].c = k, ![t].pc = p]
  BY DEF LockCmd
<1> HIDE DEF k, p
<1>6. Now(t, p, th[t].op, k)
  BY <1>0, <1>1, <1>4, <1>5, NowTaking
<1>7. QED  BY <1>1, <1>3, <1>4, <1>6

\* Where a command ends: at the publication of the client under the start lock, else
\* with the operation over or the run ready.
LEMMA UnlockCmdTo ==
    ASSUME TypeInv, NEW t \in Users, UnlockCmd(t)
    PROVE  \/ startLock = t /\ t \in Callers /\ Now(t, "publish", th[t].op, th[t].c) /\ UNCHANGED runVars
           \/ startLock # t /\ t # Worker /\ Now(t, "idle", "none", 0) /\ UNCHANGED runVars
           \/ t = Worker /\ Now(t, "ready", "scan", 0)
<1>0. t \in Threads /\ th \in [Threads -> Locals] /\ startLock \in Callers \cup {NoThread} /\ startLock # Worker
  BY TypeUse, ThreadFacts DEF Users, LocksTypeOK
<1>1. CASE startLock = t
  BY <1>0, <1>1, NowGoto, ThreadFacts DEF UnlockCmd, Places
<1>2. CASE startLock # t /\ t # Worker
  BY <1>0, <1>2, NowLeaves DEF UnlockCmd
<1>3. CASE t = Worker
  <2> DEFINE new == [Idle EXCEPT !.pc = "ready", !.op = "scan"]
  <2>1. new \in Locals /\ new.pc = "ready" /\ new.op = "scan" /\ new.c = 0
    BY ThreadFacts DEF Idle, Locals, Places, Operations
  <2>2. th' = [th EXCEPT ![t] = new]
    BY <1>0, <1>3 DEF UnlockCmd
  <2> HIDE DEF new
  <2>3. QED  BY <1>0, <1>3, <2>1, <2>2, NowSets
<1>4. QED  BY <1>1, <1>2, <1>3

LEMMA FailsTo ==
    ASSUME TypeInv, NEW t \in Users, Fails(t)
    PROVE  \/ startLock = t /\ Now(t, "fail", th[t].op, th[t].c)
           \/ startLock # t /\ Now(t, "idle", "none", 0)
<1>0. t \in Threads /\ th \in [Threads -> Locals]
  BY TypeUse, ThreadFacts DEF Users
<1>1. QED  BY <1>0, NowGoto, NowLeaves DEF Fails, Places

\* A command that fails may leave something to answer late.
LEMMA FailsClients ==
    ASSUME TypeInv, NEW t \in Users, Fails(t), Opens(t) \in 0..Preview
    PROVE  /\ opened' \in [Clients -> 0..Preview] /\ setUp' \in [Clients -> BOOLEAN]
           /\ late' \in [Clients -> SUBSET (0..Preview)] /\ abandoned' \in [Clients -> BOOLEAN]
           /\ losses' \in 0..MaxLosses
<1>0. ClientsTypeOK /\ losses \in 0..MaxLosses /\ 0 \in 0..Preview /\ MaxLosses \in Nat
  BY TypeUse, BoundFacts, BoundAssumption DEF TypeInv, CountsTypeOK
<1>1. CASE UNCHANGED <<sdkVars, losses>>
  BY <1>0, <1>1 DEF sdkVars, ClientsTypeOK
<1>2. CASE /\ opened' = [opened EXCEPT ![th[t].c] = Opens(t)] /\ setUp' = [setUp EXCEPT ![th[t].c] = FALSE]
           /\ UNCHANGED <<late, abandoned, losses>>
  BY <1>0, <1>2 DEF ClientsTypeOK
<1>3. CASE GivesUp(t)
  <2>1. losses' \in 0..MaxLosses
    BY <1>0, <1>3 DEF GivesUp
  <2>2. abandoned' \in [Clients -> BOOLEAN]
    BY <1>0, <1>3 DEF GivesUp, ClientsTypeOK
  <2>3. late' \in [Clients -> SUBSET (0..Preview)]
    BY <1>0, <1>3 DEF GivesUp, ClientsTypeOK, NoProject
  <2>4. QED  BY <1>0, <1>3, <2>1, <2>2, <2>3 DEF GivesUp, ClientsTypeOK
<1>4. QED  BY <1>1, <1>2, <1>3 DEF Fails

LEMMA TakesLateClients ==
    ASSUME TypeInv, NEW t \in Users, TakesLateAnswer(t), Opens(t) \in 0..Preview
    PROVE  /\ opened' \in [Clients -> 0..Preview] /\ setUp' \in [Clients -> BOOLEAN]
           /\ late' \in [Clients -> SUBSET (0..Preview)] /\ abandoned' \in [Clients -> BOOLEAN]
<1>0. ClientsTypeOK
  BY TypeUse DEF TypeInv
<1>1. PICK p \in late[th[t].c] :
        /\ LateFinish(th[t].c, p)
        /\ late' = [late EXCEPT ![th[t].c] = (@ \ {p}) \cup {IF p = NoProject THEN p ELSE Opens(t)}]
  BY DEF TakesLateAnswer
<1>2. th[t].c \in Clients => p \in 0..Preview
  BY <1>0 DEF ClientsTypeOK
<1>3. opened' \in [Clients -> 0..Preview] /\ setUp' \in [Clients -> BOOLEAN]
  <2>1. CASE UNCHANGED <<opened, setUp>>
    BY <1>0, <2>1 DEF ClientsTypeOK
  <2>2. CASE /\ opened' = [opened EXCEPT ![th[t].c] = p]
             /\ setUp' = [setUp EXCEPT ![th[t].c] = FALSE]
    BY <1>0, <1>2, <2>2 DEF ClientsTypeOK
  <2>3. QED  BY <1>1, <2>1, <2>2 DEF LateFinish
<1>4. late' \in [Clients -> SUBSET (0..Preview)]
  BY <1>0, <1>1, <1>2 DEF ClientsTypeOK
<1>5. QED  BY <1>0, <1>3, <1>4 DEF TakesLateAnswer, ClientsTypeOK

LEMMA TypeCommands == ASSUME TypeInv, NEW t \in Users, Commands(t) PROVE TypeInv'
<1> USE DEF Users
<1>0. /\ t \in Threads /\ t # NoThread /\ th[t].c \in 0..MaxClients /\ (t \in Callers => StarterOK(t))
      /\ LocksTypeOK /\ ClientsTypeOK /\ RunTypeOK /\ ExportTypeOK /\ CountsTypeOK /\ th \in [Threads -> Locals]
      /\ th[t].op \in Operations /\ (t \in Exporters => ExporterOK(t)) /\ WorkerOK
  BY TypeUse, ThreadFacts DEF TypeInv, ExportersOK
<1>1. t # Worker => startLock # t \/ t \in Callers
  BY <1>0, ThreadFacts DEF LocksTypeOK
<1>2. startLock # Worker
  BY <1>0, ThreadFacts DEF LocksTypeOK
<1>3. Opens(t) \in 0..Preview /\ (t = Worker /\ th[t].pc \notin {"idle", "begin"} => Opens(t) \in 1..MaxProjects)
  BY <1>0, BoundFacts DEF Opens, WorkerOK, RunTypeOK, CountsTypeOK
<1>4. CASE LockCmd(t)
  <2>1. PICK p \in Places, k \in 0..MaxClients :
           /\ Now(t, p, th[t].op, k)
           /\ startLock = t => p = "init" /\ k = th[t].c
           /\ startLock # t => p \in {"scan", "generate", "unlockCmd", "open"} /\ k \in Clients
           /\ p = "scan" => th[t].op = "scan"
    BY <1>4, LockCmdTo
  <2>2. t \in Callers => StarterOK(t)'
    BY <1>0, <1>4, <2>1 DEF LockCmd, Now, StarterOK, Owns, OnlyStart, Stopping, Connecting, Starting
  <2>3. t = Worker => WorkerOK'
    BY <1>0, <1>2, <1>4, <2>1 DEF LockCmd, Now, WorkerOK, runVars, countVars
  <2>4. t \in Exporters => ExporterOK(t)'
    BY <1>0, <1>4, <2>1, ThreadFacts DEF Now, ExporterOK, LocksTypeOK
  <2>5. ThreadsTypeOK' /\ StartersOK' /\ WorkerOK' /\ ExportersOK'
    BY <1>4, <2>1, <2>2, <2>3, <2>4, UserMoves DEF LockCmd, runVars, countVars
  <2>6. /\ cmdLock' = t
        /\ UNCHANGED <<startLock, sdk, flagVars, project, clientVars, runVars, sdkVars, meshVars, histVars,
                       countVars>>
    BY <1>4 DEF LockCmd
  <2>7. LocksTypeOK' /\ ClientsTypeOK'
    BY <1>0, <2>6 DEF LocksTypeOK, ClientsTypeOK, flagVars, clientVars, sdkVars
  <2>8. RunTypeOK' /\ ExportTypeOK' /\ CountsTypeOK'
    BY <1>0, <2>6 DEF RunTypeOK, ExportTypeOK, CountsTypeOK, runVars, meshVars, histVars, countVars
  <2>9. QED  BY <2>5, <2>7, <2>8 DEF TypeInv, TypeOK
<1>5. CASE UnlockCmd(t)
  <2>1. \/ startLock = t /\ t \in Callers /\ Now(t, "publish", th[t].op, th[t].c) /\ UNCHANGED runVars
        \/ startLock # t /\ t # Worker /\ Now(t, "idle", "none", 0) /\ UNCHANGED runVars
        \/ t = Worker /\ Now(t, "ready", "scan", 0)
    BY <1>5, UnlockCmdTo
  <2>2. t = Worker => runProject' = Opens(t) /\ projectName' = Opens(t) /\ run' = "running" /\ abort' \in BOOLEAN
    BY <1>2, <1>5 DEF UnlockCmd
  <2>3. t \in Callers => StarterOK(t)'
    BY <1>0, <1>5, <2>1, ThreadFacts DEF UnlockCmd, Now, StarterOK, Owns, OnlyStart, Stopping, Connecting, Starting
  <2>4. t = Worker => WorkerOK'
    BY <1>0, <1>3, <1>5, <2>1, <2>2, ThreadFacts DEF UnlockCmd, Now, WorkerOK
  <2>5. t \in Exporters => ExporterOK(t)'
    BY <2>1, ThreadFacts DEF Now, ExporterOK
  <2>6. ThreadsTypeOK' /\ StartersOK' /\ WorkerOK' /\ ExportersOK'
    <3>1. t # Worker => runProject' = runProject
      BY <2>1 DEF runVars
    <3>2. startLock' = startLock /\ projects' = projects
      BY <1>5 DEF UnlockCmd, countVars
    <3>3. QED  BY <2>1, <2>3, <2>4, <2>5, <3>1, <3>2, UserMoves
  <2>7. RunTypeOK'
    <3>1. CASE t = Worker
      BY <1>0, <1>3, <1>5, <2>2, <3>1 DEF UnlockCmd, RunTypeOK, histVars
    <3>2. CASE t # Worker
      BY <1>0, <1>5, <2>1, <3>2 DEF UnlockCmd, RunTypeOK, runVars, histVars
    <3>3. QED  BY <3>1, <3>2
  <2>8. LocksTypeOK' /\ ClientsTypeOK' /\ ExportTypeOK' /\ CountsTypeOK'
    BY <1>0, <1>5 DEF UnlockCmd, LocksTypeOK, ClientsTypeOK, ExportTypeOK, CountsTypeOK, flagVars,
                      clientVars, sdkVars, meshVars, countVars
  <2>9. QED  BY <2>6, <2>7, <2>8 DEF TypeInv, TypeOK
<1>6. CASE Fails(t)
  <2>1. \/ startLock = t /\ Now(t, "fail", th[t].op, th[t].c)
        \/ startLock # t /\ Now(t, "idle", "none", 0)
    BY <1>6, FailsTo
  <2>2. t \in Callers => StarterOK(t)'
    BY <1>0, <1>6, <2>1 DEF Fails, Now, StarterOK, Owns, OnlyStart, Stopping, Connecting, Starting
  <2>3. t = Worker => WorkerOK'
    BY <1>2, <2>1 DEF Now, WorkerOK
  <2>4. t \in Exporters => ExporterOK(t)'
    BY <1>0, <2>1 DEF Now, ExporterOK
  <2>5. ThreadsTypeOK' /\ StartersOK' /\ WorkerOK' /\ ExportersOK'
    BY <1>6, <2>1, <2>2, <2>3, <2>4, UserMoves DEF Fails
  <2>6. LocksTypeOK'
    BY <1>0, <1>6, BoundFacts DEF Fails, CmdLockAfter, LocksTypeOK, flagVars
  <2>7. ClientsTypeOK'
    BY <1>0, <1>3, <1>6, FailsClients DEF Fails, ClientsTypeOK, clientVars
  <2>8. RunTypeOK'
    BY <1>0, <1>6 DEF Fails, RunTypeOK
  <2>9. ExportTypeOK'
    BY <1>0, <1>6 DEF Fails, WorkerError, ExportTypeOK
  <2>a. CountsTypeOK'
    <3>1. losses' \in 0..MaxLosses
      BY <1>3, <1>6, FailsClients
    <3>2. UNCHANGED <<clients, projects, ops, scans>>
      BY <1>6 DEF Fails
    <3>3. QED  BY <1>0, <3>1, <3>2 DEF CountsTypeOK
  <2>10. QED  BY <2>5, <2>6, <2>7, <2>8, <2>9, <2>a DEF TypeInv, TypeOK
<1>8. CASE TakesLateAnswer(t)
  <2>1. UNCHANGED <<lockVars, sdk, flagVars, project, clientVars, runVars, meshVars, histVars, countVars>>
    BY <1>8 DEF TakesLateAnswer
  <2>2. ThreadsTypeOK' /\ StartersOK' /\ WorkerOK' /\ ExportersOK'
    BY <1>8, <2>1, GoesOnTo, CommandGoesOn DEF lockVars, runVars, countVars
  <2>3. LocksTypeOK' /\ ClientsTypeOK'
    BY <1>0, <1>3, <1>8, <2>1, TakesLateClients DEF LocksTypeOK, ClientsTypeOK, lockVars, flagVars, clientVars
  <2>4. RunTypeOK' /\ ExportTypeOK' /\ CountsTypeOK'
    BY <1>0, <2>1 DEF RunTypeOK, ExportTypeOK, CountsTypeOK, runVars, meshVars, histVars, countVars
  <2>5. QED  BY <2>2, <2>3, <2>4 DEF TypeInv, TypeOK
<1>7. CASE Open(t) \/ Opened(t) \/ Mark(t) \/ SetUp(t) \/ IsSetUp(t) \/ Scan(t) \/ Scanned(t)
  <2>1. UNCHANGED <<lockVars, sdk, flagVars, clientVars, runVars, meshVars, late, abandoned, histVars, countVars>>
    BY <1>7 DEF Open, Opened, Mark, SetUp, IsSetUp, Scan, Scanned, sdkVars
  <2>2. ThreadsTypeOK' /\ StartersOK' /\ WorkerOK' /\ ExportersOK'
    BY <1>7, <2>1, GoesOnTo, CommandGoesOn DEF lockVars, runVars, countVars
  <2>3. project' \in 0..Preview
    BY <1>0, <1>3, <1>7, BoundFacts DEF Open, Opened, Mark, SetUp, IsSetUp, Scan, Scanned, LocksTypeOK
  <2>4. opened' \in [Clients -> 0..Preview]
    BY <1>0, <1>3, <1>7, BoundFacts DEF Open, Opened, Mark, SetUp, IsSetUp, Scan, Scanned, ClientsTypeOK, sdkVars
  <2>5. setUp' \in [Clients -> BOOLEAN]
    BY <1>0, <1>7 DEF Open, Opened, Mark, SetUp, IsSetUp, Scan, Scanned, ClientsTypeOK, sdkVars
  <2>6. LocksTypeOK' /\ ClientsTypeOK'
    BY <1>0, <2>1, <2>3, <2>4, <2>5 DEF LocksTypeOK, ClientsTypeOK, lockVars, flagVars, clientVars
  <2>7. RunTypeOK' /\ ExportTypeOK' /\ CountsTypeOK'
    BY <1>0, <2>1 DEF RunTypeOK, ExportTypeOK, CountsTypeOK, runVars, meshVars, histVars, countVars
  <2>8. QED  BY <2>2, <2>6, <2>7 DEF TypeInv, TypeOK
<1>9. QED  BY <1>4, <1>5, <1>6, <1>7, <1>8 DEF Commands

LEMMA TypeGenerates == ASSUME TypeInv, NEW x \in Exporters, Generates(x) PROVE TypeInv'
<1>0. /\ x \in Users /\ LocksTypeOK /\ ClientsTypeOK /\ RunTypeOK /\ ExportTypeOK /\ CountsTypeOK
      /\ th[x].pc = "saving" => th[x].c \in Clients
  BY TypeUse DEF Users, TypeInv, ExportersOK, ExporterOK
<1>1. UNCHANGED <<lockVars, sdk, flagVars, project, clientVars, runVars, sdkVars, past, mesh, meshFailed,
                  exportOf, exported, histVars, countVars>>
  BY DEF Generates, Generate, Generated, Save, Saved, meshVars
<1>2. ThreadsTypeOK' /\ StartersOK' /\ WorkerOK' /\ ExportersOK'
  BY <1>0, <1>1, GoesOnTo, ExportGoesOn DEF lockVars, runVars, countVars
<1>3. saved' \in [1..MaxProjects -> 0..Preview] /\ astray' \in {"no", "cut", "left"}
  <2>1. CASE Saved(x)
    BY <1>0, <2>1 DEF Saved, StrayIf, ExportTypeOK, ClientsTypeOK
  <2>2. CASE ~Saved(x)
    BY <1>0, <2>2 DEF Generates, Generate, Generated, Save, ExportTypeOK, meshVars
  <2>3. QED  BY <2>1, <2>2
<1>4. LocksTypeOK' /\ ClientsTypeOK' /\ RunTypeOK' /\ CountsTypeOK'
  BY <1>0, <1>1 DEF LocksTypeOK, ClientsTypeOK, RunTypeOK, CountsTypeOK, lockVars, flagVars, clientVars,
                    runVars, sdkVars, histVars, countVars
<1>5. ExportTypeOK'
  BY <1>0, <1>1, <1>3 DEF ExportTypeOK
<1>6. QED  BY <1>2, <1>4, <1>5 DEF TypeInv, TypeOK

\* What the steps of the run leave alone.
LEMMA RunsFrame ==
    ASSUME TypeInv, Runs \/ \E op \in {"new", "resume"} : RunBegins(op)
    PROVE  /\ UNCHANGED <<lockVars, sdk, flagVars, project, clientVars, sdkVars, clients, ops, losses>>
           /\ LocksTypeOK' /\ ClientsTypeOK'
<1>1. UNCHANGED <<lockVars, sdk, flagVars, project, clientVars, sdkVars, clients, ops, losses>>
  BY DEF Runs, RunBegins, RunStarts, NextScan, RunEnds, Finalize, LeaveMeshWorker, StartMeshWorker, countVars
<1>2. QED
  BY <1>1, TypeUse DEF LocksTypeOK, ClientsTypeOK, lockVars, flagVars, clientVars, sdkVars

LEMMA TypeRunBegins == ASSUME TypeInv, NEW op \in {"new", "resume"}, RunBegins(op) PROVE TypeInv'
<1> DEFINE new == [Idle EXCEPT !.pc = "begin", !.op = op]
<1>0. Worker \in Users /\ RunTypeOK /\ ExportTypeOK /\ CountsTypeOK /\ WorkerOK
  BY TypeUse DEF Users, TypeInv
<1>1. new \in Locals /\ new.pc = "begin" /\ new.op = op /\ new.c = 0
  BY ThreadFacts DEF Idle, Locals, Places, Operations
<1>2. th' = [th EXCEPT ![Worker] = new]
  BY DEF RunBegins
<1> HIDE DEF new
<1>3. Now(Worker, "begin", op, 0)
  BY <1>1, <1>2, NowSets, TypeUse, ThreadFacts
<1>4. WorkerOK'
  BY <1>3 DEF RunBegins, Now, WorkerOK, runVars, countVars
<1>5. ThreadsTypeOK' /\ StartersOK' /\ WorkerOK' /\ ExportersOK'
  BY <1>0, <1>3, <1>4, UserMoves, RunsFrame, ThreadFacts DEF RunBegins, lockVars
<1>6. RunTypeOK' /\ ExportTypeOK' /\ CountsTypeOK'
  <2>1. overlap' \in BOOLEAN
    BY DEF RunBegins
  <2>2. QED  BY <1>0, <2>1 DEF RunBegins, RunTypeOK, ExportTypeOK, CountsTypeOK, runVars, meshVars, countVars
<1>7. QED  BY <1>5, <1>6, RunsFrame DEF TypeInv, TypeOK

LEMMA TypeRuns == ASSUME TypeInv, Runs PROVE TypeInv'
<1>0. /\ Worker \in Users /\ Worker \in Threads /\ RunTypeOK /\ ExportTypeOK /\ CountsTypeOK /\ WorkerOK
      /\ th \in [Threads -> Locals]
  BY TypeUse, ThreadFacts DEF Users, TypeInv
<1>1. startLock' = startLock /\ LocksTypeOK' /\ ClientsTypeOK'
  BY RunsFrame DEF lockVars
<1>a. Worker \notin Callers /\ Worker \notin Exporters
  BY ThreadFacts
<1>2. CASE RunStarts
  <2>1. \/ th[Worker].op = "new" /\ Now(Worker, "lockCmd", "new", th[Worker].c)
           /\ projects' = projects + 1 /\ runProject' = runProject
        \/ Now(Worker, "idle", "none", 0) /\ projects' = projects /\ runProject' = projectName
        \/ th[Worker].op # "new" /\ Now(Worker, "lockCmd", th[Worker].op, th[Worker].c)
           /\ projects' = projects /\ runProject' = projectName /\ projectName > 0
    BY <1>0, <1>2, NowGoto, NowLeaves, BoundFacts DEF RunStarts, Places, RunTypeOK
  <2>2. WorkerOK'
    BY <1>0, <2>1 DEF Now, WorkerOK, CountsTypeOK
  <2>3. ThreadsTypeOK' /\ StartersOK' /\ WorkerOK' /\ ExportersOK'
    BY <1>0, <1>1, <1>a, <2>1, <2>2, UserMoves
  <2>4. RunTypeOK' /\ ExportTypeOK'
    <3>1. RunTypeOK'
      <4>1. CASE th[Worker].op = "new"
        <5>1. run' = "running" /\ abort' = FALSE /\ projectName' = 0 /\ UNCHANGED <<runProject, overlap,
                                                                                    setUpFailed>>
          BY <1>2, <4>1, BoundFacts DEF RunStarts, histVars
        <5>2. 0 \in 0..MaxProjects
          BY BoundFacts
        <5>3. QED  BY <1>0, <5>1, <5>2 DEF RunTypeOK
      <4>2. CASE th[Worker].op # "new"
        BY <1>0, <1>2, <4>2 DEF RunStarts, RunTypeOK, histVars
      <4>3. QED  BY <4>1, <4>2
    <3>2. past' \in BOOLEAN
      BY <1>0, <1>2 DEF RunStarts, ExportTypeOK
    <3>3. UNCHANGED <<mesh, meshFailed, exportOf, saved, astray, exported>>
      BY <1>2 DEF RunStarts
    <3>4. QED  BY <1>0, <3>1, <3>2, <3>3 DEF ExportTypeOK
  <2>5. CountsTypeOK'
    BY <1>0, <1>2, BoundFacts DEF RunStarts, WorkerOK, CountsTypeOK
  <2>6. QED  BY <1>1, <2>3, <2>4, <2>5 DEF TypeInv, TypeOK
<1>3. CASE NextScan
  <2>1. Now(Worker, "lockCmd", th[Worker].op, th[Worker].c)
    BY <1>0, <1>3, NowGoto DEF NextScan, Places
  <2>2. WorkerOK'
    BY <1>0, <1>3, <2>1 DEF NextScan, Now, WorkerOK
  <2>3. ThreadsTypeOK' /\ StartersOK' /\ WorkerOK' /\ ExportersOK'
    BY <1>0, <1>1, <1>a, <2>1, <2>2, UserMoves
  <2>4. RunTypeOK' /\ ExportTypeOK' /\ CountsTypeOK'
    BY <1>0, <1>3, BoundFacts DEF NextScan, RunTypeOK, ExportTypeOK, CountsTypeOK, meshVars, histVars
  <2>5. QED  BY <1>1, <2>3, <2>4 DEF TypeInv, TypeOK
<1>4. CASE RunEnds \/ Finalize \/ LeaveMeshWorker
  <2>1. Now(Worker, "idle", "none", 0)
    BY <1>0, <1>4, NowLeaves DEF RunEnds, Finalize, LeaveMeshWorker
  <2>2. WorkerOK'
    BY <2>1 DEF Now, WorkerOK
  <2>3. ThreadsTypeOK' /\ StartersOK' /\ WorkerOK' /\ ExportersOK'
    BY <1>0, <1>1, <1>a, <2>1, <2>2, UserMoves
  <2>4. RunTypeOK' /\ CountsTypeOK'
    BY <1>0, <1>4 DEF RunEnds, Finalize, LeaveMeshWorker, RunTypeOK, CountsTypeOK, histVars, countVars
  <2>5. ExportTypeOK'
    <3>1. th[Worker].pc = "end" => runProject \in 1..MaxProjects
      BY <1>0, BoundFacts DEF WorkerOK, RunTypeOK
    <3>2. QED  BY <1>0, <1>4, <3>1 DEF RunEnds, Finalize, LeaveMeshWorker, StrayIf, ExportTypeOK, meshVars
  <2>6. QED  BY <1>1, <2>3, <2>4, <2>5 DEF TypeInv, TypeOK
<1>5. ASSUME NEW x \in Exporters, StartMeshWorker(x) PROVE TypeInv'
  <2> DEFINE its == [Idle EXCEPT !.op = "export", !.pc = "lockCmd"]
             mine == [th[Worker] EXCEPT !.pc = "end"]
  <2>1. x \in Threads /\ x # Worker
    BY ThreadFacts
  <2>2. /\ its \in Locals /\ its.pc = "lockCmd"
        /\ mine \in Locals /\ mine.pc = "end" /\ mine.op = th[Worker].op
    <3>1. its \in Locals /\ its.pc = "lockCmd"
      BY ThreadFacts DEF Idle, Locals, Places, Operations
    <3>2. mine \in Locals /\ mine.pc = "end" /\ mine.op = th[Worker].op
      BY <1>0, ThreadFacts DEF Locals, Places
    <3>3. QED  BY <3>1, <3>2
  <2>3. th' = [th EXCEPT ![x] = its, ![Worker] = mine]
    BY <1>5, <2>1 DEF StartMeshWorker
  <2> HIDE DEF its, mine
  <2>4. /\ th' \in [Threads -> Locals] /\ th'[x] = its /\ th'[Worker] = mine
        /\ \A u \in Threads : u \notin {x, Worker} => th'[u] = th[u]
    BY <1>0, <2>1, <2>2, <2>3
  <2>5. ThreadsTypeOK'
    BY <2>4 DEF ThreadsTypeOK, Locals
  <2>6. StartersOK'
    BY <1>1, <2>4, ThreadFacts DEF TypeInv, StartersOK, StarterOK, Owns
  <2>7. WorkerOK'
    BY <1>0, <1>5, <2>2, <2>4 DEF StartMeshWorker, WorkerOK, runVars, countVars
  <2>8. ExportersOK'
    BY <2>2, <2>4, ThreadFacts DEF TypeInv, ExportersOK, ExporterOK
  <2>9. RunTypeOK' /\ ExportTypeOK' /\ CountsTypeOK'
    BY <1>0, <1>5 DEF StartMeshWorker, StrayIf, RunTypeOK, ExportTypeOK, CountsTypeOK, runVars, histVars, countVars
  <2>10. QED  BY <1>1, <2>5, <2>6, <2>7, <2>8, <2>9 DEF TypeInv, TypeOK
<1>6. QED  BY <1>2, <1>3, <1>4, <1>5 DEF Runs

LEMMA TypeReceives ==
    ASSUME TypeInv, NEW c \in Clients, Receives(c) \/ DeviceOffline(c) \/ LoseLink(c)
    PROVE  TypeInv'
<1>0. /\ c \in Threads /\ c \notin Users /\ Users \subseteq Threads /\ th \in [Threads -> Locals]
      /\ LocksTypeOK /\ ClientsTypeOK /\ RunTypeOK /\ ExportTypeOK /\ CountsTypeOK
  BY TypeUse, ThreadFacts DEF Users
<1>1. UNCHANGED <<lockVars, sdk, project, run, runProject, abort, sdkVars, meshVars, histVars, projects>>
  BY DEF Receives, NoticeLoss, IgnoreLoss, HandleLoss, Report, DeviceOffline, LoseLink, runVars, countVars
<1>2. th' \in [Threads -> Locals] /\ \A u \in Users : th'[u] = th[u]
  <2>1. CASE LoseLink(c)
    BY <1>0, <2>1 DEF LoseLink
  <2>2. CASE ~LoseLink(c)
    <3>1. PICK p \in {"idle", "handle", "over", "waitConn"} : Goto(c, p)
      BY <2>2 DEF Receives, NoticeLoss, IgnoreLoss, HandleLoss, Report, DeviceOffline, Listens
    <3>2. Now(c, p, th[c].op, th[c].c)
      BY <1>0, <3>1, NowGoto DEF Places
    <3>3. QED  BY <1>0, <3>2 DEF Now
  <2>3. QED  BY <2>1, <2>2
<1>3. ThreadsTypeOK' /\ StartersOK' /\ WorkerOK' /\ ExportersOK'
  BY <1>1, <1>2, ReceiverMoves DEF lockVars
<1>4. LocksTypeOK' /\ RunTypeOK' /\ ExportTypeOK'
  <2>1. connecting' \in BOOLEAN /\ restarting' \in BOOLEAN /\ handling' \in BOOLEAN
    BY <1>0 DEF Receives, NoticeLoss, IgnoreLoss, HandleLoss, Report, DeviceOffline, LoseLink, LocksTypeOK,
          flagVars
  <2>2. projectName' \in 0..MaxProjects
    BY <1>0, BoundFacts DEF Receives, NoticeLoss, IgnoreLoss, HandleLoss, Report, DeviceOffline, LoseLink,
          RunTypeOK, runVars
  <2>3. QED  BY <1>0, <1>1, <2>1, <2>2 DEF LocksTypeOK, RunTypeOK, ExportTypeOK, lockVars, meshVars, histVars
<1>5. ClientsTypeOK'
  BY <1>0, <1>1 DEF Receives, NoticeLoss, IgnoreLoss, HandleLoss, Report, DeviceOffline, LoseLink,
        ClientsTypeOK, clientVars, sdkVars
<1>6. CountsTypeOK'
  BY <1>0, BoundFacts DEF Receives, NoticeLoss, IgnoreLoss, HandleLoss, Report, DeviceOffline, LoseLink,
        CountsTypeOK, countVars
<1>7. QED  BY <1>3, <1>4, <1>5, <1>6 DEF TypeInv, TypeOK

LEMMA TypeLate == ASSUME TypeInv, NEW c \in Clients, LateAnswer(c) PROVE TypeInv'
<1>0. TypeOK /\ StartersOK /\ WorkerOK /\ ExportersOK /\ ClientsTypeOK
  BY DEF TypeInv, TypeOK
<1>1. UNCHANGED <<lockVars, sdk, flagVars, project, clientVars, th, runVars, meshVars, abandoned, histVars,
                  countVars>>
  BY DEF LateAnswer
<1>2. PICK p \in late[c] : LateFinish(c, p) /\ late' = [late EXCEPT ![c] = @ \ {p}]
  BY DEF LateAnswer
<1>3. opened' \in [Clients -> 0..Preview] /\ setUp' \in [Clients -> BOOLEAN]
  <2>0. p \in 0..Preview
    BY <1>0, <1>2 DEF ClientsTypeOK
  <2>1. CASE UNCHANGED <<opened, setUp>>
    BY <1>0, <2>1 DEF ClientsTypeOK
  <2>2. CASE opened' = [opened EXCEPT ![c] = p] /\ setUp' = [setUp EXCEPT ![c] = FALSE]
    BY <1>0, <2>0, <2>2 DEF ClientsTypeOK
  <2>3. QED  BY <1>2, <2>1, <2>2 DEF LateFinish
<1>4. late' \in [Clients -> SUBSET (0..Preview)]
  BY <1>0, <1>2 DEF ClientsTypeOK
<1>5. ClientsTypeOK'
  BY <1>0, <1>1, <1>3, <1>4 DEF ClientsTypeOK, clientVars
<1>6. LocksTypeOK' /\ ThreadsTypeOK' /\ RunTypeOK' /\ ExportTypeOK' /\ CountsTypeOK'
  BY <1>0, <1>1 DEF TypeOK, LocksTypeOK, ThreadsTypeOK, RunTypeOK, ExportTypeOK, CountsTypeOK, lockVars, flagVars,
                    runVars, meshVars, histVars, countVars
<1>7. StartersOK' /\ WorkerOK' /\ ExportersOK'
  BY <1>0, <1>1 DEF StartersOK, StarterOK, Owns, WorkerOK, ExportersOK, ExporterOK, lockVars, runVars, countVars
<1>8. QED  BY <1>5, <1>6, <1>7 DEF TypeInv, TypeOK

LEMMA TypeInit == Init => TypeInv
<1> SUFFICES ASSUME Init PROVE TypeInv  OBVIOUS
<1>0. \A t \in Threads : th[t] = Idle
  BY DEF Init
<1>1. Idle \in Locals /\ Idle.pc = "idle" /\ Idle.op = "none"
  BY ThreadFacts DEF Idle, Locals, Places, Operations
<1>2. TypeOK
  <2>1. ThreadsTypeOK
    BY <1>1 DEF Init, ThreadsTypeOK, Locals
  <2>2. LocksTypeOK /\ ClientsTypeOK
    BY BoundFacts, ThreadFacts DEF Init, LocksTypeOK, ClientsTypeOK
  <2>a. 0 \in 0..MaxProjects /\ 0 \in 0..MaxOps /\ 0 \in 0..MaxScans /\ 0 \in 0..MaxLosses
    BY BoundFacts
  <2>3. RunTypeOK /\ CountsTypeOK
    BY <2>a, BoundFacts, ThreadFacts DEF Init, RunTypeOK, CountsTypeOK
  <2>5. ExportTypeOK
    BY <2>a, BoundFacts DEF Init, ExportTypeOK
  <2>4. QED  BY <2>1, <2>2, <2>3, <2>5 DEF TypeOK
<1>3. StartersOK
  <2>1. \A t \in Callers : startLock # t
    BY ThreadFacts DEF Init
  <2>2. QED
    BY <1>0, <1>1, <2>1, ThreadFacts DEF StartersOK, StarterOK, Owns, OnlyStart, Stopping, Starting
<1>4. WorkerOK /\ ExportersOK
  BY <1>0, <1>1, ThreadFacts DEF WorkerOK, ExportersOK, ExporterOK
<1>5. QED  BY <1>2, <1>3, <1>4 DEF TypeInv

LEMMA TypeNext == TypeInv /\ [Next]_vars => TypeInv'
<1> SUFFICES ASSUME TypeInv, [Next]_vars PROVE TypeInv'  OBVIOUS
<1>1. CASE Next
  BY <1>1, TypeAsks, TypeEnsure, TypeStarts, TypeStops, TypeCommands, TypeGenerates, TypeRunBegins, TypeRuns,
     TypeReceives, TypeLate DEF Next, Users
<1>2. CASE UNCHANGED vars
  BY <1>2 DEF vars, lockVars, flagVars, clientVars, sdkVars, runVars, meshVars, histVars, countVars, TypeInv,
     TypeOK, LocksTypeOK, ClientsTypeOK, ThreadsTypeOK, RunTypeOK, ExportTypeOK, CountsTypeOK, StartersOK,
     StarterOK, Owns, WorkerOK, ExportersOK, ExporterOK
<1>3. QED  BY <1>1, <1>2

THEOREM TypeInvariance == Spec => []TypeInv
BY TypeInit, TypeNext, PTL DEF Spec

\* Every variable of the service and of the threads that use it keeps its type.
THEOREM TypeCorrect == Spec => []TypeOK
BY TypeInvariance, PTL DEF TypeInv

-----------------------------------------------------------------------------
(* What may be answered late was given up before. *)

LateInv == \A c \in Clients : late[c] # {} => abandoned[c]

LEMMA LateNext == TypeInv /\ LateInv /\ [Next]_vars => LateInv'
<1> SUFFICES ASSUME TypeInv, LateInv, [Next]_vars PROVE LateInv'  OBVIOUS
<1>0. /\ late \in [Clients -> SUBSET (0..Preview)] /\ abandoned \in [Clients -> BOOLEAN]
  BY TypeUse DEF ClientsTypeOK
<1>1. CASE UNCHANGED <<late, abandoned>>
  BY <1>1 DEF LateInv
<1>2. ASSUME NEW k, late' = [late EXCEPT ![k] = {}], abandoned' = [abandoned EXCEPT ![k] = FALSE] PROVE LateInv'
  BY <1>0, <1>2 DEF LateInv
<1>3. ASSUME NEW t, GivesUp(t) PROVE LateInv'
  BY <1>0, <1>3 DEF GivesUp, LateInv
<1>4. ASSUME NEW k, late[k] # {}, abandoned' = abandoned, \A c \in Clients : c # k => late'[c] = late[c]
      PROVE  LateInv'
  BY <1>0, <1>4 DEF LateInv
<1>5. ASSUME NEW t, TakesLateAnswer(t) PROVE LateInv'
  <2>1. late[th[t].c] # {} /\ abandoned' = abandoned
    BY <1>5 DEF TakesLateAnswer
  <2>2. \A c \in Clients : c # th[t].c => late'[c] = late[c]
    BY <1>0, <1>5 DEF TakesLateAnswer
  <2>3. QED  BY <1>4, <2>1, <2>2
<1>6. ASSUME NEW c \in Clients, LateAnswer(c) PROVE LateInv'
  <2>1. late[c] # {} /\ abandoned' = abandoned
    BY <1>6 DEF LateAnswer
  <2>2. \A d \in Clients : d # c => late'[d] = late[d]
    BY <1>0, <1>6 DEF LateAnswer
  <2>3. QED  BY <1>4, <2>1, <2>2
<1>7. ASSUME NEW t, Commands(t) PROVE LateInv'
  <2>1. CASE Fails(t)
    BY <1>1, <1>3, <2>1 DEF Fails, sdkVars
  <2>2. CASE ~Fails(t) /\ ~TakesLateAnswer(t)
    BY <1>1, <1>7, <2>2 DEF Commands, LockCmd, Open, Opened, Mark, SetUp, IsSetUp, Scan, Scanned, UnlockCmd, sdkVars
  <2>3. QED  BY <1>5, <2>1, <2>2
<1>8. ASSUME NEW t, Starts(t) \/ Stops(t) PROVE LateInv'
  <2>1. CASE FailStart(t) \/ Close(t)
    BY <1>2, <2>1 DEF FailStart, Close
  <2>2. CASE ~FailStart(t) /\ ~Close(t)
    BY <1>1, <1>8, <2>2 DEF Starts, LockStart, AlreadyStarted, BeginStart, Connects, Initializes, Publish,
          ClearConnecting, UnlockStart, Stops, WaitConnecting, Take, Quiet, sdkVars
  <2>3. QED  BY <2>1, <2>2
<1>9. ASSUME NEW t, EnsureConnected(t) \/ \E op \in {"start", "restart", "force", "stop", "apply"} : Asks(t, op)
      PROVE  LateInv'
  BY <1>1, <1>9 DEF EnsureConnected, Asks, sdkVars
<1>10. ASSUME NEW x \in Exporters, Generates(x) PROVE LateInv'
  BY <1>1, <1>10 DEF Generates, Generate, Generated, Save, Saved, sdkVars
<1>11. ASSUME Runs \/ \E op \in {"new", "resume"} : RunBegins(op) PROVE LateInv'
  BY <1>1, <1>11 DEF RunBegins, Runs, RunStarts, NextScan, RunEnds, Finalize, LeaveMeshWorker, StartMeshWorker,
        sdkVars
<1>12. ASSUME NEW c \in Clients, Receives(c) \/ DeviceOffline(c) \/ LoseLink(c) PROVE LateInv'
  BY <1>1, <1>12 DEF Receives, NoticeLoss, IgnoreLoss, HandleLoss, Report, DeviceOffline, LoseLink, sdkVars
<1>13. CASE Next
  BY <1>6, <1>7, <1>8, <1>9, <1>10, <1>11, <1>12, <1>13 DEF Next
<1>14. CASE UNCHANGED vars
  BY <1>1, <1>14 DEF vars, sdkVars
<1>15. QED  BY <1>13, <1>14

LEMMA LateInvariance == Spec => []LateInv
<1>1. Init => LateInv
  BY DEF Init, LateInv
<1>2. QED  BY <1>1, LateNext, TypeInvariance, PTL DEF Spec

-----------------------------------------------------------------------------
(* Who moves: but for Initializes, which lets the client's receiver go on, and *)
(* StartMeshWorker, a step moves one thread.                                   *)

Stays(u) == th'[u] = th[u]

LEMMA CallerAlone ==
    ASSUME TypeInv, NEW t \in Callers, NEW u \in Threads, u # t,
           \/ \E op \in {"start", "restart", "force", "stop", "apply"} : Asks(t, op)
           \/ EnsureConnected(t)
           \/ Starts(t) /\ ~Initializes(t)
    PROVE  Stays(u)
<1>0. th \in [Threads -> Locals]
  BY TypeUse
<1>1. ASSUME NEW p, Goto(t, p) \/ Leaves(t) PROVE Stays(u)
  BY <1>0, <1>1 DEF Goto, Leaves, Stays
<1>2. QED
  BY <1>0, <1>1 DEF Asks, EnsureConnected, Starts, LockStart, AlreadyStarted, BeginStart, Connects, Publish,
                    ClearConnecting, FailStart, UnlockStart, Stays

LEMMA StopsAlone ==
    ASSUME TypeInv, NEW t \in Callers \cup Clients, NEW u \in Threads, u # t, Stops(t)
    PROVE  Stays(u)
<1>1. CASE Finishes(t)
  BY <1>1, FinishesTo DEF Now, Stays
<1>2. CASE ~Finishes(t)
  BY <1>2, StopsTo DEF Now, Stays
<1>3. QED  BY <1>1, <1>2

LEMMA UserAlone ==
    ASSUME TypeInv, NEW t \in Users, NEW u \in Threads, u # t, Commands(t) \/ Generates(t)
    PROVE  Stays(u)
<1>0. th \in [Threads -> Locals]
  BY TypeUse
<1>1. ASSUME NEW p, Goto(t, p) \/ Leaves(t) PROVE Stays(u)
  BY <1>0, <1>1 DEF Goto, Leaves, Stays
<1>2. CASE LockCmd(t) \/ UnlockCmd(t)
  BY <1>0, <1>1, <1>2 DEF LockCmd, UnlockCmd, Stays
<1>3. CASE Fails(t)
  BY <1>1, <1>3 DEF Fails
<1>4. CASE ~(LockCmd(t) \/ UnlockCmd(t) \/ Fails(t))
  BY <1>1, <1>4, CommandGoesOn, ExportGoesOn DEF Commands, GoesOn
<1>5. QED  BY <1>2, <1>3, <1>4

LEMMA RunAlone ==
    ASSUME TypeInv, NEW u \in Callers \cup Clients, Runs \/ \E op \in {"new", "resume"} : RunBegins(op)
    PROVE  Stays(u)
<1>0. th \in [Threads -> Locals] /\ u \in Threads /\ u # Worker /\ u \notin Exporters
  BY TypeUse, ThreadFacts
<1>1. ASSUME NEW p, Goto(Worker, p) \/ Leaves(Worker) PROVE Stays(u)
  BY <1>0, <1>1 DEF Goto, Leaves, Stays
<1>2. QED
  BY <1>0, <1>1 DEF Runs, RunBegins, RunStarts, NextScan, RunEnds, Finalize, LeaveMeshWorker, StartMeshWorker, Stays

LEMMA ReceiverAlone ==
    ASSUME TypeInv, NEW c \in Clients, NEW u \in Threads, u # c,
           Receives(c) \/ DeviceOffline(c) \/ LoseLink(c) \/ LateAnswer(c)
    PROVE  Stays(u)
<1>0. th \in [Threads -> Locals]
  BY TypeUse
<1>1. ASSUME NEW p, Goto(c, p) PROVE Stays(u)
  BY <1>0, <1>1 DEF Goto, Stays
<1>2. QED
  BY <1>1 DEF Receives, NoticeLoss, IgnoreLoss, HandleLoss, Report, DeviceOffline, Listens, LoseLink, LateAnswer,
              Stays

-----------------------------------------------------------------------------
(* A loss that is being handled has a receiver that will stop the service. *)

Handles(c) == th[c].pc \in {"waitConn", "take"}

\* Most steps leave what the property speaks of as it is.
LEMMA HandlingKept ==
    ASSUME HandlingEnds, sdk' = sdk \/ sdk' = 0, handling' => handling,
           \A c \in Clients : Handles(c) => Handles(c)'
    PROVE  HandlingEnds'
BY DEF HandlingEnds, Handles

LEMMA HandlingCaller ==
    ASSUME TypeInv, HandlingEnds, NEW t \in Callers,
           \/ \E op \in {"start", "restart", "force", "stop", "apply"} : Asks(t, op)
           \/ EnsureConnected(t)
           \/ Starts(t)
    PROVE  HandlingEnds'
<1>1. CASE Publish(t)
  BY <1>1 DEF Publish, HandlingEnds
<1>2. CASE Initializes(t)
  <2>1. \A c \in Clients : Handles(c) => Handles(c)'
    <3>1. th \in [Threads -> Locals] /\ Clients \subseteq Threads /\ t \notin Clients /\ t \in Threads
      BY TypeUse, ThreadFacts
    <3>2. QED  BY <1>2, <3>1 DEF Initializes, Handles
  <2>2. QED  BY <1>2, <2>1, HandlingKept DEF Initializes, flagVars
<1>3. CASE ~Publish(t) /\ ~Initializes(t)
  <2>1. \A c \in Clients : Handles(c) => Handles(c)'
    BY <1>3, CallerAlone, ThreadFacts DEF Handles, Stays
  <2>2. sdk' = sdk /\ handling' = handling
    BY <1>3 DEF Asks, EnsureConnected, Starts, LockStart, AlreadyStarted, BeginStart, Connects, ClearConnecting,
                FailStart, UnlockStart, flagVars
  <2>3. QED  BY <2>1, <2>2, HandlingKept
<1>4. QED  BY <1>1, <1>2, <1>3

LEMMA HandlingStops ==
    ASSUME TypeInv, HandlingEnds, NEW t \in Callers \cup Clients, Stops(t)
    PROVE  HandlingEnds'
<1>1. CASE Take(t)
  BY <1>1 DEF Take, HandlingEnds
<1>2. CASE ~Take(t)
  <2>1. sdk' = sdk /\ handling' = handling
    BY <1>2 DEF Stops, WaitConnecting, Quiet, Close, flagVars
  <2>2. ASSUME NEW c \in Clients, Handles(c) PROVE Handles(c)'
    <3>1. CASE c # t
      BY <2>2, <3>1, StopsAlone, ThreadFacts DEF Handles, Stays
    <3>2. CASE c = t
      <4>1. WaitConnecting(t)
        BY <1>2, <2>2, <3>2 DEF Stops, Quiet, Close, Handles
      <4>2. Now(t, "take", th[t].op, th[t].c)
        BY <4>1, TypeUse, NowGoto, ThreadFacts DEF WaitConnecting, Places
      <4>3. QED  BY <3>2, <4>2 DEF Now, Handles
    <3>3. QED  BY <3>1, <3>2
  <2>3. QED  BY <2>1, <2>2, HandlingKept
<1>3. QED  BY <1>1, <1>2

LEMMA HandlingReceives ==
    ASSUME TypeInv, HandlingEnds, NEW c \in Clients,
           Receives(c) \/ DeviceOffline(c) \/ LoseLink(c) \/ LateAnswer(c)
    PROVE  HandlingEnds'
<1>1. CASE HandleLoss(c)
  <2>1. Now(c, "waitConn", th[c].op, th[c].c)
    BY <1>1, TypeUse, NowGoto, ThreadFacts DEF HandleLoss, Places
  <2>2. QED  BY <2>1 DEF Now, HandlingEnds
<1>2. CASE ~HandleLoss(c)
  <2>1. sdk' = sdk /\ handling' = handling
    BY <1>2 DEF Receives, NoticeLoss, IgnoreLoss, Report, DeviceOffline, LoseLink, LateAnswer, flagVars
  <2>2. ASSUME NEW u \in Clients, Handles(u) PROVE Handles(u)'
    <3>1. u # c \/ th' = th
      BY <1>2, <2>2 DEF Receives, NoticeLoss, IgnoreLoss, Report, DeviceOffline, LoseLink, LateAnswer, Handles
    <3>2. QED  BY <2>2, <3>1, ReceiverAlone, ThreadFacts DEF Handles, Stays
  <2>3. QED  BY <2>1, <2>2, HandlingKept
<1>3. QED  BY <1>1, <1>2

LEMMA HandlingOthers ==
    ASSUME TypeInv, HandlingEnds,
           \/ \E t \in Users : Commands(t)
           \/ \E x \in Exporters : Generates(x)
           \/ \E op \in {"new", "resume"} : RunBegins(op)
           \/ Runs
    PROVE  HandlingEnds'
<1>1. sdk' = sdk /\ handling' = handling
  BY DEF Commands, TakesLateAnswer, LockCmd, Open, Opened, Mark, SetUp, IsSetUp, Scan, Scanned, UnlockCmd, Fails,
     Generates, Generate,
         Generated, Save, Saved, RunBegins, Runs, RunStarts, NextScan, RunEnds, Finalize, LeaveMeshWorker,
         StartMeshWorker, flagVars
<1>2. \A c \in Clients : Stays(c)
  BY UserAlone, RunAlone, ThreadFacts DEF Users
<1>3. QED  BY <1>1, <1>2, HandlingKept DEF Handles, Stays

\* While the service believes itself connected, a loss that is being handled has a
\* receiver that will stop the service.
THEOREM HandlingEndsCorrect == Spec => []HandlingEnds
<1>1. Init => HandlingEnds
  BY DEF Init, HandlingEnds
<1>2. TypeInv /\ HandlingEnds /\ [Next]_vars => HandlingEnds'
  <2> SUFFICES ASSUME TypeInv, HandlingEnds, [Next]_vars PROVE HandlingEnds'  OBVIOUS
  <2>1. CASE Next
    BY <2>1, HandlingCaller, HandlingStops, HandlingReceives, HandlingOthers DEF Next, Users
  <2>2. CASE UNCHANGED vars
    BY <2>2 DEF vars, flagVars, HandlingEnds
  <2>3. QED  BY <2>1, <2>2
<1>3. QED  BY <1>1, <1>2, TypeInvariance, PTL DEF Spec

-----------------------------------------------------------------------------
(* Every open connection is the service's or in somebody's hands. *)

OpenLinks == {"up", "lost", "told"}
Holds(t, c) == th[t].c = c /\ (Owns(t) \/ th[t].pc \in {"quiet", "close"})
OwnersAlone == \A t \in Callers : Owns(t) => sdk = 0
Kept(c) == sdk = c \/ \E t \in Callers \cup Clients : Holds(t, c)
AllKept == \A c \in Clients : link[c] \in OpenLinks => Kept(c)
ConnInv == OwnersAlone /\ AllKept

\* A thread is in the same position as to the connections.
Same(u) == (Owns(u)' <=> Owns(u)) /\ \A c \in Clients : Holds(u, c)' <=> Holds(u, c)

LEMMA StaysSame == ASSUME NEW u, Stays(u), startLock' = u <=> startLock = u PROVE Same(u)
BY DEF Stays, Owns, Holds, Same

\* A step of thread t keeps the invariant if it closes, publishes or goes on holding
\* what t held, holds what it opens, and starts to own only while there is no client.
LEMMA ConnStep ==
    ASSUME ConnInv, NEW t \in Callers \cup Clients,
           \A u \in Callers \cup Clients : u # t => Same(u),
           \A c \in Clients : link'[c] \in OpenLinks => link[c] \in OpenLinks \/ Holds(t, c)',
           \A c \in Clients : Holds(t, c) /\ link'[c] \in OpenLinks => Holds(t, c)' \/ sdk' = c,
           \A c \in Clients : sdk = c => sdk' = c \/ Holds(t, c)',
           Owns(t)' => sdk' = 0,
           sdk' \in {0, sdk} \/ \A u \in Callers : u # t => ~Owns(u)
    PROVE  ConnInv'
<1>1. OwnersAlone'
  BY DEF ConnInv, OwnersAlone, Same
<1>2. ASSUME NEW c \in Clients, link'[c] \in OpenLinks PROVE Kept(c)'
  <2>1. CASE Holds(t, c)'
    BY <2>1 DEF Kept
  <2>2. CASE ~Holds(t, c)'
    <3>1. Kept(c)
      BY <1>2, <2>2 DEF ConnInv, AllKept
    <3>2. CASE sdk = c
      BY <2>2, <3>2 DEF Kept
    <3>3. CASE sdk # c
      <4>1. PICK u \in Callers \cup Clients : Holds(u, c)
        BY <3>1, <3>3 DEF Kept
      <4>2. CASE u = t
        BY <1>2, <2>2, <4>1, <4>2 DEF Kept
      <4>3. CASE u # t
        BY <4>1, <4>3 DEF Kept, Same
      <4>4. QED  BY <4>2, <4>3
    <3>4. QED  BY <3>2, <3>3
  <2>3. QED  BY <2>1, <2>2
<1>3. QED  BY <1>1, <1>2 DEF ConnInv, AllKept

\* A step of a thread that holds nothing, and opens nothing.
LEMMA ConnQuiet ==
    ASSUME ConnInv, NEW t \in Callers \cup Clients,
           \A u \in Callers \cup Clients : u # t => Same(u),
           \A c \in Clients : link'[c] \in OpenLinks => link[c] \in OpenLinks,
           \A c \in Clients : ~Holds(t, c), Owns(t)' => sdk' = 0, sdk' = sdk
    PROVE  ConnInv'
BY ConnStep

\* A step that moves no thread that may hold a connection.
LEMMA ConnSame ==
    ASSUME ConnInv, \A u \in Callers \cup Clients : Same(u), sdk' = sdk,
           \A c \in Clients : link'[c] \in OpenLinks => link[c] \in OpenLinks
    PROVE  ConnInv'
BY DEF ConnInv, OwnersAlone, AllKept, Kept, Same

LEMMA ConnAsks ==
    ASSUME TypeInv, ConnInv, NEW t \in Callers,
           \/ \E op \in {"start", "restart", "force", "stop", "apply"} : Asks(t, op)
           \/ EnsureConnected(t)
    PROVE  ConnInv'
<1>1. \A c \in Clients : ~Holds(t, c)
  BY DEF Asks, EnsureConnected, Holds, Owns, Connecting
<1>2. startLock # t
  BY TypeUse DEF Asks, EnsureConnected, StarterOK, OnlyStart, Connecting, Stopping
<1>3. UNCHANGED <<startLock, sdk, link>>
  BY DEF Asks, EnsureConnected, lockVars, clientVars
<1>4. \A u \in Callers \cup Clients : u # t => Same(u)
  BY <1>3, CallerAlone, StaysSame, ThreadFacts
<1>5. QED  BY <1>1, <1>2, <1>3, <1>4, ConnQuiet DEF Owns

LEMMA ConnStarts == ASSUME TypeInv, ConnInv, NEW t \in Callers, Starts(t) PROVE ConnInv'
<1> USE DEF Now, Places
<1>0. /\ t \in Threads /\ t # NoThread /\ StarterOK(t) /\ th[t].c \in 0..MaxClients
      /\ LocksTypeOK /\ ClientsTypeOK /\ CountsTypeOK /\ th \in [Threads -> Locals]
      /\ Callers \cup Clients \subseteq Threads /\ NoThread \notin Threads
  BY TypeUse, ThreadFacts
<1>1. \A u \in Callers \cup Clients : u # t => (startLock' = u <=> startLock = u)
  BY <1>0 DEF Starts, LockStart, AlreadyStarted, BeginStart, Connects, Initializes, Publish, ClearConnecting,
              FailStart, UnlockStart, lockVars, StarterOK, OnlyStart
<1>2. ~Initializes(t) => \A u \in Callers \cup Clients : u # t => Same(u)
  BY <1>0, <1>1, CallerAlone, StaysSame
<1>3. CASE LockStart(t) \/ AlreadyStarted(t) \/ ClearConnecting(t) \/ UnlockStart(t)
  <2>1. \A c \in Clients : ~Holds(t, c)
    BY <1>3 DEF LockStart, AlreadyStarted, ClearConnecting, UnlockStart, Holds, Owns, Connecting
  <2>2. UNCHANGED <<sdk, link>> /\ ~Initializes(t)
    BY <1>3 DEF LockStart, AlreadyStarted, ClearConnecting, UnlockStart, Initializes, clientVars
  <2>3. ~Owns(t)'
    <3>1. CASE UnlockStart(t)
      BY <1>0, <3>1 DEF UnlockStart, Owns
    <3>2. CASE LockStart(t) \/ AlreadyStarted(t) \/ ClearConnecting(t)
      <4>1. PICK p \in {"take", "waitConn", "begin", "unlock", "unlockRetry"} : Goto(t, p)
        BY <3>2 DEF LockStart, AlreadyStarted, ClearConnecting
      <4>2. QED  BY <1>0, <4>1, NowGoto DEF Owns, Connecting
    <3>3. QED  BY <1>3, <3>1, <3>2
  <2>4. QED  BY <1>2, <2>1, <2>2, <2>3, ConnQuiet
<1>4. CASE BeginStart(t)
  <2>1. \A c \in Clients : ~Holds(t, c)
    BY <1>4 DEF BeginStart, Holds, Owns, Connecting
  <2>2. UNCHANGED <<sdk, link>> /\ ~Initializes(t) /\ sdk = 0
    BY <1>4 DEF BeginStart, Initializes
  <2>3. QED  BY <1>2, <2>1, <2>2, ConnQuiet
<1>5. CASE Connects(t)
  <2>1. Now(t, "lockCmd", th[t].op, th[t].c)
    BY <1>0, <1>5, NowGoto DEF Connects
  <2>2. Owns(t) /\ Owns(t)' /\ \A c \in Clients : Holds(t, c) <=> th[t].c = c
    BY <1>0, <1>5, <2>1 DEF Connects, StarterOK, OnlyStart, Connecting, Owns, Holds, lockVars
  <2>3. \A c \in Clients : Holds(t, c)' <=> th[t].c = c
    BY <2>1, <2>2 DEF Holds
  <2>4. sdk' = sdk /\ sdk = 0 /\ ~Initializes(t)
    BY <1>5, <2>2 DEF Connects, Initializes, ConnInv, OwnersAlone
  <2>5. \A c \in Clients : link'[c] = link[c] \/ th[t].c = c
    BY <1>0, <1>5 DEF Connects, ClientsTypeOK
  <2>6. QED  BY <1>2, <2>2, <2>3, <2>4, <2>5, ConnStep
<1>6. CASE Initializes(t)
  <2>0. startLock = t /\ Owns(t) /\ th[t].c \in Clients
    BY <1>0, <1>6 DEF Initializes, StarterOK, Owns, OnlyStart, Connecting
  <2>a. PICK c \in Clients : c = th[t].c
    BY <2>0
  <2>1. startLock = t /\ Owns(t) /\ th[t].c = c /\ c # t /\ th[c].pc \in {"idle", "over"}
    BY <1>6, <2>0, <2>a, ThreadFacts DEF Initializes
  <2>2. /\ th'[t].pc = "open" /\ th'[t].c = c /\ th'[c].pc = "idle"
        /\ \A u \in Threads : u \notin {t, c} => th'[u] = th[u]
    BY <1>0, <1>6, <2>1 DEF Initializes, Locals
  <2>3. UNCHANGED <<startLock, sdk>> /\ sdk = 0
    BY <1>6, <2>1 DEF Initializes, lockVars, ConnInv, OwnersAlone
  <2>4. Same(c)
    BY <2>1, <2>2, <2>3 DEF Same, Owns, Holds
  <2>5. \A u \in Callers \cup Clients : u # t => Same(u)
    BY <1>0, <2>2, <2>3, <2>4, StaysSame DEF Stays
  <2>6. Owns(t)' /\ (\A d \in Clients : Holds(t, d) => d = c) /\ Holds(t, c)'
    BY <2>1, <2>2, <2>3 DEF Owns, Holds, Connecting
  <2>7. \A d \in Clients : link'[d] = link[d] \/ d = c
    BY <1>0, <1>6, <2>1 DEF Initializes, ClientsTypeOK
  <2>8. QED  BY <2>3, <2>5, <2>6, <2>7, ConnStep
<1>7. CASE Publish(t)
  <2>1. Now(t, "connected", th[t].op, th[t].c)
    BY <1>0, <1>7, NowGoto DEF Publish
  <2>2. ~Owns(t)' /\ startLock = t /\ ~Initializes(t)
    BY <1>0, <1>7, <2>1 DEF Publish, Initializes, StarterOK, OnlyStart, Connecting, Owns
  <2>3. sdk = 0 /\ sdk' = th[t].c /\ link' = link
    BY <1>7, <2>2 DEF Publish, ConnInv, OwnersAlone, Owns, Connecting, clientVars
  <2>4. \A c \in Clients : Holds(t, c) => sdk' = c
    BY <2>3 DEF Holds
  <2>5. \A u \in Callers : u # t => ~Owns(u)
    BY <2>2 DEF Owns
  <2>6. QED  BY <1>2, <2>2, <2>3, <2>4, <2>5, ThreadFacts, ConnStep
<1>8. CASE FailStart(t)
  <2>1. Now(t, "failed", th[t].op, 0)
    BY <1>0, <1>8, NowWith, ThreadFacts DEF FailStart
  <2>2. ~Owns(t)' /\ ~Initializes(t) /\ sdk' = sdk
    BY <1>8, <2>1 DEF FailStart, Initializes, Connecting, Owns
  <2>3. \A c \in Clients : link'[c] \in OpenLinks => link[c] \in OpenLinks /\ th[t].c # c
    BY <1>0, <1>8 DEF FailStart, Closed, OpenLinks, ClientsTypeOK
  <2>4. QED  BY <1>2, <2>2, <2>3, ConnStep DEF Holds
<1>9. QED  BY <1>3, <1>4, <1>5, <1>6, <1>7, <1>8 DEF Starts

LEMMA ConnStops == ASSUME TypeInv, ConnInv, NEW t \in Callers \cup Clients, Stops(t) PROVE ConnInv'
<1> USE DEF Now
<1>0. /\ t \in Threads /\ th[t].c \in 0..MaxClients /\ sdk \in 0..MaxClients /\ ClientsTypeOK
      /\ th \in [Threads -> Locals] /\ Callers \cup Clients \subseteq Threads /\ 0 \notin Clients
  BY TypeUse, ThreadFacts DEF LocksTypeOK
<1>1. startLock' = startLock
  BY StopsFrame DEF lockVars
<1>2. \A u \in Callers \cup Clients : u # t => Same(u)
  BY <1>0, <1>1, StopsAlone, StaysSame
<1>3. ~Owns(t)
  BY StopsTo DEF Owns, Connecting, Stopping
<1>4. ~Owns(t)'
  <2>1. th'[t].pc \notin Connecting
    BY StopsTo, FinishesTo DEF Connecting
  <2>2. QED  BY <2>1 DEF Owns
<1>5. CASE WaitConnecting(t)
  <2>1. \A c \in Clients : ~Holds(t, c)
    BY <1>3, <1>5 DEF WaitConnecting, Holds
  <2>2. UNCHANGED <<sdk, link>>
    BY <1>5 DEF WaitConnecting, clientVars
  <2>3. QED  BY <1>2, <1>4, <2>1, <2>2, ConnQuiet
<1>6. CASE Take(t)
  <2>1. \A c \in Clients : ~Holds(t, c)
    BY <1>3, <1>6 DEF Take, Holds
  <2>2. \A c \in Clients : sdk = c => Holds(t, c)'
    <3>1. sdk \in Clients => Now(t, "quiet", th[t].op, sdk)
      BY <1>0, <1>6, NowWith DEF Take, Places
    <3>2. QED  BY <3>1 DEF Holds
  <2>3. sdk' = 0 /\ link' = link
    BY <1>6 DEF Take, clientVars
  <2>4. QED  BY <1>2, <1>4, <2>1, <2>2, <2>3, ConnStep
<1>7. CASE Quiet(t)
  <2>1. Now(t, "close", th[t].op, th[t].c)
    BY <1>0, <1>7, NowGoto DEF Quiet, Places
  <2>2. \A c \in Clients : Holds(t, c) => Holds(t, c)'
    BY <1>3, <2>1 DEF Holds
  <2>3. UNCHANGED <<sdk, link>>
    BY <1>7 DEF Quiet
  <2>4. QED  BY <1>2, <1>4, <2>2, <2>3, ConnStep
<1>8. CASE Close(t)
  <2>1. \A c \in Clients : link'[c] \in OpenLinks => link[c] \in OpenLinks /\ th[t].c # c
    BY <1>0, <1>8 DEF Close, Closed, OpenLinks, ClientsTypeOK
  <2>2. sdk' = sdk
    BY <1>8 DEF Close
  <2>3. QED  BY <1>2, <1>4, <2>1, <2>2, ConnStep DEF Holds
<1>9. QED  BY <1>5, <1>6, <1>7, <1>8 DEF Stops

\* A command of the thread with the start lock leaves the client in its hands; any
\* other command has no client in its hands.
LEMMA ConnCommands == ASSUME TypeInv, ConnInv, NEW t \in Users, Commands(t) PROVE ConnInv'
<1> USE DEF Now
<1>0. /\ t \in Threads /\ th \in [Threads -> Locals] /\ (t \in Callers => StarterOK(t))
      /\ Callers \cup Clients \subseteq Threads /\ startLock \in Callers \cup {NoThread}
  BY TypeUse, ThreadFacts DEF Users, LocksTypeOK
<1>1. UNCHANGED <<startLock, sdk, link>>
  BY DEF Commands, LockCmd, Open, Opened, Mark, SetUp, IsSetUp, Scan, Scanned, UnlockCmd, Fails, TakesLateAnswer,
         lockVars, clientVars
<1>2. \A u \in Callers \cup Clients : u # t => Same(u)
  BY <1>0, <1>1, UserAlone, StaysSame
<1>3. CASE t \in Callers
  <2>1. CASE startLock = t
    <3>1. th[t].pc \in Connecting
      BY <1>0, <1>3, <2>1 DEF Commands, LockCmd, Open, Opened, Mark, SetUp, IsSetUp, Scan, Scanned, UnlockCmd,
            Fails, TakesLateAnswer, StarterOK, OnlyStart, Stopping, Connecting
    <3>2. th'[t].c = th[t].c /\ th'[t].pc \in Connecting
      <4>1. CASE LockCmd(t)
        BY <2>1, <4>1, LockCmdTo DEF Connecting
      <4>2. CASE UnlockCmd(t)
        BY <1>3, <2>1, <4>2, UnlockCmdTo, ThreadFacts DEF Connecting
      <4>3. CASE Fails(t)
        BY <2>1, <4>3, FailsTo DEF Connecting
      <4>4. CASE ~(LockCmd(t) \/ UnlockCmd(t) \/ Fails(t))
        <5>1. PICK p \in Places : <<th[t].pc, p>> \in Going /\ Goto(t, p)
          BY <4>4, CommandGoesOn DEF Commands, GoesOn
        <5>2. QED  BY <1>0, <3>1, <5>1, NowGoto DEF Going, Connecting
      <4>5. QED  BY <4>1, <4>2, <4>3, <4>4
    <3>3. Same(t)
      BY <1>1, <2>1, <3>1, <3>2 DEF Same, Owns, Holds, Connecting
    <3>4. Owns(t)
      BY <2>1, <3>1 DEF Owns
    <3>5. QED  BY <1>1, <1>2, <1>3, <3>3, <3>4, ConnStep DEF Same, ConnInv, OwnersAlone
  <2>2. CASE startLock # t
    <3>1. \A c \in Clients : ~Holds(t, c)
      BY <2>2 DEF Commands, LockCmd, Open, Opened, Mark, SetUp, IsSetUp, Scan, Scanned, UnlockCmd, Fails,
                  TakesLateAnswer, Holds, Owns
    <3>2. QED  BY <1>1, <1>2, <1>3, <2>2, <3>1, ConnQuiet DEF Owns
  <2>3. QED  BY <2>1, <2>2
<1>4. CASE t \notin Callers
  BY <1>1, <1>2, <1>4, ConnSame, ThreadFacts DEF Users
<1>5. QED  BY <1>3, <1>4

LEMMA ConnReceives ==
    ASSUME TypeInv, ConnInv, NEW c \in Clients, Receives(c) \/ DeviceOffline(c) \/ LoseLink(c)
    PROVE  ConnInv'
<1>0. c \in Threads /\ th \in [Threads -> Locals] /\ Callers \cup Clients \subseteq Threads /\ c \notin Callers
      /\ ClientsTypeOK
  BY TypeUse, ThreadFacts
<1>1. UNCHANGED <<startLock, sdk>>
  BY DEF Receives, NoticeLoss, IgnoreLoss, HandleLoss, Report, DeviceOffline, LoseLink, lockVars
<1>2. \A u \in Callers \cup Clients : u # c => Same(u)
  BY <1>0, <1>1, ReceiverAlone, StaysSame
<1>3. \A d \in Clients : link'[d] \in OpenLinks => link[d] \in OpenLinks
  BY <1>0 DEF Receives, NoticeLoss, IgnoreLoss, HandleLoss, Report, DeviceOffline, LoseLink, OpenLinks,
              ClientsTypeOK, clientVars
<1>4. CASE LoseLink(c)
  <2>1. Same(c)
    BY <1>1, <1>4 DEF LoseLink, Same, Owns, Holds
  <2>2. QED  BY <1>1, <1>2, <1>3, <2>1, ConnSame
<1>5. CASE ~LoseLink(c)
  <2>1. \A d \in Clients : ~Holds(c, d)
    BY <1>5 DEF Receives, NoticeLoss, IgnoreLoss, HandleLoss, Report, DeviceOffline, Holds, Owns, Connecting
  <2>2. startLock # c
    BY <1>0, TypeUse, ThreadFacts DEF LocksTypeOK
  <2>3. QED  BY <1>1, <1>2, <1>3, <2>1, <2>2, ConnQuiet DEF Owns
<1>6. QED  BY <1>4, <1>5

LEMMA ConnLate == ASSUME ConnInv, NEW c \in Clients, LateAnswer(c) PROVE ConnInv'
<1>1. UNCHANGED <<startLock, sdk, link, th>>
  BY DEF LateAnswer, lockVars, clientVars
<1>2. \A u \in Callers \cup Clients : Same(u)
  BY <1>1, StaysSame DEF Stays
<1>3. QED  BY <1>1, <1>2, ConnSame

LEMMA ConnOthers ==
    ASSUME TypeInv, ConnInv,
           \/ \E x \in Exporters : Generates(x)
           \/ \E op \in {"new", "resume"} : RunBegins(op)
           \/ Runs
    PROVE  ConnInv'
<1>1. UNCHANGED <<startLock, sdk, link>>
  BY DEF Generates, Generate, Generated, Save, Saved, RunBegins, Runs, RunStarts, NextScan, RunEnds, Finalize,
         LeaveMeshWorker, StartMeshWorker, lockVars, clientVars
<1>2. \A u \in Callers \cup Clients : Same(u)
  BY <1>1, UserAlone, RunAlone, StaysSame, ThreadFacts DEF Users
<1>3. QED  BY <1>1, <1>2, ConnSame

LEMMA ConnInit == Init => ConnInv
<1>1. ASSUME Init, NEW t \in Callers PROVE ~Owns(t)
  BY <1>1, ThreadFacts DEF Init, Owns
<1>2. QED  BY <1>1 DEF Init, ConnInv, OwnersAlone, AllKept, OpenLinks

LEMMA ConnNext == TypeInv /\ ConnInv /\ [Next]_vars => ConnInv'
<1> SUFFICES ASSUME TypeInv, ConnInv, [Next]_vars PROVE ConnInv'  OBVIOUS
<1>1. CASE Next
  BY <1>1, ConnAsks, ConnStarts, ConnStops, ConnCommands, ConnReceives, ConnLate, ConnOthers DEF Next,
     Users
<1>2. CASE UNCHANGED vars
  BY <1>2 DEF vars, lockVars, clientVars, ConnInv, OwnersAlone, AllKept, Kept, Holds, Owns
<1>3. QED  BY <1>1, <1>2

LEMMA ConnInvariance == Spec => []ConnInv
BY ConnInit, ConnNext, TypeInvariance, PTL DEF Spec

\* Every open connection is the service's, or in the hands of a thread that will hand
\* it over or close it.
THEOREM NoLeakedConnectionCorrect == Spec => []NoLeakedConnection
<1>1. TypeInv /\ ConnInv => NoLeakedConnection
  <2> SUFFICES ASSUME TypeInv, ConnInv, NEW c \in Clients, link[c] \notin {"none", "closed", "cut"}, sdk # c
               PROVE  \E t \in Callers \cup Clients :
                         th[t].c = c /\ (startLock = t \/ th[t].pc \in {"quiet", "close"})
    BY DEF NoLeakedConnection
  <2>1. link[c] \in OpenLinks
    BY TypeUse DEF ClientsTypeOK, OpenLinks
  <2>2. QED  BY <2>1 DEF ConnInv, AllKept, Kept, Holds, Owns
<1>2. QED  BY <1>1, TypeInvariance, ConnInvariance, PTL

-----------------------------------------------------------------------------
(* The project the service believes open is the one the SDK has open. *)

\* Where a thread holds the command lock.
Commanding == {"init", "open", "opening", "mark", "setup", "setting", "unlockCmd", "scan", "scanning",
               "generate", "generating", "save", "saving"}

\* What a thread relies on: the command lock is its own and the service has no other
\* client than its own; what it makes of the project is what the service believes.
UserInv(t) ==
    /\ th[t].pc \in Commanding =>
          cmdLock = t /\ sdk \in {0, th[t].c} /\ th[t].c \in Clients /\ link[th[t].c] # "none"
    /\ t \in Callers /\ th[t].pc = "publish" => cmdLock = NoThread
    /\ t \in Callers /\ th[t].pc = "connect" =>
          th[t].c \in Clients /\ th[t].c <= clients /\ link[th[t].c] = "none"
    /\ Owns(t) /\ th[t].pc \notin {"connect", "fail"} => th[t].c \in Clients /\ link[th[t].c] # "none"
    /\ th[t].pc = "opening" => project = NoProject
    /\ th[t].pc = "mark" /\ Trusted(th[t].c) => opened[th[t].c] = Opens(t)
    /\ Owns(t) /\ th[t].pc \in {"setup", "setting", "unlockCmd", "publish"} /\ project # NoProject
          /\ Trusted(th[t].c) => opened[th[t].c] = project
ServiceInv ==
    /\ \A c \in Clients : c > clients => link[c] = "none"
    /\ sdk # 0 => link[sdk] # "none"
    /\ ProjectIsOpen
ProjInv == (\A t \in Users : UserInv(t)) /\ ServiceInv

\* What most steps do to the client, the connections and the projects.
Fades ==
    /\ sdk' \in {0, sdk} /\ project' \in {NoProject, project} /\ clients' \in {clients, clients + 1}
    /\ \A c \in Clients : /\ link'[c] = "none" <=> link[c] = "none"
                          /\ Trusted(c)' => Trusted(c) /\ opened'[c] = opened[c]

\* Another thread is left alone.
Apart(u) == Stays(u) /\ (startLock' = u <=> startLock = u) /\ Opens(u)' = Opens(u)

LEMMA ServiceFades == ASSUME TypeInv, ServiceInv, Fades PROVE ServiceInv'
<1>0. sdk \in 0..MaxClients /\ clients \in 0..MaxClients /\ Clients = 1..MaxClients /\ MaxClients \in Nat
  BY TypeUse, ThreadFacts DEF LocksTypeOK, CountsTypeOK
<1>1. \A c \in Clients : c > clients' => link'[c] = "none"
  BY <1>0 DEF ServiceInv, Fades, Trusted
<1>2. CASE sdk' = 0
  BY <1>1, <1>2 DEF ServiceInv, ProjectIsOpen
<1>3. CASE sdk' = sdk /\ sdk # 0
  <2>1. sdk \in Clients
    BY <1>0, <1>3
  <2>2. QED  BY <1>1, <1>3, <2>1 DEF ServiceInv, ProjectIsOpen, Fades, Trusted
<1>4. QED  BY <1>2, <1>3 DEF Fades, Trusted

\* A step that fades keeps what another thread relies on, if it takes no lock from it.
LEMMA UserFades ==
    ASSUME NEW u \in Users, TypeInv, UserInv(u), Fades, Apart(u), cmdLock = u => cmdLock' = u,
           u \in Callers /\ th[u].pc = "publish" => cmdLock' = NoThread
    PROVE  UserInv(u)'
<1>1. th'[u] = th[u] /\ (Owns(u)' <=> Owns(u)) /\ Opens(u)' = Opens(u)
  BY DEF Apart, Stays, Owns
<1>2. th[u].c \in Clients => (link'[th[u].c] = "none" <=> link[th[u].c] = "none")
                             /\ (Trusted(th[u].c)' => Trusted(th[u].c) /\ opened'[th[u].c] = opened[th[u].c])
  BY <1>1 DEF Fades, Trusted
<1>3. th[u].c \in Clients /\ th[u].c <= clients => th[u].c <= clients'
  <2>1. clients \in Nat /\ \A k \in Clients : k \in Nat
    BY TypeUse, ThreadFacts DEF CountsTypeOK
  <2>2. ASSUME NEW k \in Nat, k <= clients PROVE k <= clients'
    <3>1. clients' = clients \/ clients' = clients + 1
      BY DEF Fades, Trusted
    <3>2. QED  BY <2>1, <2>2, <3>1
  <2>3. QED  BY <2>1, <2>2
<1>4. QED  BY <1>1, <1>2, <1>3 DEF UserInv, Fades, Trusted, Commanding, Owns, Connecting

\* A thread that has neither the command lock nor a client to publish relies on little.
LEMMA UserAway ==
    ASSUME NEW u \in Users, UserInv(u), Apart(u), th[u].pc \notin Commanding,
           th[u].pc = "publish" => ~Owns(u) /\ u \notin Callers,
           \A c \in Clients : link'[c] = "none" <=> link[c] = "none", clients' = clients
    PROVE  UserInv(u)'
<1>1. th'[u] = th[u] /\ (Owns(u)' <=> Owns(u))
  BY DEF Apart, Stays, Owns
<1>2. QED  BY <1>1 DEF UserInv, Commanding

LEMMA ProjFades ==
    ASSUME TypeInv, ProjInv, Fades, NEW t \in Threads, \A u \in Users : u # t => Apart(u),
           \/ cmdLock' = cmdLock
           \/ cmdLock = t /\ cmdLock' = NoThread
           \/ cmdLock = NoThread /\ cmdLock' = t /\ \A u \in Callers : th[u].pc # "publish",
           t \in Users => UserInv(t)'
    PROVE  ProjInv'
<1>1. ASSUME NEW u \in Users, u # t PROVE UserInv(u)'
  <2>1. UserInv(u) /\ Apart(u) /\ u # NoThread /\ t # NoThread
    BY <1>1, ThreadFacts DEF ProjInv, Users
  <2>2. cmdLock = u => cmdLock' = u
    BY <1>1, <2>1
  <2>3. u \in Callers /\ th[u].pc = "publish" => cmdLock' = NoThread
    BY <1>1, <2>1 DEF UserInv
  <2>4. QED  BY <2>1, <2>2, <2>3, UserFades
<1>2. ServiceInv'
  BY ServiceFades DEF ProjInv
<1>3. QED  BY <1>1, <1>2 DEF ProjInv

\* A thread that is after the step neither in a command nor an owner relies on nothing.
LEMMA UserOut ==
    ASSUME NEW t \in Users, th'[t].pc \notin Commanding \cup {"publish", "connect"},
           Owns(t)' => th'[t].pc = "fail"
    PROVE  UserInv(t)'
BY DEF UserInv, Commanding

LEMMA CallerApart ==
    ASSUME TypeInv, NEW t \in Callers, NEW u \in Users, u # t,
           \/ \E op \in {"start", "restart", "force", "stop", "apply"} : Asks(t, op)
           \/ EnsureConnected(t)
           \/ Starts(t)
    PROVE  Apart(u)
<1>0. /\ t \in Threads /\ u \in Threads /\ u \notin Clients /\ t # NoThread /\ u # NoThread /\ StarterOK(t)
      /\ th \in [Threads -> Locals]
  BY TypeUse, ThreadFacts DEF Users
<1>1. Stays(u)
  <2>1. CASE Initializes(t)
    <3>1. th[t].c \in Clients
      BY <1>0, <2>1 DEF Initializes, StarterOK, Owns, OnlyStart, Connecting
    <3>2. QED  BY <1>0, <2>1, <3>1 DEF Initializes, Stays
  <2>2. CASE ~Initializes(t)
    BY <1>0, <2>2, CallerAlone
  <2>3. QED  BY <2>1, <2>2
<1>2. startLock' = u <=> startLock = u
  BY <1>0 DEF Asks, EnsureConnected, Starts, LockStart, AlreadyStarted, BeginStart, Connects, Initializes, Publish,
              ClearConnecting, FailStart, UnlockStart, lockVars, StarterOK, OnlyStart
<1>3. projects' = projects /\ runProject' = runProject
  BY DEF Asks, EnsureConnected, Starts, LockStart, AlreadyStarted, BeginStart, Connects, Initializes, Publish,
              ClearConnecting, FailStart, UnlockStart, runVars, countVars
<1>4. QED  BY <1>1, <1>2, <1>3 DEF Apart, Stays, Opens

LEMMA StopsApart ==
    ASSUME TypeInv, NEW t \in Callers \cup Clients, NEW u \in Users, u # t, Stops(t)
    PROVE  Apart(u)
<1>1. Stays(u)
  BY StopsAlone, ThreadFacts DEF Users
<1>2. QED  BY <1>1, StopsFrame DEF Apart, Stays, Opens, lockVars, runVars, countVars

LEMMA UserApart ==
    ASSUME TypeInv, NEW t \in Users, NEW u \in Users, u # t, Commands(t) \/ Generates(t)
    PROVE  Apart(u)
<1>0. startLock \in Callers \cup {NoThread} /\ Worker \notin Callers /\ Worker # NoThread
  BY TypeUse, ThreadFacts DEF LocksTypeOK
<1>1. Stays(u)
  BY UserAlone, ThreadFacts DEF Users
<1>2. startLock' = startLock /\ projects' = projects
  BY DEF Commands, LockCmd, Open, Opened, Mark, SetUp, IsSetUp, Scan, Scanned, UnlockCmd, Fails, TakesLateAnswer,
     Generates,
         Generate, Generated, Save, Saved, lockVars, countVars
<1>3. t # Worker => runProject' = runProject
  BY <1>0 DEF Commands, LockCmd, Open, Opened, Mark, SetUp, IsSetUp, Scan, Scanned, UnlockCmd,
         Fails, TakesLateAnswer, Generates, Generate, Generated, Save, Saved, runVars
<1>4. QED  BY <1>1, <1>2, <1>3 DEF Apart, Stays, Opens

LEMMA ReceiverApart ==
    ASSUME TypeInv, NEW c \in Clients, NEW u \in Users, Receives(c) \/ DeviceOffline(c) \/ LoseLink(c)
    PROVE  Apart(u)
<1>1. Stays(u)
  BY ReceiverAlone, ThreadFacts DEF Users
<1>2. UNCHANGED <<startLock, projects, runProject>>
  BY DEF Receives, NoticeLoss, IgnoreLoss, HandleLoss, Report, DeviceOffline, LoseLink, lockVars, runVars, countVars
<1>3. QED  BY <1>1, <1>2 DEF Apart, Stays, Opens

LEMMA ProjReceives ==
    ASSUME TypeInv, ProjInv, NEW c \in Clients, Receives(c) \/ DeviceOffline(c) \/ LoseLink(c)
    PROVE  ProjInv'
<1>0. c \in Threads /\ c \notin Users /\ ClientsTypeOK
  BY TypeUse, ThreadFacts DEF Users
<1>1. Fades /\ cmdLock' = cmdLock
  BY <1>0 DEF Receives, NoticeLoss, IgnoreLoss, HandleLoss, Report, DeviceOffline, LoseLink, Fades, Trusted,
              ClientsTypeOK, lockVars, clientVars, sdkVars, countVars
<1>2. QED  BY <1>0, <1>1, ReceiverApart, ProjFades

LEMMA ProjStops == ASSUME TypeInv, ProjInv, NEW t \in Callers \cup Clients, Stops(t) PROVE ProjInv'
<1>0. t \in Threads /\ ClientsTypeOK
  BY TypeUse, ThreadFacts
<1>1. cmdLock' = cmdLock
  BY StopsFrame DEF lockVars
<1>2. Fades
  <2>1. sdk' \in {0, sdk} /\ project' \in {NoProject, project} /\ clients' = clients
    BY DEF Stops, WaitConnecting, Take, Quiet, Close, countVars
  <2>2. ASSUME NEW c \in Clients
        PROVE  /\ link'[c] = "none" <=> link[c] = "none"
               /\ Trusted(c)' => Trusted(c) /\ opened'[c] = opened[c]
    <3>1. CASE Close(t)
      BY <1>0, <3>1 DEF Close, Closed, ClientsTypeOK, Trusted
    <3>2. CASE ~Close(t)
      BY <3>2 DEF Stops, WaitConnecting, Take, Quiet, clientVars, sdkVars, Trusted
    <3>3. QED  BY <3>1, <3>2
  <2>3. QED  BY <2>1, <2>2 DEF Fades, Trusted
<1>3. ASSUME t \in Users PROVE UserInv(t)'
  <2>1. th'[t].pc \notin Commanding \cup {"publish", "connect"} /\ th'[t].pc \notin Connecting
    BY StopsTo, FinishesTo DEF Now, Commanding, Connecting
  <2>2. QED  BY <1>3, <2>1, UserOut DEF Owns
<1>4. QED  BY <1>0, <1>1, <1>2, <1>3, StopsApart, ProjFades

LEMMA ProjAsks ==
    ASSUME TypeInv, ProjInv, NEW t \in Callers,
           \/ \E op \in {"start", "restart", "force", "stop", "apply"} : Asks(t, op)
           \/ EnsureConnected(t)
    PROVE  ProjInv'
<1>0. t \in Threads /\ t \in Users
  BY ThreadFacts DEF Users
<1>1. Fades /\ UNCHANGED lockVars
  BY DEF Asks, EnsureConnected, Fades, Trusted, clientVars, sdkVars, countVars
<1>2. startLock # t
  BY TypeUse DEF Asks, EnsureConnected, StarterOK, OnlyStart, Connecting, Stopping
<1>3. th'[t].pc \in {"waitConn", "ensure", "lockStart", "lockCmd"}
  <2>0. th \in [Threads -> Locals]
    BY TypeUse
  <2>1. CASE EnsureConnected(t)
    <3>1. PICK p \in {"lockCmd", "lockStart"} : Goto(t, p)
      BY <2>1 DEF EnsureConnected
    <3>2. QED  BY <1>0, <2>0, <3>1, NowGoto DEF Now, Places
  <2>2. ASSUME NEW op \in {"start", "restart", "force", "stop", "apply"}, Asks(t, op)
        PROVE  th'[t].pc \in {"waitConn", "ensure", "lockStart"}
    BY <1>0, <2>0, <2>2 DEF Asks, Idle
  <2>3. QED  BY <2>1, <2>2
<1>4. UserInv(t)'
  BY <1>0, <1>1, <1>2, <1>3, UserOut DEF Owns, Commanding, lockVars
<1>5. QED  BY <1>0, <1>1, <1>4, CallerApart, ProjFades DEF lockVars

LEMMA ProjStarts == ASSUME TypeInv, ProjInv, ConnInv, NEW t \in Callers, Starts(t) PROVE ProjInv'
<1> USE DEF Now, Places
<1>0. /\ t \in Threads /\ t \in Users /\ t # NoThread /\ StarterOK(t) /\ UserInv(t)
      /\ LocksTypeOK /\ ClientsTypeOK /\ CountsTypeOK /\ th \in [Threads -> Locals]
  BY TypeUse, ThreadFacts DEF Users, ProjInv
<1>1. \A u \in Users : u # t => Apart(u)
  BY CallerApart
<1>2. cmdLock' = cmdLock
  BY StartsFrame
<1>3. CASE LockStart(t) \/ AlreadyStarted(t) \/ ClearConnecting(t) \/ UnlockStart(t)
  <2>1. Fades
    BY <1>3 DEF LockStart, AlreadyStarted, ClearConnecting, UnlockStart, Fades, Trusted, clientVars, sdkVars,
       countVars
  <2>2. UserInv(t)'
    <3>1. CASE UnlockStart(t)
      <4>1. \/ Now(t, "lockCmd", th[t].op, 0) \/ Now(t, "idle", "none", 0)
            \/ Now(t, "lockStart", th[t].op, th[t].c)
        BY <1>0, <3>1, NowWith, NowGoto, NowLeaves, ThreadFacts DEF UnlockStart
      <4>2. ~Owns(t)'
        BY <1>0, <3>1 DEF UnlockStart, Owns
      <4>3. QED  BY <1>0, <4>1, <4>2, UserOut DEF Commanding
    <3>2. CASE LockStart(t) \/ AlreadyStarted(t) \/ ClearConnecting(t)
      <4>1. PICK p \in {"take", "waitConn", "begin", "unlock", "unlockRetry"} : Goto(t, p)
        BY <3>2 DEF LockStart, AlreadyStarted, ClearConnecting
      <4>2. QED  BY <1>0, <4>1, NowGoto, UserOut DEF Owns, Connecting, Commanding
    <3>3. QED  BY <1>3, <3>1, <3>2
  <2>3. QED  BY <1>0, <1>1, <1>2, <2>1, <2>2, ProjFades
<1>4. CASE BeginStart(t)
  <2>1. Fades
    BY <1>4 DEF BeginStart, Fades, Trusted, sdkVars
  <2>2. clients + 1 \in Clients /\ clients + 1 \in 0..MaxClients /\ clients + 1 > clients
    BY <1>0, <1>4, ThreadFacts DEF BeginStart, CountsTypeOK
  <2>3. Now(t, "connect", th[t].op, clients + 1)
    BY <1>0, <1>4, <2>2, NowWith DEF BeginStart
  <2>4. link'[clients + 1] = "none" /\ clients' = clients + 1 /\ clients + 1 <= clients + 1
    BY <1>0, <1>4, <2>2, ThreadFacts DEF BeginStart, ProjInv, ServiceInv, CountsTypeOK
  <2>5. UserInv(t)'
    BY <2>2, <2>3, <2>4 DEF UserInv, Commanding
  <2>6. QED  BY <1>0, <1>1, <1>2, <2>1, <2>5, ProjFades
<1>5. CASE Connects(t)
  <2>1. PICK c \in Clients : c = th[t].c /\ link[c] = "none"
    BY <1>0, <1>5 DEF Connects, UserInv
  <2>2. Now(t, "lockCmd", th[t].op, th[t].c)
    BY <1>0, <1>5, NowGoto DEF Connects
  <2>3. /\ link'[c] = "up" /\ (\A d \in Clients : d # c => link'[d] = link[d])
        /\ UNCHANGED <<sdk, cmdLock, opened, abandoned, clients, startLock>> /\ project' = NoProject
    BY <1>0, <1>5, <2>1 DEF Connects, ClientsTypeOK, sdkVars, countVars, lockVars
  <2>4. startLock = t
    BY <1>0, <1>5 DEF Connects, StarterOK, OnlyStart
  <2>5. ASSUME NEW u \in Users, u # t PROVE UserInv(u)'
    <3>1. Apart(u) /\ UserInv(u) /\ ~Owns(u) /\ (u \in Callers => th[u].pc \notin {"publish", "connect"})
      BY <1>1, <2>4, <2>5, TypeUse DEF ProjInv, Owns, StarterOK, OnlyStart
    <3>2. th'[u] = th[u] /\ ~Owns(u)' /\ Opens(u)' = Opens(u)
      BY <3>1 DEF Apart, Stays, Owns
    <3>3. th[u].c \in Clients /\ link[th[u].c] # "none" => link'[th[u].c] = link[th[u].c]
      BY <2>1, <2>3
    <3>4. QED  BY <2>3, <3>1, <3>2, <3>3 DEF UserInv, Commanding, Trusted
  <2>6. UserInv(t)'
    BY <2>1, <2>2, <2>3 DEF UserInv, Commanding
  <2>7. ServiceInv'
    <3>1. sdk = 0
      BY <1>5, <2>4 DEF Connects, ConnInv, OwnersAlone, Owns, Connecting
    <3>2. c <= clients /\ clients \in Nat /\ Clients \subseteq Nat
      BY <1>0, <1>5, <2>1, ThreadFacts DEF Connects, UserInv, CountsTypeOK
    <3>3. QED  BY <2>3, <3>1, <3>2 DEF ProjInv, ServiceInv, ProjectIsOpen
  <2>8. QED  BY <2>5, <2>6, <2>7 DEF ProjInv
<1>6. CASE Initializes(t)
  <2>1. PICK c \in Clients : c = th[t].c /\ link[c] # "none" /\ cmdLock = t /\ c # t
    BY <1>0, <1>6, ThreadFacts DEF Initializes, UserInv, Commanding
  <2>2. th'[t].pc = "open" /\ th'[t].c = c
    BY <1>0, <1>6, <2>1, ThreadFacts DEF Initializes, Locals
  <2>3. /\ link'[c] = "up" /\ \A d \in Clients : d # c => link'[d] = link[d]
        /\ UNCHANGED <<sdk, startLock, clients>>
    BY <1>0, <1>6, <2>1 DEF Initializes, ClientsTypeOK, countVars, lockVars
  <2>4. startLock = t /\ sdk = 0
    BY <1>0, <1>6 DEF Initializes, StarterOK, OnlyStart, ConnInv, OwnersAlone, Owns, Connecting
  <2>5. ASSUME NEW u \in Users, u # t PROVE UserInv(u)'
    <3>1. UserInv(u) /\ Apart(u)
      BY <1>1, <2>5 DEF ProjInv
    <3>2. th[u].pc \notin Commanding
      BY <2>1, <2>5, <3>1 DEF UserInv
    <3>3. (th[u].pc = "publish" => u \notin Callers) /\ ~Owns(u)
      BY <1>0, <2>1, <2>4, <2>5, <3>1 DEF UserInv, Owns
    <3>4. QED  BY <2>1, <2>3, <3>1, <3>2, <3>3, UserAway
  <2>6. UserInv(t)'
    BY <1>2, <2>1, <2>2, <2>3, <2>4 DEF UserInv, Commanding
  <2>7. ServiceInv'
    BY <2>1, <2>3, <2>4 DEF ProjInv, ServiceInv, ProjectIsOpen
  <2>8. QED  BY <2>5, <2>6, <2>7 DEF ProjInv
<1>7. CASE Publish(t)
  <2>1. Now(t, "connected", th[t].op, th[t].c)
    BY <1>0, <1>7, NowGoto DEF Publish
  <2>2. startLock = t /\ Owns(t) /\ cmdLock = NoThread /\ th[t].c \in Clients /\ link[th[t].c] # "none"
    BY <1>0, <1>7 DEF Publish, StarterOK, OnlyStart, Connecting, Owns, UserInv
  <2>3. sdk' = th[t].c /\ UNCHANGED <<link, opened, abandoned, project, clients>>
    BY <1>7 DEF Publish, clientVars, sdkVars, countVars
  <2>4. ASSUME NEW u \in Users, u # t PROVE UserInv(u)'
    <3>1. UserInv(u) /\ Apart(u) /\ u # NoThread
      BY <1>1, <2>4, ThreadFacts DEF ProjInv, Users
    <3>2. th[u].pc \notin Commanding
      BY <2>2, <3>1 DEF UserInv
    <3>3. (th[u].pc = "publish" => u \notin Callers) /\ ~Owns(u)
      BY <2>2, <2>4, TypeUse DEF StarterOK, OnlyStart, Owns
    <3>4. QED  BY <2>3, <3>1, <3>2, <3>3, UserAway
  <2>5. UserInv(t)'
    BY <1>0, <2>1, UserOut DEF Owns, Commanding, Connecting
  <2>6. ServiceInv'
    <3>1. project # NoProject /\ Trusted(th[t].c) => opened[th[t].c] = project
      BY <1>0, <1>7, <2>2 DEF Publish, UserInv
    <3>2. QED  BY <2>2, <2>3, <3>1 DEF ProjInv, ServiceInv, ProjectIsOpen, Trusted
  <2>7. QED  BY <2>4, <2>5, <2>6 DEF ProjInv
<1>8. CASE FailStart(t)
  <2>1. Now(t, "failed", th[t].op, 0)
    BY <1>0, <1>8, NowWith, ThreadFacts DEF FailStart
  <2>2. Fades
    BY <1>0, <1>8 DEF FailStart, Closed, Fades, Trusted, ClientsTypeOK, countVars
  <2>3. UserInv(t)'
    BY <1>0, <2>1, UserOut DEF Owns, Commanding, Connecting
  <2>4. QED  BY <1>0, <1>1, <1>2, <2>2, <2>3, ProjFades
<1>9. QED  BY <1>3, <1>4, <1>5, <1>6, <1>7, <1>8 DEF Starts

\* While a thread has the command lock, another relies on little.
LEMMA UserLocked ==
    ASSUME TypeInv, ProjInv, NEW t \in Users, cmdLock = t, NEW u \in Users, u # t, Apart(u), clients' = clients,
           \A c \in Clients : link'[c] = "none" <=> link[c] = "none"
    PROVE  UserInv(u)'
<1>1. UserInv(u) /\ t # NoThread /\ startLock \in Callers \cup {NoThread} /\ u # NoThread
  BY TypeUse, ThreadFacts DEF ProjInv, LocksTypeOK, Users
<1>2. th[u].pc \notin Commanding /\ (th[u].pc = "publish" => u \notin Callers /\ ~Owns(u))
  BY <1>1 DEF UserInv, Owns
<1>3. QED  BY <1>1, <1>2, UserAway

LEMMA ProjGoesOn ==
    ASSUME TypeInv, ProjInv, NEW t \in Users, Fades, UNCHANGED <<lockVars, sdk, link, project, opened, abandoned>>,
           \A u \in Users : u # t => Apart(u), NEW p \in Places, <<th[t].pc, p>> \in Going, Goto(t, p),
           th[t].pc \notin {"open", "opening", "mark"}
    PROVE  ProjInv'
<1>0. /\ t \in Threads /\ th \in [Threads -> Locals] /\ UserInv(t) /\ startLock \in Callers \cup {NoThread}
      /\ t \in Callers => StarterOK(t)
      /\ t # NoThread
  BY TypeUse, ThreadFacts DEF Users, ProjInv, LocksTypeOK
<1>1. th'[t].pc = p /\ th'[t].c = th[t].c
  BY <1>0, NowGoto DEF Now
<1>2. p \in Commanding /\ th[t].pc \in Commanding /\ p \notin {"opening", "mark"}
  BY DEF Going, Commanding
<1>3. startLock = t => th[t].pc \in {"setup", "setting"}
  BY <1>0 DEF StarterOK, Going, OnlyStart, Connecting, Stopping
<1>4. Owns(t)' => Owns(t)
  BY <1>3 DEF Owns, lockVars, Connecting
<1>5. UserInv(t)'
  BY <1>0, <1>1, <1>2, <1>3, <1>4 DEF UserInv, Commanding, Owns, lockVars, Trusted
<1>6. QED  BY <1>0, <1>5, ProjFades DEF lockVars

\* A command that fails, but for a createSln, opens nothing and sets up nothing.
LEMMA FailsFades ==
    ASSUME TypeInv, NEW t \in Users, UserInv(t), Fails(t), th[t].pc # "opening"
    PROVE  Fades /\ UNCHANGED <<sdk, link, opened, setUp, clients>> /\ project' \in {NoProject, project}
<1>0. UNCHANGED <<sdk, link, clients>> /\ project' \in {NoProject, project}
  BY DEF Fails, clientVars
<1>1. th[t].pc = "setting" => th[t].c \in Clients
  BY DEF UserInv, Commanding
<1>2. UNCHANGED <<opened, setUp>> /\ \A k \in Clients : abandoned[k] => abandoned'[k]
  <2>1. CASE UNCHANGED sdkVars
    BY <2>1 DEF sdkVars
  <2>2. CASE th[t].pc = "setting" /\ GivesUp(t)
    BY <1>1, <2>2, TypeUse DEF GivesUp, ClientsTypeOK
  <2>3. QED  BY <2>1, <2>2 DEF Fails
<1>3. QED  BY <1>0, <1>2 DEF Fades, Trusted

\* A late answer comes on a connection on which a command was given up.
LEMMA LateTaken ==
    ASSUME TypeInv, LateInv, NEW t \in Users, UserInv(t), TakesLateAnswer(t)
    PROVE  /\ UNCHANGED <<lockVars, sdk, flagVars, project, clientVars, runVars, meshVars, abandoned, histVars,
                        countVars>>
           /\ Fades /\ th[t].c \in Clients /\ ~Trusted(th[t].c) /\ cmdLock = t
           /\ \A k \in Clients : Trusted(k)' => setUp'[k] = setUp[k]
           /\ \/ th[t].pc = "opening" /\ Goto(t, "mark")
              \/ th[t].pc = "setting" /\ Goto(t, "unlockCmd")
<1>1. th[t].c \in Clients /\ cmdLock = t
  BY DEF TakesLateAnswer, UserInv, Commanding
<1>2. /\ UNCHANGED <<lockVars, sdk, flagVars, project, clientVars, runVars, meshVars, abandoned, histVars,
                     countVars>>
      /\ \/ th[t].pc = "opening" /\ Goto(t, "mark")
         \/ th[t].pc = "setting" /\ Goto(t, "unlockCmd")
  BY DEF TakesLateAnswer
<1>3. abandoned[th[t].c]
  BY <1>1 DEF TakesLateAnswer, LateInv
<1>4. \A k \in Clients : k # th[t].c => opened'[k] = opened[k] /\ setUp'[k] = setUp[k]
  BY TypeUse DEF TakesLateAnswer, LateFinish, ClientsTypeOK
<1>5. Fades /\ \A k \in Clients : Trusted(k)' => setUp'[k] = setUp[k]
  BY <1>2, <1>3, <1>4 DEF Fades, Trusted, clientVars, countVars
<1>6. QED  BY <1>1, <1>2, <1>3, <1>5 DEF Trusted

LEMMA ProjCommands == ASSUME TypeInv, LateInv, ProjInv, ConnInv, NEW t \in Users, Commands(t) PROVE ProjInv'
<1> USE DEF Now
<1>0. /\ t \in Threads /\ th \in [Threads -> Locals] /\ UserInv(t) /\ startLock \in Callers \cup {NoThread}
      /\ t # NoThread /\ ClientsTypeOK /\ LocksTypeOK /\ (t \in Callers => StarterOK(t))
      /\ t \in Callers \/ startLock # t
  BY TypeUse, ThreadFacts DEF Users, ProjInv, LocksTypeOK
<1>1. \A u \in Users : u # t => Apart(u)
  BY UserApart
<1>2. UNCHANGED <<startLock, sdk, link, clients>>
  BY DEF Commands, LockCmd, Open, Opened, Mark, SetUp, IsSetUp, Scan, Scanned, UnlockCmd, Fails, TakesLateAnswer,
         lockVars, clientVars, countVars
<1>3. CASE LockCmd(t)
  <2>1. Fades /\ cmdLock = NoThread /\ cmdLock' = t
    BY <1>2, <1>3 DEF LockCmd, Fades, Trusted, sdkVars
  <2>2. ASSUME NEW u \in Callers PROVE th[u].pc # "publish"
    <3>1. th[u].pc = "publish" => startLock = u /\ sdk = 0
      BY TypeUse DEF StarterOK, OnlyStart, ConnInv, OwnersAlone, Owns, Connecting
    <3>2. QED  BY <1>3, <3>1 DEF LockCmd
  <2>3. PICK p \in Places, k \in 0..MaxClients :
           /\ Now(t, p, th[t].op, k)
           /\ startLock = t => p = "init" /\ k = th[t].c
           /\ startLock # t => p \in {"scan", "generate", "unlockCmd", "open"} /\ k \in Clients /\ k = sdk
    BY <1>3, LockCmdTo
  <2>4. UserInv(t)'
    <3>1. CASE startLock = t
      <4>1. Owns(t) /\ sdk = 0
        BY <1>0, <1>3, <3>1 DEF LockCmd, Owns, Connecting, ConnInv, OwnersAlone
      <4>2. k \in Clients /\ link[k] # "none"
        BY <1>0, <1>3, <2>3, <3>1, <4>1 DEF LockCmd, UserInv
      <4>3. QED  BY <1>2, <2>1, <2>3, <3>1, <4>1, <4>2 DEF UserInv, Commanding
    <3>2. CASE startLock # t
      <4>1. link[k] # "none"
        BY <2>3, <3>2, ThreadFacts DEF ProjInv, ServiceInv
      <4>2. QED  BY <1>2, <2>1, <2>3, <3>2, <4>1 DEF UserInv, Commanding, Owns
    <3>3. QED  BY <3>1, <3>2
  <2>5. QED  BY <1>0, <1>1, <2>1, <2>2, <2>4, ProjFades
<1>4. CASE UnlockCmd(t)
  <2>1. Fades /\ cmdLock = t /\ cmdLock' = NoThread /\ UNCHANGED <<project, opened, abandoned>>
    BY <1>0, <1>2, <1>4 DEF UnlockCmd, Fades, Trusted, sdkVars, UserInv, Commanding
  <2>2. CASE startLock = t
    <3>1. Now(t, "publish", th[t].op, th[t].c) /\ Owns(t)
      BY <1>0, <1>4, <2>2, UnlockCmdTo, ThreadFacts DEF UnlockCmd, Owns, Connecting
    <3>2. UserInv(t)'
      BY <1>0, <1>2, <1>4, <2>1, <3>1 DEF UnlockCmd, UserInv, Commanding, Owns, Trusted
    <3>3. QED  BY <1>0, <1>1, <2>1, <3>2, ProjFades
  <2>3. CASE startLock # t
    <3>1. th'[t].pc \in {"idle", "ready"}
      BY <1>4, <2>3, UnlockCmdTo
    <3>2. UserInv(t)'
      BY <1>2, <2>3, <3>1, UserOut DEF Owns, Commanding
    <3>3. QED  BY <1>0, <1>1, <2>1, <3>2, ProjFades
  <2>4. QED  BY <2>2, <2>3
<1>5. CASE Fails(t)
  <2>1. th'[t].pc \in {"fail", "idle"} /\ (Owns(t)' => th'[t].pc = "fail")
    BY <1>2, <1>5, FailsTo DEF Owns
  <2>2. UserInv(t)'
    BY <2>1, UserOut DEF Commanding
  <2>3. CASE th[t].pc = "opening"
    <3>1. cmdLock = t /\ project' = NoProject
      BY <1>0, <1>5, <2>3 DEF Fails, UserInv, Commanding
    <3>2. \A u \in Users : u # t => UserInv(u)'
      BY <1>1, <1>2, <3>1, UserLocked
    <3>3. ServiceInv'
      BY <1>2, <3>1 DEF ProjInv, ServiceInv, ProjectIsOpen
    <3>4. QED  BY <2>2, <3>2, <3>3 DEF ProjInv
  <2>4. CASE th[t].pc # "opening"
    <3>1. Fades
      BY <1>0, <1>5, <2>4, FailsFades
    <3>2. cmdLock' = cmdLock \/ (cmdLock = t /\ cmdLock' = NoThread)
      BY <1>5 DEF Fails, CmdLockAfter
    <3>3. QED  BY <1>0, <1>1, <2>2, <3>1, <3>2, ProjFades
  <2>5. QED  BY <2>3, <2>4
<1>6. CASE Open(t)
  <2>1. Fades /\ cmdLock' = cmdLock /\ project' = NoProject
    BY <1>2, <1>6 DEF Open, Fades, Trusted, sdkVars, lockVars
  <2>2. Now(t, "opening", th[t].op, th[t].c)
    BY <1>0, <1>6, NowGoto DEF Open, Places
  <2>3. Owns(t)' => Owns(t)
    BY <1>2, <1>6 DEF Open, Owns, Connecting
  <2>4. UserInv(t)'
    BY <1>0, <1>2, <1>6, <2>1, <2>2, <2>3 DEF Open, UserInv, Commanding
  <2>5. QED  BY <1>0, <1>1, <2>1, <2>4, ProjFades
<1>7. CASE Opened(t)
  <2>1. Now(t, "mark", th[t].op, th[t].c) /\ (Owns(t)' => Owns(t))
    BY <1>0, <1>2, <1>7, NowGoto DEF Opened, Places, Owns, Connecting
  <2>2. cmdLock = t /\ cmdLock' = t /\ project = NoProject /\ project' = project /\ th[t].c \in Clients
    BY <1>0, <1>7 DEF Opened, lockVars, UserInv, Commanding
  <2>3. Trusted(th[t].c) => opened'[th[t].c] = Opens(t)
    BY <1>0, <1>7, <2>2 DEF Opened, ClientsTypeOK, Trusted
  <2>4. Opens(t)' = Opens(t)
    BY <1>7, <2>1 DEF Opened, Opens, runVars, countVars
  <2>5. UserInv(t)'
    BY <1>0, <1>2, <1>7, <2>1, <2>2, <2>3, <2>4 DEF Opened, UserInv, Commanding, Trusted
  <2>6. \A u \in Users : u # t => UserInv(u)'
    BY <1>1, <1>2, <2>2, UserLocked
  <2>7. ServiceInv'
    BY <1>2, <2>2 DEF ProjInv, ServiceInv, ProjectIsOpen
  <2>8. QED  BY <2>5, <2>6, <2>7 DEF ProjInv
<1>8. CASE Mark(t)
  <2>1. PICK p \in {"setup", "unlockCmd"} : Goto(t, p)
    BY <1>8 DEF Mark
  <2>2. Now(t, p, th[t].op, th[t].c) /\ (Owns(t)' => Owns(t))
    BY <1>0, <1>2, <1>8, <2>1, NowGoto DEF Mark, Places, Owns, Connecting
  <2>3. /\ cmdLock = t /\ cmdLock' = t /\ project' = Opens(t) /\ opened' = opened /\ abandoned' = abandoned
        /\ th[t].c \in Clients /\ sdk \in {0, th[t].c} /\ link[th[t].c] # "none"
        /\ Trusted(th[t].c) => opened[th[t].c] = Opens(t)
    BY <1>0, <1>8 DEF Mark, lockVars, sdkVars, UserInv, Commanding
  <2>4. UserInv(t)'
    BY <1>2, <2>2, <2>3 DEF UserInv, Commanding, Trusted
  <2>5. \A u \in Users : u # t => UserInv(u)'
    BY <1>1, <1>2, <2>3, UserLocked
  <2>6. ServiceInv'
    BY <1>2, <2>3 DEF ProjInv, ServiceInv, ProjectIsOpen, Trusted
  <2>7. QED  BY <2>4, <2>5, <2>6 DEF ProjInv
<1>9. CASE SetUp(t) \/ IsSetUp(t) \/ Scan(t) \/ Scanned(t)
  <2>1. UNCHANGED <<lockVars, sdk, link, project, opened, abandoned>> /\ Fades
    BY <1>2, <1>9 DEF SetUp, IsSetUp, Scan, Scanned, Fades, Trusted, lockVars, sdkVars
  <2>2. \E p \in Places : <<th[t].pc, p>> \in Going /\ Goto(t, p)
    BY <1>9, CommandGoesOn DEF GoesOn
  <2>3. th[t].pc \notin {"open", "opening", "mark"}
    BY <1>9 DEF SetUp, IsSetUp, Scan, Scanned
  <2>4. QED  BY <1>1, <2>1, <2>2, <2>3, ProjGoesOn
<1>10. CASE TakesLateAnswer(t)
  <2>1. /\ UNCHANGED <<lockVars, sdk, project, link, abandoned>>
        /\ Fades /\ th[t].c \in Clients /\ ~Trusted(th[t].c) /\ cmdLock = t
    BY <1>0, <1>10, LateTaken DEF clientVars
  <2>2. PICK p \in {"mark", "unlockCmd"} : Goto(t, p)
    BY <1>10 DEF TakesLateAnswer
  <2>3. Now(t, p, th[t].op, th[t].c) /\ (Owns(t)' => Owns(t))
    BY <1>0, <1>2, <1>10, <2>2, NowGoto DEF TakesLateAnswer, Places, Owns, Connecting
  <2>4. UserInv(t)'
    BY <1>0, <1>2, <1>10, <2>1, <2>3 DEF TakesLateAnswer, UserInv, Commanding, lockVars, Trusted
  <2>5. QED  BY <1>0, <1>1, <2>1, <2>4, ProjFades DEF lockVars
<1>11. QED  BY <1>3, <1>4, <1>5, <1>6, <1>7, <1>8, <1>9, <1>10 DEF Commands

LEMMA ProjLate == ASSUME TypeInv, LateInv, ProjInv, NEW c \in Clients, LateAnswer(c) PROVE ProjInv'
<1>1. UNCHANGED <<lockVars, sdk, project, link, th, runProject, projects, clients, abandoned>>
  BY DEF LateAnswer, clientVars, runVars, countVars
<1>2. abandoned[c] /\ \A d \in Clients : d # c => opened'[d] = opened[d]
  BY TypeUse DEF LateAnswer, LateFinish, LateInv, ClientsTypeOK
<1>3. Fades
  BY <1>1, <1>2 DEF Fades, Trusted
<1>4. \A u \in Users : Apart(u)
  BY <1>1 DEF Apart, Stays, Opens, lockVars
<1>5. c \in Threads /\ c \notin Users
  BY ThreadFacts DEF Users
<1>6. QED  BY <1>1, <1>3, <1>4, <1>5, ProjFades DEF lockVars

LEMMA ProjGenerates == ASSUME TypeInv, ProjInv, NEW x \in Exporters, Generates(x) PROVE ProjInv'
<1>1. x \in Users /\ \A u \in Users : u # x => Apart(u)
  BY UserApart DEF Users
<1>2. UNCHANGED <<lockVars, sdk, link, project, opened, abandoned>> /\ Fades
  BY DEF Generates, Generate, Generated, Save, Saved, Fades, Trusted, clientVars, sdkVars, countVars
<1>3. th[x].pc \notin {"open", "opening", "mark"}
  BY DEF Generates, Generate, Generated, Save, Saved
<1>4. QED  BY <1>1, <1>2, <1>3, ExportGoesOn, ProjGoesOn DEF GoesOn

LEMMA ProjRuns ==
    ASSUME TypeInv, ProjInv, Runs \/ \E op \in {"new", "resume"} : RunBegins(op)
    PROVE  ProjInv'
<1>0. /\ Worker \in Users /\ Users \subseteq Threads /\ th \in [Threads -> Locals] /\ Worker \in Threads
      /\ startLock \in Callers \cup {NoThread} /\ Worker \notin Callers /\ Worker # NoThread
      /\ Worker \notin Exporters
      /\ \A x \in Exporters : x # startLock
  BY TypeUse, ThreadFacts DEF Users, LocksTypeOK
<1>1. Fades /\ UNCHANGED lockVars
  BY RunsFrame DEF Fades, Trusted, clientVars, sdkVars
<1>2. ASSUME NEW u \in Users, u # Worker, Stays(u) PROVE UserInv(u)'
  <2>1. Apart(u)
    BY <1>1, <1>2 DEF Apart, Stays, Opens, lockVars
  <2>2. QED  BY <1>1, <1>2, <2>1, UserFades DEF ProjInv, UserInv, lockVars
<1>3. ASSUME NEW u \in Users, u \notin Callers, th'[u].pc \in {"idle", "begin", "lockCmd", "end"} PROVE UserInv(u)'
  <2>1. ~Owns(u)'
    BY <1>0, <1>1, <1>3, ThreadFacts DEF Owns, lockVars, Users
  <2>2. QED  BY <1>3, <2>1, UserOut DEF Commanding
<1>4. th'[Worker].pc \in {"idle", "begin", "lockCmd", "end"}
  <2>1. ASSUME NEW op \in {"new", "resume"}, RunBegins(op) PROVE th'[Worker].pc = "begin"
    BY <1>0, <2>1 DEF RunBegins, Idle
  <2>2. ASSUME NEW x \in Exporters, StartMeshWorker(x) PROVE th'[Worker].pc = "end"
    BY <1>0, <2>2, ThreadFacts DEF StartMeshWorker, Locals
  <2>3. CASE RunStarts \/ NextScan \/ RunEnds \/ Finalize \/ LeaveMeshWorker
    <3>1. Goto(Worker, "lockCmd") \/ Leaves(Worker)
      BY <2>3 DEF RunStarts, NextScan, RunEnds, Finalize, LeaveMeshWorker
    <3>2. QED  BY <1>0, <3>1, NowGoto, NowLeaves DEF Now, Places
  <2>4. QED  BY <2>1, <2>2, <2>3 DEF Runs
<1>5. ASSUME NEW x \in Exporters PROVE Stays(x) \/ th'[x].pc = "lockCmd"
  <2>0. x \in Threads /\ x # Worker
    BY ThreadFacts
  <2>1. ASSUME NEW y \in Exporters, StartMeshWorker(y) PROVE Stays(x) \/ th'[x].pc = "lockCmd"
    BY <1>0, <2>0, <2>1, ThreadFacts DEF StartMeshWorker, Idle, Stays
  <2>2. ASSUME NEW p, Goto(Worker, p) \/ Leaves(Worker) PROVE Stays(x)
    BY <1>0, <2>0, <2>2 DEF Goto, Leaves, Stays
  <2>3. CASE \E op \in {"new", "resume"} : RunBegins(op)
    BY <1>0, <2>0, <2>3 DEF RunBegins, Stays
  <2>4. CASE RunStarts \/ NextScan \/ RunEnds \/ Finalize \/ LeaveMeshWorker
    BY <2>2, <2>4 DEF RunStarts, NextScan, RunEnds, Finalize, LeaveMeshWorker
  <2>5. QED  BY <2>1, <2>3, <2>4 DEF Runs
<1>6. ASSUME NEW u \in Users PROVE UserInv(u)'
  <2>1. CASE u = Worker
    BY <1>0, <1>3, <1>4, <2>1
  <2>2. CASE u \in Callers
    BY <1>0, <1>2, <2>2, RunAlone
  <2>3. CASE u \in Exporters
    BY <1>0, <1>2, <1>3, <1>5, <2>3, ThreadFacts
  <2>4. QED  BY <2>1, <2>2, <2>3 DEF Users
<1>7. QED  BY <1>1, <1>6, ServiceFades DEF ProjInv

LEMMA ProjInit == Init => ProjInv
<1> SUFFICES ASSUME Init PROVE ProjInv  OBVIOUS
<1>1. ASSUME NEW t \in Users PROVE UserInv(t)
  <2>1. th[t].pc = "idle" /\ startLock # t
    BY ThreadFacts DEF Init, Users, Idle
  <2>2. QED  BY <2>1 DEF UserInv, Owns, Commanding
<1>2. ServiceInv
  BY DEF Init, ServiceInv, ProjectIsOpen
<1>3. QED  BY <1>1, <1>2 DEF ProjInv

LEMMA ProjNext == TypeInv /\ LateInv /\ ConnInv /\ ProjInv /\ [Next]_vars => ProjInv'
<1> SUFFICES ASSUME TypeInv, LateInv, ConnInv, ProjInv, [Next]_vars PROVE ProjInv'  OBVIOUS
<1>1. CASE Next
  BY <1>1, ProjAsks, ProjStarts, ProjStops, ProjCommands, ProjGenerates, ProjRuns, ProjReceives, ProjLate DEF Next,
     Users
<1>2. CASE UNCHANGED vars
  <2>1. UNCHANGED <<startLock, cmdLock, sdk, project, link, opened, abandoned, clients, th, projects, runProject>>
    BY <1>2 DEF vars, lockVars, clientVars, sdkVars, runVars, countVars
  <2>2. ASSUME NEW t \in Users PROVE UserInv(t)'
    BY <2>1 DEF ProjInv, UserInv, Owns, Opens, Trusted
  <2>3. ServiceInv'
    BY <2>1 DEF ProjInv, ServiceInv, ProjectIsOpen, Trusted
  <2>4. QED  BY <2>2, <2>3 DEF ProjInv
<1>3. QED  BY <1>1, <1>2

LEMMA ProjInvariance == Spec => []ProjInv
BY ProjInit, ProjNext, TypeInvariance, LateInvariance, ConnInvariance, PTL DEF Spec

\* The project the service believes open is the one the SDK has open, on a connection
\* that is up and on which no command was given up.
THEOREM ProjectIsOpenCorrect == Spec => []ProjectIsOpen
<1>1. ProjInv => ProjectIsOpen
  BY DEF ProjInv, ServiceInv
<1>2. QED  BY <1>1, ProjInvariance, PTL

-----------------------------------------------------------------------------
(***************************************************************************)
(* Proofs about the runs of ScannerService, for any number of callers,     *)
(* exporters, clients, projects, operations, scans and losses: where a     *)
(* scan goes, with which parameters, and what its mesh worker saves.       *)
(*                                                                         *)
(* While nobody disturbs a run no caller is in any operation, so what the  *)
(* service believes open stays the run's own project until the connection  *)
(* goes; and a project that is open under the name of a run that may be    *)
(* continued has its parameters, or a continue failed while it set them.   *)
(***************************************************************************)

\* A run that nobody has disturbed: no start or save overlapped its beginning, and
\* nobody is stopping it.
Undisturbed == th[Worker].pc # "idle" /\ ~overlap /\ ~abort

\* The worker and the state of the pipeline.
WorkerShape ==
    /\ abort => run = "running"
    /\ th[Worker].pc = "idle" => th[Worker].op = "none"
    /\ th[Worker].pc # "idle" => th[Worker].op \in {"new", "resume", "scan"}
    /\ th[Worker].op = "scan" => th[Worker].pc \in {"ready", "lockCmd", "scan", "scanning", "unlockCmd", "end"}
    /\ run = "running" <=> th[Worker].pc \notin {"idle", "begin"} /\ th[Worker].op # "resume"
    /\ th[Worker].op = "new" /\ th[Worker].pc # "begin" => projectName = NoProject
    /\ mesh \in Exporters <=> th[Worker].pc = "end"
CallersAway == Undisturbed => \A t \in Callers : th[t].pc = "idle"
ExporterShape(x) ==
    /\ th[x].pc \in {"idle", "lockCmd", "generate", "generating", "save", "saving", "unlockCmd"}
    /\ th[x].pc # "idle" => th[x].op = "export"
Shape == WorkerShape /\ CallersAway /\ \A x \in Exporters : ExporterShape(x)

\* Where the worker has the project of its run open.
HasOpen == {"setup", "setting", "unlockCmd", "scan", "scanning"}
Holding(c, p) == Trusted(c) => opened[c] = p
OpenInv ==
    Undisturbed =>
        /\ th[Worker].pc \in HasOpen \/ th[Worker].op = "scan" => sdk = 0 \/ project = Opens(Worker)
        /\ th[Worker].pc \in HasOpen => Holding(th[Worker].c, Opens(Worker))

Ready(c) == Trusted(c) => setUp[c] \/ setUpFailed
\* The project of the run, or of the one that may be continued.
Named(n) ==
    \/ n = projectName
    \/ th[Worker].op \in {"resume", "scan"} /\ th[Worker].pc # "begin" /\ n = runProject
ProjectReady ==
    sdk # 0 /\ project # NoProject /\ Named(project) /\ th[Worker].pc \notin {"setup", "setting"} => Ready(sdk)
WorkerReady ==
    /\ th[Worker].pc = "unlockCmd" /\ th[Worker].op # "scan" => Ready(th[Worker].c)
    /\ Undisturbed /\ th[Worker].pc \in {"scan", "scanning", "unlockCmd"} => Ready(th[Worker].c)
\* A start publishes a client with the preview project, or none that is known of.
Previews == {"setup", "setting", "unlockCmd", "publish"}
PreviewInv ==
    \A t \in Callers : Owns(t) /\ th[t].pc \in Previews => project \in {NoProject, Preview}
SetUpInv == ProjectReady /\ WorkerReady /\ PreviewInv

\* A mesh worker that has not outlived its run.
MeshAtWork(x) ==
    /\ x = mesh /\ Undisturbed
    /\ th[x].pc \in {"generate", "generating", "save", "saving"} => Holding(th[x].c, runProject)
MeshInv ==
    /\ \A x \in Exporters : th[x].pc # "idle" /\ astray # "left" => MeshAtWork(x)
    /\ mesh \in Exporters => exportOf[mesh] = runProject
    /\ mesh \in Exporters /\ th[mesh].pc \in {"idle", "unlockCmd"} /\ ~meshFailed /\ astray = "no" =>
          saved[runProject] = runProject
    /\ SavedUnderItsName /\ ExportedIsSaved

RunInv == Shape /\ OpenInv /\ SetUpInv /\ MeshInv

-----------------------------------------------------------------------------
LEMMA RunUse ==
    ASSUME TypeInv, ProjInv
    PROVE  /\ th \in [Threads -> Locals] /\ Worker \in Users /\ Worker \in Threads /\ Users \subseteq Threads
           /\ Worker # NoThread /\ startLock # Worker /\ UserInv(Worker) /\ WorkerOK /\ ~Owns(Worker)
           /\ link \in [Clients -> {"none", "up", "lost", "told", "closed", "cut"}]
           /\ opened \in [Clients -> 0..Preview] /\ setUp \in [Clients -> BOOLEAN]
           /\ projectName \in 0..MaxProjects /\ runProject \in 0..MaxProjects /\ sdk \in 0..MaxClients
           /\ mesh \in Exporters \cup {NoThread} /\ NoThread \notin Exporters
           /\ \A k \in 0..MaxClients : k # 0 => k \in Clients
           /\ \A k \in 0..MaxProjects : k # Preview
<1>1. /\ th \in [Threads -> Locals] /\ Worker \in Users /\ Worker \in Threads /\ Users \subseteq Threads
      /\ Worker # NoThread /\ NoThread \notin Exporters
  BY TypeUse, ThreadFacts DEF Users
<1>2. startLock # Worker /\ ~Owns(Worker)
  BY TypeUse, ThreadFacts DEF LocksTypeOK, Owns
<1>3. UserInv(Worker) /\ WorkerOK
  BY <1>1 DEF ProjInv, TypeInv
<1>4. /\ link \in [Clients -> {"none", "up", "lost", "told", "closed", "cut"}]
      /\ opened \in [Clients -> 0..Preview] /\ setUp \in [Clients -> BOOLEAN]
      /\ projectName \in 0..MaxProjects /\ runProject \in 0..MaxProjects /\ sdk \in 0..MaxClients
      /\ mesh \in Exporters \cup {NoThread}
  BY TypeUse DEF LocksTypeOK, ClientsTypeOK, RunTypeOK, ExportTypeOK
<1>5. \A k \in 0..MaxClients : k # 0 => k \in Clients
  BY ThreadFacts
<1>6. \A k \in 0..MaxProjects : k # Preview
  BY BoundFacts
<1>7. QED  BY <1>1, <1>2, <1>3, <1>4, <1>5, <1>6

\* What a caller or a receiver leaves alone.
Aside ==
    /\ UNCHANGED <<run, runProject, abort, overlap, setUpFailed, mesh, meshFailed, exportOf, saved, astray,
                   exported>>
    /\ projects' = projects /\ projectName' \in {projectName, NoProject}
    /\ \A u \in Exporters \cup {Worker} : Stays(u)

LEMMA AsideCaller ==
    ASSUME TypeInv, NEW t \in Callers, EnsureConnected(t) \/ Starts(t) \/ Stops(t) \/ Commands(t)
    PROVE  Aside /\ th[t].pc # "idle"
<1>0. /\ t \in Users /\ t # Worker /\ t \notin Exporters /\ t # mesh /\ th[t].op # "resume"
      /\ Worker \in Users /\ Exporters \subseteq Users
  BY TypeUse, ThreadFacts DEF Users, ExportTypeOK, StarterOK, Starting
<1>1. \A u \in Exporters \cup {Worker} : Stays(u)
  BY <1>0, CallerApart, StopsApart, UserApart DEF Apart
<1>a. th[t].pc # "idle"
  <2>1. CASE Stops(t)
    BY <2>1, StopsTo DEF Stopping
  <2>2. CASE ~Stops(t)
    BY <2>2 DEF EnsureConnected, Starts, LockStart, AlreadyStarted, BeginStart, Connects, Initializes, Publish,
       ClearConnecting, FailStart, UnlockStart, Commands, LockCmd, Open, Opened, Mark, SetUp, IsSetUp, Scan,
       Scanned, UnlockCmd, Fails, TakesLateAnswer
  <2>3. QED  BY <2>1, <2>2
<1>2. CASE EnsureConnected(t) \/ Starts(t) \/ Stops(t)
  BY <1>1, <1>2, <1>a, StartsFrame, StopsFrame DEF EnsureConnected, Aside, runVars, meshVars, histVars, countVars
<1>3. CASE Commands(t)
  <2>1. CASE Fails(t)
    <3>1. setUpFailed' = setUpFailed /\ meshFailed' = meshFailed
      BY <1>0, <2>1, TypeUse DEF Fails, WorkerError, RunTypeOK, ExportTypeOK
    <3>2. QED  BY <1>0, <1>1, <1>a, <2>1, <3>1 DEF Fails, Aside, countVars
  <2>2. CASE UnlockCmd(t)
    BY <1>0, <1>1, <1>a, <2>2 DEF UnlockCmd, Aside, runVars, meshVars, histVars, countVars
  <2>3. CASE ~Fails(t) /\ ~UnlockCmd(t)
    <3>1. UNCHANGED <<runVars, meshVars, histVars, countVars>>
      BY <1>3, <2>3 DEF Commands, LockCmd, Open, Opened, Mark, SetUp, IsSetUp, Scan, Scanned, TakesLateAnswer
    <3>2. QED  BY <1>1, <1>a, <3>1 DEF Aside, runVars, meshVars, histVars, countVars
  <2>4. QED  BY <2>1, <2>2, <2>3
<1>4. QED  BY <1>2, <1>3

LEMMA AsideReceiver ==
    ASSUME TypeInv, ProjInv, NEW c \in Clients, Stops(c) \/ Receives(c) \/ DeviceOffline(c) \/ LoseLink(c)
    PROVE  Aside /\ (\A u \in Callers : Apart(u)) /\ Fades /\ (sdk' = 0 \/ project' = project)
           /\ \A k \in Clients : Trusted(k)' => setUp'[k] = setUp[k]
<1>0. ClientsTypeOK /\ c \in Threads /\ c \notin Users
  BY TypeUse, ThreadFacts DEF Users
<1>1. \A u \in Users : Apart(u)
  BY <1>0, StopsApart, ReceiverApart
<1>2. CASE Stops(c)
  <2>1. sdk' \in {0, sdk} /\ project' \in {NoProject, project} /\ clients' = clients /\ (sdk' = 0 \/ project' = project)
    BY <1>2 DEF Stops, WaitConnecting, Take, Quiet, Close, countVars
  <2>2. ASSUME NEW k \in Clients
        PROVE  /\ link'[k] = "none" <=> link[k] = "none"
               /\ Trusted(k)' => Trusted(k) /\ opened'[k] = opened[k] /\ setUp'[k] = setUp[k]
    <3>1. CASE Close(c)
      BY <1>0, <3>1 DEF Close, Closed, ClientsTypeOK, Trusted
    <3>2. CASE ~Close(c)
      BY <1>2, <3>2 DEF Stops, WaitConnecting, Take, Quiet, clientVars, sdkVars, Trusted
    <3>3. QED  BY <3>1, <3>2
  <2>3. Aside
    BY <1>1, <1>2, StopsFrame DEF Aside, Apart, Users, runVars, meshVars, histVars, countVars
  <2>4. QED  BY <1>1, <2>1, <2>2, <2>3 DEF Fades, Trusted, Users
<1>3. CASE Receives(c) \/ DeviceOffline(c) \/ LoseLink(c)
  <2>1. Aside
    BY <1>1, <1>3 DEF Receives, NoticeLoss, IgnoreLoss, HandleLoss, Report, DeviceOffline, LoseLink, Aside, Apart,
       Users, runVars, meshVars, histVars, countVars
  <2>2. Fades /\ project' = project /\ UNCHANGED setUp
    BY <1>0, <1>3 DEF Receives, NoticeLoss, IgnoreLoss, HandleLoss, Report, DeviceOffline, LoseLink, Fades, Trusted,
       ClientsTypeOK, clientVars, sdkVars, countVars
  <2>3. QED  BY <1>1, <2>1, <2>2 DEF Users
<1>4. QED  BY <1>2, <1>3

\* While the run is undisturbed only the receivers move the connection.
LEMMA RunAside ==
    ASSUME TypeInv, ProjInv, Shape, OpenInv, MeshInv, Aside,
           \A u \in Callers : th[u].pc = "idle" => Stays(u),
           Undisturbed => Fades /\ (sdk' = 0 \/ project' = project)
    PROVE  Shape' /\ OpenInv' /\ MeshInv'
<1>0. /\ Stays(Worker) /\ (\A x \in Exporters : Stays(x)) /\ Undisturbed' = Undisturbed
      /\ Opens(Worker)' = Opens(Worker)
  BY DEF Aside, Undisturbed, Stays, Opens
<1>1. WorkerShape'
  BY <1>0 DEF Aside, Shape, WorkerShape, Stays
<1>2. CallersAway'
  BY <1>0 DEF Shape, CallersAway, Stays
<1>3. \A x \in Exporters : ExporterShape(x)'
  BY <1>0 DEF Shape, ExporterShape, Stays
<1>4. OpenInv'
  <2>1. th[Worker].pc \in HasOpen => th[Worker].c \in Clients
    BY RunUse DEF HasOpen, UserInv, Commanding
  <2>2. QED  BY <1>0, <2>1 DEF OpenInv, Stays, Holding, Fades, Trusted
<1>5. MeshInv'
  <2>1. ASSUME NEW x \in Exporters, th'[x].pc # "idle", astray' # "left" PROVE MeshAtWork(x)'
    <3>1. th'[x] = th[x] /\ mesh' = mesh /\ runProject' = runProject /\ astray' = astray
      BY <1>0 DEF Aside, Stays
    <3>2. MeshAtWork(x)
      BY <2>1, <3>1 DEF MeshInv
    <3>3. th[x].pc \in {"generate", "generating", "save", "saving"} => th[x].c \in Clients
      BY DEF TypeInv, ExportersOK, ExporterOK
    <3>4. QED  BY <1>0, <3>1, <3>2, <3>3 DEF MeshAtWork, Holding, Fades, Trusted
  <2>2. QED  BY <1>0, <2>1 DEF Aside, MeshInv, Stays, SavedUnderItsName, ExportedIsSaved
<1>6. QED  BY <1>1, <1>2, <1>3, <1>4, <1>5 DEF Shape

\* What is set up stays so while connections only fade.
LEMMA ReadyAside ==
    ASSUME TypeInv, ProjInv, ProjectReady, WorkerReady, Aside, Fades,
           \A k \in Clients : Trusted(k)' => (setUp[k] => setUp'[k])
    PROVE  ProjectReady' /\ WorkerReady'
<1>0. Stays(Worker) /\ Undisturbed' = Undisturbed
  BY DEF Aside, Undisturbed, Stays
<1>1. \A k \in Clients : Ready(k) => Ready(k)'
  BY DEF Ready, Fades, Trusted, Aside
<1>2. WorkerReady'
  <2>1. th[Worker].pc \in {"scan", "scanning", "unlockCmd"} => th[Worker].c \in Clients
    BY RunUse DEF UserInv, Commanding
  <2>2. QED  BY <1>0, <1>1, <2>1 DEF WorkerReady, Stays
<1>3. ProjectReady'
  <2>1. \A n : n # NoProject /\ Named(n)' => Named(n)
    BY <1>0 DEF Named, Aside, Stays
  <2>2. sdk \in 0..MaxClients /\ (sdk # 0 => sdk \in Clients)
    BY RunUse
  <2>3. QED  BY <1>0, <1>1, <2>1, <2>2 DEF ProjectReady, Fades, Trusted, Stays
<1>4. QED  BY <1>2, <1>3

-----------------------------------------------------------------------------
(* The callers and the receivers. *)

\* The preview project of a start survives a step that marks no other project.
LEMMA PreviewStep ==
    ASSUME PreviewInv, NEW t, \A u \in Callers \ {t} : Apart(u),
           \/ project' \in {NoProject, Preview, project}
           \/ \A u \in Callers \ {t} : ~(Owns(u) /\ th[u].pc \in Previews),
           t \in Callers /\ Owns(t)' /\ th'[t].pc \in Previews => project' \in {NoProject, Preview}
    PROVE  PreviewInv'
BY DEF PreviewInv, Apart, Stays, Owns

LEMMA PreviewReceiver ==
    ASSUME TypeInv, ProjInv, PreviewInv, NEW c \in Clients,
           Stops(c) \/ Receives(c) \/ DeviceOffline(c) \/ LoseLink(c)
    PROVE  PreviewInv'
BY AsideReceiver, PreviewStep, ThreadFacts DEF Fades, Trusted

LEMMA RunReceiver ==
    ASSUME TypeInv, ProjInv, RunInv, NEW c \in Clients,
           Stops(c) \/ Receives(c) \/ DeviceOffline(c) \/ LoseLink(c)
    PROVE  RunInv'
<1>1. /\ Aside /\ (\A u \in Callers : Stays(u)) /\ Fades /\ (sdk' = 0 \/ project' = project)
      /\ \A k \in Clients : Trusted(k)' => setUp'[k] = setUp[k]
  BY AsideReceiver DEF Apart
<1>2. Shape' /\ OpenInv' /\ MeshInv'
  BY <1>1, RunAside DEF RunInv
<1>3. ProjectReady' /\ WorkerReady'
  BY <1>1, ReadyAside DEF RunInv, SetUpInv
<1>4. PreviewInv'
  BY PreviewReceiver DEF RunInv, SetUpInv
<1>5. QED  BY <1>2, <1>3, <1>4 DEF RunInv, SetUpInv

\* A late answer that nobody waits for comes on a connection on which a command was given up.
LEMMA RunLate ==
    ASSUME TypeInv, LateInv, ProjInv, RunInv, NEW c \in Clients, LateAnswer(c)
    PROVE  RunInv'
<1>1. UNCHANGED <<lockVars, sdk, project, clientVars, th, runVars, meshVars, abandoned, histVars, countVars>>
  BY DEF LateAnswer
<1>2. abandoned[c] /\ \A d \in Clients : d # c => opened'[d] = opened[d] /\ setUp'[d] = setUp[d]
  BY TypeUse DEF LateAnswer, LateFinish, LateInv, ClientsTypeOK
<1>3. Fades /\ \A k \in Clients : Trusted(k)' => setUp'[k] = setUp[k]
  BY <1>1, <1>2 DEF Fades, Trusted, clientVars, countVars
<1>4. Aside /\ \A u \in Callers : Apart(u)
  BY <1>1 DEF Aside, Apart, Stays, Opens, lockVars, runVars, meshVars, histVars, countVars
<1>5. Shape' /\ OpenInv' /\ MeshInv'
  BY <1>1, <1>3, <1>4, RunAside DEF RunInv, Apart
<1>6. ProjectReady' /\ WorkerReady'
  BY <1>3, <1>4, ReadyAside DEF RunInv, SetUpInv
<1>7. PreviewInv'
  BY <1>1, <1>4, PreviewStep, ThreadFacts DEF RunInv, SetUpInv
<1>8. QED  BY <1>5, <1>6, <1>7 DEF RunInv, SetUpInv

\* Where a caller in a command has the lock, the worker is in none.
LEMMA CallerLocks ==
    ASSUME TypeInv, ProjInv, NEW t \in Callers, th[t].pc \in Commanding
    PROVE  /\ th[t].c \in Clients /\ th[Worker].pc \notin Commanding
           /\ \A u \in Callers \ {t} : ~(Owns(u) /\ th[u].pc \in Previews)
<1>1. UserInv(t) /\ t \in Users /\ t # Worker /\ t # NoThread /\ UserInv(Worker) /\ \A u \in Callers : UserInv(u)
  BY ThreadFacts DEF ProjInv, Users
<1>2. QED  BY <1>1 DEF UserInv, Commanding, Previews

LEMMA ReadyCaller ==
    ASSUME TypeInv, LateInv, ConnInv, ProjInv, RunInv, NEW t \in Callers,
           EnsureConnected(t) \/ Starts(t) \/ Stops(t) \/ Commands(t)
    PROVE  ProjectReady' /\ WorkerReady'
<1>0. /\ Aside /\ Stays(Worker) /\ Undisturbed' = Undisturbed /\ ClientsTypeOK /\ StarterOK(t)
      /\ UserInv(t) /\ ProjectReady /\ WorkerReady /\ PreviewInv
  BY AsideCaller, TypeUse DEF Aside, Undisturbed, Stays, RunInv, SetUpInv, ProjInv, Users
<1>1. ASSUME Fades, \A k \in Clients : Trusted(k)' => (setUp[k] => setUp'[k])
      PROVE  ProjectReady' /\ WorkerReady'
  BY <1>0, <1>1, ReadyAside
<1>2. th[Worker].pc \notin Commanding => WorkerReady'
  BY <1>0 DEF WorkerReady, Stays, Commanding
<1>3. project' \in {NoProject, Preview} => ProjectReady'
  <2>1. projectName' \in 0..MaxProjects /\ runProject' \in 0..MaxProjects /\ Preview \notin 0..MaxProjects
    BY <1>0, RunUse, BoundFacts DEF Aside
  <2>2. QED  BY <2>1 DEF ProjectReady, Named
<1>4. CASE EnsureConnected(t)
  BY <1>1, <1>4 DEF EnsureConnected, Fades, Trusted, clientVars, sdkVars, countVars
<1>5. CASE Stops(t)
  <2>1. sdk' \in {0, sdk} /\ project' \in {NoProject, project} /\ clients' = clients
    BY <1>5 DEF Stops, WaitConnecting, Take, Quiet, Close, countVars
  <2>2. ASSUME NEW k \in Clients
        PROVE  /\ link'[k] = "none" <=> link[k] = "none"
               /\ Trusted(k)' => Trusted(k) /\ opened'[k] = opened[k] /\ setUp'[k] = setUp[k]
    <3>1. CASE Close(t)
      BY <1>0, <3>1 DEF Close, Closed, ClientsTypeOK, Trusted
    <3>2. CASE ~Close(t)
      BY <1>5, <3>2 DEF Stops, WaitConnecting, Take, Quiet, clientVars, sdkVars, Trusted
    <3>3. QED  BY <3>1, <3>2
  <2>3. QED  BY <1>1, <2>1, <2>2 DEF Fades, Trusted
<1>6. CASE Connects(t)
  <2>1. \A k \in Clients : link[k] # "none" => link'[k] = link[k]
    BY <1>0, <1>6 DEF Connects, UserInv, ClientsTypeOK
  <2>2. UNCHANGED <<setUp, abandoned>> /\ project' = NoProject
    BY <1>6 DEF Connects, sdkVars
  <2>3. th[Worker].pc \in {"scan", "scanning", "unlockCmd"} => th[Worker].c \in Clients /\ link[th[Worker].c] # "none"
    BY RunUse DEF UserInv, Commanding
  <2>4. WorkerReady'
    BY <1>0, <2>1, <2>2, <2>3 DEF WorkerReady, Ready, Stays, Aside, Trusted
  <2>5. QED  BY <1>3, <2>2, <2>4
<1>7. CASE Initializes(t)
  <2>1. sdk' = 0
    BY <1>0, <1>7 DEF Initializes, StarterOK, OnlyStart, ConnInv, OwnersAlone, Owns, Connecting
  <2>2. th[Worker].pc \notin Commanding
    BY <1>7, CallerLocks DEF Initializes, Commanding
  <2>3. QED  BY <1>2, <2>1, <2>2 DEF ProjectReady
<1>8. CASE Publish(t)
  <2>1. project' \in {NoProject, Preview}
    BY <1>0, <1>8 DEF Publish, StarterOK, OnlyStart, Owns, Connecting, PreviewInv, Previews
  <2>2. WorkerReady'
    BY <1>0, <1>8 DEF Publish, WorkerReady, Ready, Stays, Aside, clientVars, sdkVars, Trusted
  <2>3. QED  BY <1>3, <2>1, <2>2
<1>9. CASE Starts(t) /\ ~Connects(t) /\ ~Initializes(t) /\ ~Publish(t)
  <2>1. CASE FailStart(t)
    BY <1>0, <1>1, <2>1 DEF FailStart, Closed, Fades, Trusted, ClientsTypeOK, countVars
  <2>2. CASE LockStart(t) \/ AlreadyStarted(t) \/ BeginStart(t) \/ ClearConnecting(t) \/ UnlockStart(t)
    <3>1. UNCHANGED <<sdk, project, link, sdkVars>> /\ clients' \in {clients, clients + 1}
      BY <2>2 DEF LockStart, AlreadyStarted, BeginStart, ClearConnecting, UnlockStart, clientVars, countVars
    <3>2. QED  BY <1>1, <3>1 DEF Fades, Trusted, sdkVars
  <2>3. QED  BY <1>9, <2>1, <2>2 DEF Starts
<1>10. CASE Commands(t)
  <2>1. CASE Opened(t) \/ (Fails(t) /\ th[t].pc = "opening")
    <3>1. project' = NoProject
      BY <1>0, <2>1 DEF Opened, Fails, UserInv
    <3>2. th[Worker].pc \notin Commanding
      BY <2>1, CallerLocks DEF Opened, Commanding
    <3>3. QED  BY <1>2, <1>3, <3>1, <3>2
  <2>2. CASE Mark(t)
    <3>1. project' = Preview
      BY <2>2, ThreadFacts DEF Mark, Opens
    <3>2. th[Worker].pc \notin Commanding
      BY <2>2, CallerLocks DEF Mark, Commanding
    <3>3. QED  BY <1>2, <1>3, <3>1, <3>2
  <2>3. CASE IsSetUp(t)
    <3>1. UNCHANGED <<sdk, project, link, opened, clients>>
      BY <2>3 DEF IsSetUp, clientVars, countVars
    <3>2. abandoned' = abandoned /\ \A k \in Clients : setUp[k] => setUp'[k]
      BY <1>0, <2>3 DEF IsSetUp, ClientsTypeOK
    <3>3. QED  BY <1>1, <3>1, <3>2 DEF Fades, Trusted
  <2>4. CASE LockCmd(t) \/ Open(t) \/ SetUp(t) \/ Scan(t) \/ Scanned(t) \/ UnlockCmd(t)
    <3>1. UNCHANGED <<sdk, link, sdkVars, clients>> /\ project' \in {NoProject, project}
      BY <2>4 DEF LockCmd, Open, SetUp, Scan, Scanned, UnlockCmd, clientVars, countVars, sdkVars
    <3>2. QED  BY <1>1, <3>1 DEF Fades, Trusted, sdkVars
  <2>5. CASE Fails(t) /\ th[t].pc # "opening"
    <3>1. Fades /\ setUp' = setUp
      BY <1>0, <2>5, FailsFades DEF Users
    <3>2. QED  BY <1>1, <3>1
  <2>6. CASE TakesLateAnswer(t)
    <3>1. Fades /\ \A k \in Clients : Trusted(k)' => setUp'[k] = setUp[k]
      BY <1>0, <2>6, LateTaken DEF Users
    <3>2. QED  BY <1>1, <3>1
  <2>7. QED  BY <1>10, <2>1, <2>2, <2>3, <2>4, <2>5, <2>6 DEF Commands
<1>11. QED  BY <1>4, <1>5, <1>6, <1>7, <1>8, <1>9, <1>10

LEMMA PreviewCaller ==
    ASSUME TypeInv, ProjInv, PreviewInv, NEW t \in Callers,
           EnsureConnected(t) \/ Starts(t) \/ Stops(t) \/ Commands(t)
    PROVE  PreviewInv'
<1>0. /\ t \in Threads /\ t \in Users /\ th \in [Threads -> Locals] /\ StarterOK(t) /\ UserInv(t)
      /\ startLock \in Callers \cup {NoThread} /\ t # NoThread /\ t # Worker
  BY TypeUse, ThreadFacts DEF ProjInv, Users, LocksTypeOK
<1>1. \A u \in Callers \ {t} : Apart(u)
  BY CallerApart, StopsApart, UserApart, ThreadFacts DEF Users
<1>2. project' \in {NoProject, Preview, project}
  BY <1>0 DEF EnsureConnected, Starts, LockStart, AlreadyStarted, BeginStart, Connects, Initializes, Publish,
     ClearConnecting, FailStart, UnlockStart, Stops, WaitConnecting, Take, Quiet, Close, Commands, LockCmd, Open,
     Opened, Mark, SetUp, IsSetUp, Scan, Scanned, UnlockCmd, Fails, TakesLateAnswer, Opens
<1>3. ASSUME Owns(t)', th'[t].pc \in Previews
      PROVE  (Owns(t) /\ th[t].pc \in Previews /\ project' = project) \/ project' = Preview
  <2>1. CASE EnsureConnected(t) \/ Stops(t)
    <3>1. startLock' = startLock /\ th[t].pc \in {"ensure"} \cup Stopping
      BY <2>1, StopsTo, StopsFrame DEF EnsureConnected, lockVars
    <3>2. th'[t].pc \notin Previews
      <4>1. CASE EnsureConnected(t)
        BY <1>0, <4>1, NowGoto DEF EnsureConnected, Now, Places, Previews
      <4>2. CASE Stops(t)
        BY <4>2, StopsTo, FinishesTo DEF Now, Previews
      <4>3. QED  BY <2>1, <4>1, <4>2
    <3>3. QED  BY <1>3, <3>2
  <2>2. CASE Starts(t)
    <3>1. th'[t].pc \notin Previews
      <4>1. CASE Initializes(t)
        <5>1. th[t].c \in Clients /\ th[t].c # t
          BY <1>0, <4>1, ThreadFacts DEF Initializes, UserInv, Commanding
        <5>2. QED  BY <1>0, <4>1, <5>1, ThreadFacts DEF Initializes, Previews, Locals
      <4>2. CASE BeginStart(t) \/ FailStart(t)
        BY <1>0, <4>2 DEF BeginStart, FailStart, Locals, Previews
      <4>3. CASE UnlockStart(t)
        BY <1>0, <1>3, <4>3 DEF UnlockStart, Owns
      <4>4. CASE LockStart(t) \/ AlreadyStarted(t) \/ Connects(t) \/ Publish(t) \/ ClearConnecting(t)
        <5>1. PICK p \in {"take", "waitConn", "begin", "unlock", "lockCmd", "connected", "unlockRetry"} : Goto(t, p)
          BY <4>4 DEF LockStart, AlreadyStarted, Connects, Publish, ClearConnecting
        <5>2. QED  BY <1>0, <5>1, NowGoto DEF Now, Places, Previews
      <4>5. QED  BY <2>2, <4>1, <4>2, <4>3, <4>4 DEF Starts
    <3>2. QED  BY <1>3, <3>1
  <2>3. CASE Commands(t)
    <3>0. startLock = t
      BY <1>3, <2>3 DEF Owns, Commands, LockCmd, Open, Opened, Mark, SetUp, IsSetUp, Scan, Scanned, UnlockCmd,
         Fails,
         TakesLateAnswer, lockVars
    <3>1. CASE LockCmd(t) \/ Fails(t)
      <4>1. th'[t].pc \in {"init", "fail"}
        BY <3>0, <3>1, LockCmdTo, FailsTo, <1>0 DEF Now
      <4>2. QED  BY <1>3, <4>1 DEF Previews
    <3>2. CASE Open(t) \/ Opened(t)
      BY <1>0, <1>3, <3>2, NowGoto DEF Open, Opened, Now, Places, Previews
    <3>3. CASE Mark(t)
      BY <1>0, <3>3 DEF Mark, Opens
    <3>4. CASE SetUp(t) \/ IsSetUp(t) \/ UnlockCmd(t)
      BY <3>0, <3>4 DEF SetUp, IsSetUp, UnlockCmd, Owns, Connecting, Previews
    <3>5. CASE Scan(t) \/ Scanned(t)
      BY <1>0, <3>0, <3>5 DEF Scan, Scanned, StarterOK, OnlyStart, Connecting, Stopping
    <3>6. CASE TakesLateAnswer(t)
      <4>1. CASE th[t].pc = "opening"
        BY <1>0, <1>3, <3>6, <4>1, NowGoto DEF TakesLateAnswer, Now, Places, Previews
      <4>2. CASE th[t].pc = "setting"
        BY <3>0, <3>6, <4>2 DEF TakesLateAnswer, Owns, Connecting, Previews
      <4>3. QED  BY <3>6, <4>1, <4>2 DEF TakesLateAnswer
    <3>7. QED  BY <2>3, <3>1, <3>2, <3>3, <3>4, <3>5, <3>6 DEF Commands
  <2>4. QED  BY <2>1, <2>2, <2>3
<1>4. QED  BY <1>1, <1>2, <1>3, PreviewStep DEF PreviewInv

LEMMA RunCaller ==
    ASSUME TypeInv, LateInv, ConnInv, ProjInv, RunInv, NEW t \in Callers,
           EnsureConnected(t) \/ Starts(t) \/ Stops(t) \/ Commands(t)
    PROVE  RunInv'
<1>1. Aside /\ th[t].pc # "idle" /\ ~Undisturbed
  BY AsideCaller DEF RunInv, Shape, CallersAway
<1>2. \A u \in Callers \ {t} : Stays(u)
  BY CallerApart, StopsApart, UserApart, ThreadFacts DEF Users, Apart
<1>3. Shape' /\ OpenInv' /\ MeshInv'
  BY <1>1, <1>2, RunAside DEF RunInv
<1>4. QED  BY <1>3, ReadyCaller, PreviewCaller DEF RunInv, SetUpInv

LEMMA RunAsks ==
    ASSUME TypeInv, ProjInv, RunInv, NEW t \in Callers, NEW op \in {"start", "restart", "force", "stop", "apply"},
           Asks(t, op)
    PROVE  RunInv'
<1>0. /\ Worker \in Threads /\ t # Worker /\ Exporters \subseteq Threads /\ t \notin Exporters
      /\ mesh \in Exporters \cup {NoThread} /\ abort \in BOOLEAN /\ overlap \in BOOLEAN
  BY TypeUse, ThreadFacts DEF RunTypeOK, ExportTypeOK
<1>1. Stays(Worker) /\ \A x \in Exporters : Stays(x)
  BY <1>0, CallerAlone
<1>2. /\ UNCHANGED <<run, projectName, runProject, mesh, meshFailed, exportOf, saved, exported, setUpFailed,
                     projects>>
      /\ UNCHANGED <<sdk, project, link, opened, setUp, abandoned>>
      /\ abort' = (abort \/ (op \in {"restart", "force", "stop"} /\ run = "running"))
      /\ overlap' = (overlap \/ (th[Worker].pc # "idle" /\ run # "running"))
      /\ astray' = StrayIf(abort' /\ Exports)
      /\ op \in {"start", "apply"} => run # "running"
  BY DEF Asks, clientVars, sdkVars, runVars, NotRunning
<1>3. ~Undisturbed'
  BY <1>1, <1>2 DEF Undisturbed, Stays
<1>4. Shape'
  BY <1>1, <1>2, <1>3 DEF RunInv, Shape, WorkerShape, CallersAway, ExporterShape, Stays
<1>5. OpenInv'
  BY <1>3 DEF OpenInv
<1>6. ProjectReady' /\ WorkerReady'
  BY <1>1, <1>2, <1>3 DEF RunInv, SetUpInv, ProjectReady, WorkerReady, Ready, Named, Stays, Trusted
<1>7. PreviewInv'
  <2>1. th'[t].pc \notin Previews
    BY TypeUse, ThreadFacts DEF Asks, Idle, Previews
  <2>2. \A u \in Callers \ {t} : Apart(u)
    BY CallerApart, ThreadFacts DEF Users
  <2>3. QED  BY <1>2, <2>1, <2>2, PreviewStep DEF RunInv, SetUpInv
<1>8. MeshInv'
  <2>1. ASSUME NEW x \in Exporters, th'[x].pc # "idle" PROVE astray' = "left"
    <3>1. th[x].pc # "idle"
      BY <1>1, <2>1 DEF Stays
    <3>2. CASE astray = "left"
      BY <1>2, <3>2 DEF StrayIf
    <3>3. CASE astray # "left"
      <4>1. x = mesh /\ Undisturbed /\ th[Worker].pc = "end"
        BY <3>1, <3>3 DEF RunInv, MeshInv, MeshAtWork, Shape, WorkerShape
      <4>2. run = "running" /\ abort' = TRUE
        BY <1>2, <1>3, <4>1, <1>1, RunUse DEF WorkerOK, RunInv, Shape, WorkerShape, Undisturbed, Stays
      <4>3. Exports
        BY <2>1, <3>1, <4>1, RunUse DEF Exports
      <4>4. QED  BY <1>2, <4>2, <4>3 DEF StrayIf
    <3>4. QED  BY <3>2, <3>3
  <2>2. astray' \in {"left", astray}
    BY <1>2 DEF StrayIf
  <2>3. QED
    BY <1>1, <1>2, <2>1, <2>2 DEF RunInv, MeshInv, Stays, SavedUnderItsName, ExportedIsSaved
<1>9. QED  BY <1>4, <1>5, <1>6, <1>7, <1>8 DEF RunInv, SetUpInv

-----------------------------------------------------------------------------
(* The worker's commands. *)

\* A step of the worker that is not at the end of its run: no mesh worker is the run's.
LEMMA MeshOff ==
    ASSUME TypeInv, RunInv, th[Worker].pc # "end", \A x \in Exporters : Stays(x),
           UNCHANGED <<mesh, astray, saved, exported>>
    PROVE  MeshInv'
<1>1. mesh \notin Exporters
  BY DEF RunInv, Shape, WorkerShape
<1>2. QED  BY <1>1 DEF RunInv, MeshInv, MeshAtWork, Stays, SavedUnderItsName, ExportedIsSaved

\* A step of the worker moves nobody else.
LEMMA WorkerAlone ==
    ASSUME TypeInv, Commands(Worker) \/ RunStarts \/ NextScan \/ RunEnds \/ Finalize \/ LeaveMeshWorker
                    \/ \E op \in {"new", "resume"} : RunBegins(op)
    PROVE  (\A x \in Exporters : Stays(x)) /\ (\A u \in Callers : Stays(u))
<1>0. th \in [Threads -> Locals]
  BY TypeUse
<1>1. ASSUME NEW u \in Threads \ {Worker} PROVE Stays(u)
  <2>1. CASE Commands(Worker)
    BY <2>1, UserAlone, ThreadFacts DEF Users
  <2>2. CASE ~Commands(Worker)
    BY <1>0, <2>2 DEF RunStarts, NextScan, RunEnds, Finalize, LeaveMeshWorker, RunBegins, Goto, Leaves, Stays
  <2>3. QED  BY <2>1, <2>2
<1>2. QED  BY <1>1, ThreadFacts

\* What the worker's steps leave alone.
LEMMA WorkerFrame ==
    ASSUME Commands(Worker)
    PROVE  /\ UNCHANGED <<startLock, sdk, link, clients, projects, overlap, mesh, astray, saved, exported,
                        exportOf>>
           /\ th[Worker].pc \notin {"idle", "begin", "ready", "end"}
BY DEF Commands, LockCmd, Open, Opened, Mark, SetUp, IsSetUp, Scan, Scanned, UnlockCmd, Fails, TakesLateAnswer,
   lockVars,
       clientVars, meshVars, histVars, countVars

\* The callers stay away as long as the run does not become undisturbed.
LEMMA AwayStays ==
    ASSUME Shape, Undisturbed' => Undisturbed, \A u \in Callers : Stays(u), \A x \in Exporters : Stays(x)
    PROVE  CallersAway' /\ \A x \in Exporters : ExporterShape(x)'
BY DEF Shape, CallersAway, ExporterShape, Stays

\* A step of the worker that only goes on leaves the state of the pipeline.
LEMMA WorkerGoesOn ==
    ASSUME TypeInv, ProjInv, RunInv, Commands(Worker), NEW p \in Places, Goto(Worker, p),
           <<th[Worker].pc, p>> \in Going, UNCHANGED <<runVars, setUpFailed>>
    PROVE  /\ Now(Worker, p, th[Worker].op, th[Worker].c) /\ Opens(Worker)' = Opens(Worker)
           /\ Undisturbed' = Undisturbed
           /\ \A n : Named(n)' <=> Named(n)
           /\ Shape' /\ MeshInv'
<1>1. Now(Worker, p, th[Worker].op, th[Worker].c)
  BY RunUse, NowGoto
<1>2. p \notin {"idle", "begin"} /\ th[Worker].pc \notin {"idle", "begin", "end"} /\ p # "end"
  BY WorkerFrame DEF Going
<1>3. Opens(Worker)' = Opens(Worker)
  BY <1>1, WorkerFrame DEF Now, Opens, runVars
<1>4. Undisturbed' = Undisturbed /\ \A n : Named(n)' <=> Named(n)
  BY <1>1, <1>2, WorkerFrame DEF Now, Undisturbed, Named, runVars
<1>5. (\A x \in Exporters : Stays(x)) /\ (\A u \in Callers : Stays(u))
  BY WorkerAlone
<1>6. WorkerShape'
  <2>1. th[Worker].op = "scan" => p \in {"ready", "lockCmd", "scan", "scanning", "unlockCmd", "end"}
    BY DEF Going, RunInv, Shape, WorkerShape
  <2>2. QED  BY <1>1, <1>2, <2>1, WorkerFrame DEF Now, RunInv, Shape, WorkerShape, runVars
<1>7. MeshInv'
  BY <1>2, <1>5, WorkerFrame, MeshOff
<1>8. QED  BY <1>1, <1>3, <1>4, <1>5, <1>6, <1>7, AwayStays DEF RunInv, Shape

\* Where the worker has the lock, no start is between its set-up and its publication.
LEMMA WorkerLocks ==
    ASSUME TypeInv, ProjInv, th[Worker].pc \in Commanding
    PROVE  \A u \in Callers : ~(Owns(u) /\ th[u].pc \in Previews)
<1>1. UserInv(Worker) /\ Worker # NoThread /\ Worker \notin Callers /\ \A u \in Callers : UserInv(u)
  BY RunUse, ThreadFacts DEF ProjInv, Users
<1>2. QED  BY <1>1 DEF UserInv, Commanding, Previews

LEMMA PreviewWorker ==
    ASSUME TypeInv, ProjInv, RunInv, Commands(Worker)
    PROVE  PreviewInv'
<1>1. \A u \in Callers : Apart(u)
  BY UserApart, ThreadFacts DEF Users
<1>2. Worker \notin Callers /\ PreviewInv
  BY ThreadFacts DEF RunInv, SetUpInv
<1>3. CASE Mark(Worker)
  BY <1>1, <1>2, <1>3, WorkerLocks, PreviewStep DEF Mark, Commanding
<1>4. CASE ~Mark(Worker)
  <2>1. project' \in {NoProject, project}
    BY <1>4 DEF Commands, LockCmd, Open, Opened, SetUp, IsSetUp, Scan, Scanned, UnlockCmd, Fails,
              TakesLateAnswer
  <2>2. QED  BY <1>1, <1>2, <2>1, PreviewStep
<1>5. QED  BY <1>3, <1>4

LEMMA RunWorkerGoes ==
    ASSUME TypeInv, LateInv, ProjInv, RunInv,
           Open(Worker) \/ Opened(Worker) \/ Mark(Worker) \/ SetUp(Worker) \/ IsSetUp(Worker) \/ Scan(Worker)
           \/ Scanned(Worker) \/ TakesLateAnswer(Worker)
    PROVE  RunInv'
<1>0. Commands(Worker) /\ UNCHANGED <<runVars, setUpFailed>>
  BY DEF Commands, Open, Opened, Mark, SetUp, IsSetUp, Scan, Scanned, TakesLateAnswer, histVars
<1>1. PICK p \in Places : <<th[Worker].pc, p>> \in Going /\ Goto(Worker, p)
  BY CommandGoesOn DEF GoesOn
<1>2. /\ Now(Worker, p, th[Worker].op, th[Worker].c) /\ Opens(Worker)' = Opens(Worker) /\ Undisturbed' = Undisturbed
      /\ (\A n : Named(n)' <=> Named(n)) /\ Shape' /\ MeshInv'
  BY <1>0, <1>1, WorkerGoesOn
<1>3. /\ th'[Worker].pc = p /\ th'[Worker].c = th[Worker].c /\ th'[Worker].op = th[Worker].op
      /\ UNCHANGED <<sdk, link, abandoned>> /\ th[Worker].c \in Clients /\ sdk \in {0, th[Worker].c}
      /\ OpenInv /\ ProjectReady /\ WorkerReady
  <2>1. th[Worker].pc \in Commanding
    BY DEF Open, Opened, Mark, SetUp, IsSetUp, Scan, Scanned, TakesLateAnswer, Commanding
  <2>2. abandoned' = abandoned
    BY DEF Open, Opened, Mark, SetUp, IsSetUp, Scan, Scanned, TakesLateAnswer, sdkVars
  <2>3. QED  BY <1>0, <1>2, <2>1, <2>2, WorkerFrame, RunUse DEF Now, UserInv, RunInv, SetUpInv
<1>4. PreviewInv'
  BY <1>0, PreviewWorker
<1>5. th[Worker].op = "scan" <=> th[Worker].pc \in {"scan", "scanning"}
      \/ (th[Worker].op = "scan" /\ th[Worker].pc \in {"ready", "lockCmd", "unlockCmd", "end"})
  BY RunUse DEF WorkerOK, RunInv, Shape, WorkerShape
<1>6. CASE Open(Worker) \/ Opened(Worker)
  <2>1. p \in {"opening", "mark"} /\ project' = NoProject /\ th[Worker].op # "scan"
    <3>1. th'[Worker].pc \in {"opening", "mark"}
      BY <1>6, RunUse, NowGoto DEF Open, Opened, Now, Places
    <3>2. QED  BY <1>3, <1>5, <1>6, <3>1, RunUse DEF Open, Opened, UserInv
  <2>2. QED
    BY <1>2, <1>3, <1>4, <2>1 DEF RunInv, SetUpInv, OpenInv, ProjectReady, WorkerReady, HasOpen
<1>7. CASE Mark(Worker)
  <2>1. p = "setup" /\ project' = Opens(Worker) /\ UNCHANGED <<opened, setUp>> /\ th[Worker].op # "scan"
    <3>1. Goto(Worker, "setup")
      BY <1>7 DEF Mark
    <3>2. th'[Worker].pc = "setup"
      BY <3>1, RunUse, NowGoto DEF Now, Places
    <3>3. QED  BY <1>3, <1>5, <1>7, <3>2 DEF Mark, sdkVars
  <2>2. Holding(th[Worker].c, Opens(Worker))
    BY <1>7, RunUse DEF Mark, UserInv, Holding
  <2>3. OpenInv'
    BY <1>2, <1>3, <2>1, <2>2 DEF OpenInv, Holding, Trusted
  <2>4. ProjectReady' /\ WorkerReady'
    BY <1>3, <2>1 DEF ProjectReady, WorkerReady
  <2>5. QED  BY <1>2, <1>4, <2>3, <2>4 DEF RunInv, SetUpInv
<1>8. CASE SetUp(Worker) \/ IsSetUp(Worker) \/ Scan(Worker) \/ Scanned(Worker)
  <2>1. /\ th[Worker].pc \in HasOpen /\ UNCHANGED <<project, opened>>
        /\ setUp' \in [Clients -> BOOLEAN] /\ \A k \in Clients : setUp[k] => setUp'[k]
    BY <1>8, RunUse DEF SetUp, IsSetUp, Scan, Scanned, HasOpen, sdkVars
  <2>2. OpenInv'
    BY <1>2, <1>3, <2>1 DEF OpenInv, Holding, Trusted
  <2>3. \A k \in Clients : Ready(k) => Ready(k)'
    BY <1>0, <1>3, <2>1 DEF Ready, Trusted
  <2>4. CASE IsSetUp(Worker)
    <3>1. p = "unlockCmd"
      BY <1>3, <2>4, RunUse, NowGoto DEF IsSetUp, Now, Places
    <3>2. Ready(th[Worker].c)'
      BY <1>3, <2>4, RunUse DEF IsSetUp, Ready, Trusted
    <3>3. ProjectReady' /\ WorkerReady'
      BY <1>3, <3>1, <3>2 DEF ProjectReady, WorkerReady, Ready
    <3>4. QED  BY <1>2, <1>4, <2>2, <3>3 DEF RunInv, SetUpInv
  <2>5. CASE SetUp(Worker)
    <3>1. p = "setting"
      BY <1>3, <2>5, RunUse, NowGoto DEF SetUp, Now, Places
    <3>2. QED  BY <1>2, <1>3, <1>4, <2>2, <3>1 DEF ProjectReady, WorkerReady, RunInv, SetUpInv
  <2>6. CASE Scan(Worker) \/ Scanned(Worker)
    <3>1. p \in {"scanning", "unlockCmd"} /\ th[Worker].op = "scan" /\ th[Worker].pc \in {"scan", "scanning"}
      BY <1>3, <1>5, <2>6, RunUse, NowGoto DEF Scan, Scanned, Now, Places
    <3>2. WorkerReady'
      BY <1>2, <1>3, <2>3, <3>1 DEF WorkerReady
    <3>3. ProjectReady'
      BY <1>2, <1>3, <2>1, <2>3, <3>1 DEF ProjectReady
    <3>4. QED  BY <1>2, <1>4, <2>2, <3>2, <3>3 DEF RunInv, SetUpInv
  <2>7. QED  BY <1>8, <2>4, <2>5, <2>6
<1>9. CASE TakesLateAnswer(Worker)
  <2>1. /\ project' = project /\ ~Trusted(th[Worker].c) /\ th[Worker].op # "scan"
        /\ \/ th[Worker].pc = "opening" /\ p = "mark" /\ project = NoProject
           \/ th[Worker].pc = "setting" /\ p = "unlockCmd"
    <3>1. /\ project' = project /\ ~Trusted(th[Worker].c)
          /\ \/ th[Worker].pc = "opening" /\ Goto(Worker, "mark")
             \/ th[Worker].pc = "setting" /\ Goto(Worker, "unlockCmd")
      BY <1>9, LateTaken, RunUse
    <3>2. \/ th[Worker].pc = "opening" /\ p = "mark"
          \/ th[Worker].pc = "setting" /\ p = "unlockCmd"
      BY <1>3, <3>1, RunUse, NowGoto DEF Now, Places
    <3>3. th[Worker].pc = "opening" => project = NoProject
      BY RunUse DEF UserInv
    <3>4. QED  BY <1>5, <3>1, <3>2, <3>3
  <2>2. ~Trusted(th[Worker].c)'
    BY <1>3, <2>1 DEF Trusted
  <2>3. OpenInv'
    BY <1>2, <1>3, <2>1, <2>2 DEF OpenInv, Holding, HasOpen
  <2>4. ProjectReady' /\ WorkerReady'
    BY <1>3, <2>1, <2>2 DEF ProjectReady, WorkerReady, Ready
  <2>5. QED  BY <1>2, <1>4, <2>3, <2>4 DEF RunInv, SetUpInv
<1>10. QED  BY <1>6, <1>7, <1>8, <1>9

\* The worker gets the lock: its project is open, it scans, or it opens its project.
LEMMA RunWorkerLocks == ASSUME TypeInv, ProjInv, RunInv, LockCmd(Worker) PROVE RunInv'
<1> USE DEF Now
<1>0. Commands(Worker) /\ sdk \in Clients /\ sdk # 0 /\ WorkerOK /\ ProjectIsOpen
  BY RunUse DEF Commands, LockCmd, ProjInv, ServiceInv
<1>1. /\ UNCHANGED <<sdk, project, link, opened, setUp, abandoned, setUpFailed, runVars>>
      /\ projects' = projects
  BY DEF LockCmd, clientVars, sdkVars, histVars, countVars
<1>2. PICK p \in Places, k \in 0..MaxClients :
         Now(Worker, p, th[Worker].op, k) /\ p \in {"scan", "generate", "unlockCmd", "open"} /\ k = sdk
  BY LockCmdTo, RunUse
<1>3. /\ th[Worker].pc = "lockCmd" /\ th[Worker].op \in {"new", "resume", "scan"}
      /\ p = CASE th[Worker].op = "scan" -> "scan"
               [] th[Worker].op = "export" -> "generate"
               [] th[Worker].op = "resume" /\ project = runProject -> "unlockCmd"
               [] OTHER -> "open"
  BY <1>2, RunUse DEF LockCmd, RunInv, Shape, WorkerShape, Locals
<1>4. CASE \/ th[Worker].op = "scan" /\ p = "scan"
           \/ th[Worker].op = "resume" /\ project = runProject /\ p = "unlockCmd"
           \/ th[Worker].op \in {"new", "resume"} /\ p = "open"
  <2>1. /\ Opens(Worker)' = Opens(Worker)
        /\ th[Worker].op # "new" => Opens(Worker) = runProject /\ runProject # NoProject
    BY <1>0, <1>1, <1>2, <1>3, RunUse, BoundFacts DEF Opens, WorkerOK, runVars
  <2>2. Undisturbed' = Undisturbed /\ \A n : Named(n)' <=> Named(n)
    BY <1>1, <1>2, <1>3 DEF Undisturbed, Named, runVars, LockCmd, histVars
  <2>3. (\A x \in Exporters : Stays(x)) /\ (\A u \in Callers : Stays(u))
    BY <1>0, WorkerAlone
  <2>4. MeshInv'
    BY <1>0, <2>3, WorkerFrame, MeshOff
  <2>5. WorkerShape'
    BY <1>0, <1>1, <1>2, <1>3, <1>4, WorkerFrame DEF RunInv, Shape, WorkerShape, runVars
  <2>6. Shape'
    BY <2>2, <2>3, <2>5, AwayStays DEF RunInv, Shape
  <2>7. Undisturbed /\ p # "open" => project = runProject
    BY <1>0, <1>4, <2>1 DEF RunInv, OpenInv
  <2>8. OpenInv'
    BY <1>0, <1>1, <1>2, <1>4, <2>1, <2>2, <2>7 DEF OpenInv, HasOpen, Holding, ProjectIsOpen, Trusted
  <2>9. p # "open" /\ project = runProject => Ready(sdk)
    BY <1>0, <1>3, <1>4, <2>1 DEF RunInv, SetUpInv, ProjectReady, Named
  <2>10. WorkerReady'
    BY <1>1, <1>2, <1>4, <2>2, <2>7, <2>9 DEF WorkerReady, Ready, Trusted
  <2>11. ProjectReady'
    BY <1>1, <1>3, <2>2 DEF RunInv, SetUpInv, ProjectReady, Ready, Trusted
  <2>12. QED  BY <1>0, <2>4, <2>6, <2>8, <2>10, <2>11, PreviewWorker DEF RunInv, SetUpInv
<1>5. \/ th[Worker].op = "scan" /\ p = "scan"
      \/ th[Worker].op = "resume" /\ project = runProject /\ p = "unlockCmd"
      \/ th[Worker].op \in {"new", "resume"} /\ p = "open"
  BY <1>3
<1>6. QED  BY <1>4, <1>5

\* The worker gives the lock back: the run is on, in the project it opened or found open.
LEMMA RunWorkerUnlocks == ASSUME TypeInv, ProjInv, RunInv, UnlockCmd(Worker) PROVE RunInv'
<1> USE DEF Now
<1>0. Commands(Worker) /\ th[Worker].pc = "unlockCmd" /\ startLock # Worker /\ th[Worker].c \in Clients
      /\ sdk \in {0, th[Worker].c}
  BY RunUse DEF Commands, UnlockCmd, UserInv, Commanding
<1>1. /\ UNCHANGED <<sdk, project, link, opened, setUp, abandoned, setUpFailed>>
      /\ projectName' = Opens(Worker) /\ runProject' = Opens(Worker) /\ run' = "running"
      /\ abort' = (abort /\ th[Worker].op # "resume")
  BY <1>0 DEF UnlockCmd, clientVars, sdkVars, histVars
<1>2. Now(Worker, "ready", "scan", 0)
  BY <1>0, UnlockCmdTo, RunUse
<1>3. /\ Opens(Worker)' = Opens(Worker) /\ (th[Worker].op = "scan" => Opens(Worker) = runProject)
      /\ Undisturbed' => Undisturbed
  <2>1. Opens(Worker)' = Opens(Worker) /\ (th[Worker].op = "scan" => Opens(Worker) = runProject)
    BY <1>1, <1>2, RunUse DEF Opens
  <2>2. th[Worker].op = "resume" => ~abort
    BY DEF RunInv, Shape, WorkerShape
  <2>3. overlap' = overlap /\ th[Worker].pc # "idle"
    BY <1>0, WorkerFrame
  <2>4. Undisturbed' => Undisturbed
    BY <1>1, <2>2, <2>3 DEF Undisturbed
  <2>5. QED  BY <2>1, <2>4
<1>4. (\A x \in Exporters : Stays(x)) /\ (\A u \in Callers : Stays(u))
  BY <1>0, WorkerAlone
<1>5. MeshInv'
  BY <1>0, <1>4, WorkerFrame, MeshOff
<1>6. WorkerShape'
  BY <1>0, <1>1, <1>2, WorkerFrame DEF RunInv, Shape, WorkerShape
<1>7. Shape'
  BY <1>3, <1>4, <1>6, AwayStays DEF RunInv, Shape
<1>8. OpenInv'
  BY <1>0, <1>1, <1>2, <1>3 DEF RunInv, OpenInv, HasOpen
<1>9. WorkerReady'
  BY <1>2 DEF WorkerReady
<1>10. ProjectReady'
  <2>1. ASSUME sdk # 0, project # NoProject, project = Opens(Worker) PROVE Ready(sdk)
    <3>1. CASE th[Worker].op = "scan"
      BY <1>0, <1>3, <2>1, <3>1 DEF RunInv, SetUpInv, ProjectReady, Named
    <3>2. CASE th[Worker].op # "scan"
      BY <1>0, <2>1, <3>2 DEF RunInv, SetUpInv, WorkerReady
    <3>3. QED  BY <3>1, <3>2
  <2>2. QED  BY <1>1, <1>2, <2>1 DEF ProjectReady, Named, Ready, Trusted
<1>11. QED  BY <1>0, <1>5, <1>7, <1>8, <1>9, <1>10, PreviewWorker DEF RunInv, SetUpInv

LEMMA RunWorkerFails == ASSUME TypeInv, ProjInv, RunInv, Fails(Worker) PROVE RunInv'
<1> USE DEF Now
<1>0. Commands(Worker) /\ startLock # Worker /\ WorkerOK
  BY RunUse DEF Commands
<1>1. Now(Worker, "idle", "none", 0)
  BY <1>0, FailsTo, RunUse
<1>2. /\ UNCHANGED <<sdk, link, projectName, runProject>>
      /\ IF run = "running" THEN run' = "over" /\ abort' = FALSE ELSE UNCHANGED <<run, abort>>
      /\ th[Worker].pc # "opening" => UNCHANGED <<opened, setUp>> /\ Fades
      /\ setUpFailed' = (setUpFailed \/ (th[Worker].op = "resume" /\ th[Worker].pc \in {"setup", "setting"}))
      /\ project' \in {NoProject, project}
  BY FailsFades, RunUse DEF Fails, clientVars
<1>3. (\A x \in Exporters : Stays(x)) /\ (\A u \in Callers : Stays(u)) /\ ~Undisturbed'
  BY <1>0, <1>1, WorkerAlone DEF Undisturbed
<1>4. MeshInv'
  BY <1>0, <1>3, WorkerFrame, MeshOff
<1>5. WorkerShape'
  BY <1>0, <1>1, <1>2, WorkerFrame DEF RunInv, Shape, WorkerShape
<1>6. Shape'
  BY <1>3, <1>5, AwayStays DEF RunInv, Shape
<1>7. OpenInv' /\ WorkerReady'
  BY <1>1, <1>3 DEF OpenInv, WorkerReady
<1>8. ProjectReady'
  <2>1. ASSUME sdk # 0, project # NoProject, project' = project, project = projectName PROVE Ready(sdk)'
    <3>1. th[Worker].pc # "opening"
      BY <2>1, RunUse DEF UserInv
    <3>2. CASE th[Worker].pc \in {"setup", "setting"}
      <4>1. th[Worker].op = "resume"
        BY <1>0, <2>1, <3>2 DEF RunInv, Shape, WorkerShape
      <4>2. QED  BY <1>2, <3>2, <4>1 DEF Ready
    <3>3. CASE th[Worker].pc \notin {"setup", "setting"}
      <4>1. Ready(sdk)
        BY <2>1, <3>3 DEF RunInv, SetUpInv, ProjectReady, Named
      <4>2. sdk \in Clients
        BY <2>1, RunUse
      <4>3. QED  BY <1>2, <3>1, <4>1, <4>2 DEF Ready, Fades
    <3>4. QED  BY <3>2, <3>3
  <2>2. QED  BY <1>1, <1>2, <2>1 DEF ProjectReady, Named
<1>9. QED  BY <1>0, <1>4, <1>6, <1>7, <1>8, PreviewWorker DEF RunInv, SetUpInv

-----------------------------------------------------------------------------
(* The mesh workers. *)

\* A mesh worker's step leaves the connection, the projects and the run alone.
LEMMA ExporterFrame ==
    ASSUME TypeInv, ProjInv, Shape, NEW x \in Exporters, Commands(x) \/ Generates(x)
    PROVE  /\ UNCHANGED <<run, projectName, runProject, abort, overlap, mesh, exportOf, exported, projects>>
           /\ UNCHANGED <<sdk, project, link, opened, setUp, abandoned, setUpFailed, startLock>>
           /\ \A u \in Users \ {x} : Stays(u)
           /\ astray' \in {astray, "cut", "left"} /\ (astray = "left" => astray' = "left")
<1>0. /\ x \in Users /\ x # Worker /\ startLock # x /\ ExporterShape(x) /\ setUpFailed \in BOOLEAN
      /\ astray \in {"no", "cut", "left"}
  BY TypeUse, ThreadFacts DEF Users, LocksTypeOK, RunTypeOK, ExportTypeOK, Shape
<1>1. \A u \in Users \ {x} : Stays(u)
  BY <1>0, UserApart DEF Apart
<1>2. CASE Generates(x)
  BY <1>0, <1>1, <1>2 DEF Generates, Generate, Generated, Save, Saved, StrayIf, lockVars, clientVars, sdkVars,
     runVars,
     meshVars, histVars, countVars
<1>3. CASE LockCmd(x) \/ UnlockCmd(x)
  BY <1>0, <1>1, <1>3 DEF LockCmd, UnlockCmd, lockVars, clientVars, sdkVars, runVars, meshVars, histVars, countVars
<1>4. CASE Fails(x)
  <2>1. th[x].pc \notin {"open", "opening", "setting"} /\ th[x].op = "export"
    BY <1>0, <1>4 DEF Fails, ExporterShape
  <2>2. setUpFailed' = setUpFailed
    BY <1>0, <1>4, <2>1 DEF Fails
  <2>3. QED  BY <1>0, <1>1, <1>4, <2>1, <2>2 DEF Fails, clientVars, sdkVars, countVars
<1>5. QED
  BY <1>0, <1>2, <1>3, <1>4 DEF Commands, Open, Opened, Mark, SetUp, IsSetUp, Scan, Scanned, TakesLateAnswer,
     ExporterShape

\* Where a mesh worker's step takes it.
LEMMA ExporterTo ==
    ASSUME TypeInv, ProjInv, Shape, NEW x \in Exporters, Commands(x) \/ Generates(x)
    PROVE  /\ th[x].pc # "idle" /\ th[x].op = "export"
           /\ \/ LockCmd(x) /\ Now(x, "generate", "export", sdk) /\ sdk \in Clients
              \/ Generates(x) /\ \E p \in Places : <<th[x].pc, p>> \in Going /\ Now(x, p, "export", th[x].c)
              \/ UnlockCmd(x) /\ Now(x, "idle", "none", 0) /\ th[x].pc = "unlockCmd"
              \/ Fails(x) /\ Now(x, "idle", "none", 0) /\ meshFailed' = WorkerError(x)
<1>0. x \in Users /\ x \in Threads /\ x # Worker /\ startLock # x /\ ExporterShape(x) /\ th \in [Threads -> Locals]
  BY TypeUse, ThreadFacts DEF Users, LocksTypeOK, Shape
<1>1. CASE Generates(x)
  <2>1. th[x].pc # "idle" /\ th[x].op = "export"
    BY <1>0, <1>1 DEF Generates, Generate, Generated, Save, Saved, ExporterShape
  <2>2. QED  BY <1>0, <1>1, <2>1, ExportGoesOn, NowGoto DEF GoesOn
<1>2. CASE LockCmd(x)
  <2>1. th[x].pc # "idle" /\ th[x].op = "export"
    BY <1>0, <1>2 DEF LockCmd, ExporterShape
  <2>2. PICK p \in Places, k \in 0..MaxClients : Now(x, p, "export", k) /\ k \in Clients /\ k = sdk
    BY <1>0, <1>2, <2>1, LockCmdTo
  <2>3. p = "generate"
    BY <1>0, <1>2, <2>1, <2>2 DEF LockCmd, Now, Locals
  <2>4. QED  BY <1>2, <2>1, <2>2, <2>3
<1>3. CASE UnlockCmd(x)
  BY <1>0, <1>3, UnlockCmdTo DEF UnlockCmd, ExporterShape
<1>4. CASE Fails(x)
  BY <1>0, <1>4, FailsTo DEF Fails, ExporterShape
<1>5. QED
  BY <1>0, <1>1, <1>2, <1>3, <1>4
     DEF Commands, Open, Opened, Mark, SetUp, IsSetUp, Scan, Scanned, TakesLateAnswer, ExporterShape

\* A save of the run's mesh worker files the run's project under its name.
LEMMA SavedRight ==
    ASSUME TypeInv, ProjInv, RunInv, NEW x \in Exporters, Saved(x), astray # "left", astray' # "left"
    PROVE  /\ x = mesh /\ exportOf[x] = runProject /\ runProject \in 1..MaxProjects
           /\ \/ Trusted(th[x].c) /\ saved' = [saved EXCEPT ![runProject] = runProject] /\ astray' = astray
              \/ saved' = saved /\ astray' # "no"
<1>1. /\ MeshAtWork(x) /\ exportOf[mesh] = runProject /\ x = mesh /\ th[x].pc = "saving"
      /\ th[Worker].pc = "end" /\ WorkerOK /\ runProject \in 0..MaxProjects
  BY RunUse DEF Saved, RunInv, MeshInv, MeshAtWork, Shape, WorkerShape
<1>2. runProject \in 1..MaxProjects
  BY <1>1, BoundFacts DEF WorkerOK
<1>3. QED  BY <1>1, <1>2 DEF Saved, MeshAtWork, Holding, Trusted, StrayIf

LEMMA RunExporter ==
    ASSUME TypeInv, ProjInv, RunInv, NEW x \in Exporters, Commands(x) \/ Generates(x)
    PROVE  RunInv'
<1> USE DEF Now
<1>0. /\ UNCHANGED <<run, projectName, runProject, abort, overlap, mesh, exportOf, exported, projects>>
      /\ UNCHANGED <<sdk, project, link, opened, setUp, abandoned, setUpFailed, startLock>>
      /\ (\A u \in Users \ {x} : Stays(u))
      /\ astray' \in {astray, "cut", "left"} /\ (astray = "left" => astray' = "left")
  BY ExporterFrame DEF RunInv
<1>1. /\ th[x].pc # "idle" /\ th[x].op = "export"
      /\ \/ LockCmd(x) /\ Now(x, "generate", "export", sdk) /\ sdk \in Clients
         \/ Generates(x) /\ \E p \in Places : <<th[x].pc, p>> \in Going /\ Now(x, p, "export", th[x].c)
         \/ UnlockCmd(x) /\ Now(x, "idle", "none", 0) /\ th[x].pc = "unlockCmd"
         \/ Fails(x) /\ Now(x, "idle", "none", 0) /\ meshFailed' = WorkerError(x)
  BY ExporterTo DEF RunInv
<1>2. /\ Stays(Worker) /\ (\A u \in Callers : Stays(u)) /\ (\A y \in Exporters \ {x} : Stays(y))
      /\ Undisturbed' = Undisturbed /\ Opens(Worker)' = Opens(Worker) /\ \A n : Named(n)' <=> Named(n)
  <2>1. Stays(Worker) /\ (\A u \in Callers : Stays(u)) /\ (\A y \in Exporters \ {x} : Stays(y))
    BY <1>0, ThreadFacts DEF Users
  <2>2. QED  BY <1>0, <2>1 DEF Stays, Undisturbed, Opens, Named
<1>3. Shape'
  <2>1. WorkerShape' /\ CallersAway'
    BY <1>0, <1>2 DEF RunInv, Shape, WorkerShape, CallersAway, Stays
  <2>2. ExporterShape(x)'
    BY <1>1 DEF RunInv, Shape, ExporterShape, Going
  <2>3. QED  BY <1>2, <2>1, <2>2 DEF RunInv, Shape, ExporterShape, Stays
<1>4. OpenInv'
  BY <1>0, <1>2 DEF RunInv, OpenInv, Stays, Holding, Trusted
<1>5. SetUpInv'
  BY <1>0, <1>2 DEF RunInv, SetUpInv, ProjectReady, WorkerReady, PreviewInv, Ready, Stays, Owns, Trusted
<1>6. ASSUME NEW y \in Exporters, th'[y].pc # "idle", astray' # "left" PROVE MeshAtWork(y)'
  <2>1. astray # "left"
    BY <1>0, <1>6
  <2>2. CASE y # x
    BY <1>0, <1>2, <1>6, <2>1, <2>2 DEF RunInv, MeshInv, MeshAtWork, Stays, Holding, Trusted
  <2>3. CASE y = x
    <3>1. MeshAtWork(x) /\ th[Worker].pc = "end"
      BY <1>1, <2>1 DEF RunInv, MeshInv, MeshAtWork, Shape, WorkerShape
    <3>2. CASE LockCmd(x) /\ Now(x, "generate", "export", sdk) /\ sdk \in Clients
      <4>1. project = runProject /\ runProject # NoProject /\ sdk # 0
        BY <3>1, <3>2, RunUse, ThreadFacts, BoundFacts
           DEF MeshAtWork, RunInv, OpenInv, WorkerOK, Opens
      <4>2. Holding(sdk, runProject)
        BY <4>1 DEF ProjInv, ServiceInv, ProjectIsOpen, Holding, Trusted
      <4>3. QED  BY <1>0, <1>2, <2>3, <3>1, <3>2, <4>2 DEF MeshAtWork, Holding, Trusted
    <3>3. CASE Generates(x) /\ \E p \in Places : <<th[x].pc, p>> \in Going /\ Now(x, p, "export", th[x].c)
      BY <1>0, <1>2, <2>3, <3>1, <3>3 DEF MeshAtWork, Holding, Generates, Generate, Generated, Save, Saved,
         Going, Trusted
    <3>4. QED  BY <1>1, <1>6, <2>3, <3>2, <3>3
  <2>4. QED  BY <2>2, <2>3
<1>7. saved \in [1..MaxProjects -> 0..Preview] /\ exported \subseteq 1..MaxProjects
  BY TypeUse DEF ExportTypeOK
<1>8. SavedUnderItsName' /\ ExportedIsSaved'
  <2>0. astray = "left" => astray' = "left"
    BY <1>0
  <2>1. CASE Saved(x) /\ astray' # "left"
    <3>1. /\ exportOf[x] = runProject /\ runProject \in 1..MaxProjects
          /\ \/ saved' = [saved EXCEPT ![runProject] = runProject] /\ astray' = astray
             \/ saved' = saved /\ astray' # "no"
      BY <2>0, <2>1, SavedRight
    <3>2. \A n \in 1..MaxProjects : saved[n] \in {NoProject, n}
      BY <2>0, <2>1 DEF RunInv, MeshInv, SavedUnderItsName
    <3>3. \A n \in 1..MaxProjects : saved'[n] = saved[n] \/ saved'[n] = n
      BY <1>7, <3>1
    <3>4. SavedUnderItsName'
      BY <3>2, <3>3 DEF SavedUnderItsName
    <3>5. ExportedIsSaved'
      <4>1. CASE saved' = [saved EXCEPT ![runProject] = runProject] /\ astray' = astray
        BY <1>0, <1>7, <3>3, <4>1 DEF RunInv, MeshInv, ExportedIsSaved
      <4>2. CASE astray' # "no"
        BY <4>2 DEF ExportedIsSaved
      <4>3. QED  BY <3>1, <4>1, <4>2
    <3>6. QED  BY <3>4, <3>5
  <2>2. CASE astray' = "left"
    BY <2>2 DEF SavedUnderItsName, ExportedIsSaved
  <2>3. CASE ~Saved(x)
    <3>1. UNCHANGED <<saved, astray>>
      BY <1>1, <2>3 DEF Generates, Generate, Generated, Save, LockCmd, UnlockCmd, Fails, meshVars
    <3>2. QED  BY <1>0, <3>1 DEF RunInv, MeshInv, SavedUnderItsName, ExportedIsSaved
  <2>4. QED  BY <2>1, <2>2, <2>3
<1>9. ASSUME mesh' \in Exporters, th'[mesh'].pc \in {"idle", "unlockCmd"}, ~meshFailed', astray' = "no"
      PROVE  saved'[runProject'] = runProject'
  <2>1. astray = "no" /\ x = mesh
    BY <1>0, <1>1, <1>9 DEF RunInv, MeshInv, MeshAtWork
  <2>2. CASE Saved(x)
    BY <1>0, <1>7, <1>9, <2>1, <2>2, SavedRight
  <2>3. CASE UnlockCmd(x) /\ th[x].pc = "unlockCmd"
    <3>1. UNCHANGED <<saved, astray, meshFailed>>
      BY <2>3 DEF UnlockCmd, meshVars
    <3>2. QED  BY <1>0, <1>9, <2>1, <2>3, <3>1 DEF RunInv, MeshInv
  <2>4. CASE Fails(x) /\ meshFailed' = WorkerError(x)
    BY <1>9, <2>1, <2>4 DEF WorkerError
  <2>5. CASE LockCmd(x) /\ Now(x, "generate", "export", sdk)
    BY <1>0, <1>9, <2>1, <2>5
  <2>6. CASE Generates(x) /\ ~Saved(x)
    <3>1. \E p \in {"generating", "save", "saving"} : Goto(x, p)
      BY <2>6 DEF Generates, Generate, Generated, Save
    <3>2. th'[x].pc \in {"generating", "save", "saving"}
      BY <3>1, TypeUse, ThreadFacts, NowGoto DEF Places
    <3>3. QED  BY <1>0, <1>9, <2>1, <3>2
  <2>7. QED  BY <1>1, <2>2, <2>3, <2>4, <2>5, <2>6
<1>10. MeshInv'
  BY <1>0, <1>6, <1>8, <1>9 DEF RunInv, MeshInv
<1>11. QED  BY <1>3, <1>4, <1>5, <1>10 DEF RunInv

-----------------------------------------------------------------------------
(* The run. *)

\* A step of the run leaves the connection and the projects alone; what is set up stays.
LEMMA RunsApart ==
    ASSUME TypeInv, RunInv, Runs \/ \E op \in {"new", "resume"} : RunBegins(op)
    PROVE  /\ UNCHANGED <<sdk, project, link, opened, setUp, abandoned, setUpFailed, startLock>>
           /\ (\A u \in Callers : Stays(u)) /\ PreviewInv'
           /\ \A k : Ready(k) <=> Ready(k)'
<1>1. UNCHANGED <<sdk, project, link, opened, setUp, abandoned, setUpFailed, startLock>>
  BY DEF Runs, RunBegins, RunStarts, NextScan, RunEnds, Finalize, LeaveMeshWorker, StartMeshWorker, lockVars,
         clientVars, sdkVars, histVars
<1>2. \A u \in Callers : Stays(u)
  BY RunAlone
<1>3. QED  BY <1>1, <1>2 DEF RunInv, SetUpInv, PreviewInv, Ready, Owns, Stays, Trusted

LEMMA RunsBegin == ASSUME TypeInv, ProjInv, RunInv, NEW op \in {"new", "resume"}, RunBegins(op) PROVE RunInv'
<1>0. /\ UNCHANGED <<sdk, project>> /\ PreviewInv' /\ (\A k : Ready(k) <=> Ready(k)')
      /\ (\A u \in Callers : Stays(u)) /\ \A x \in Exporters : Stays(x)
  BY RunsApart, WorkerAlone
<1>1. th'[Worker].pc = "begin" /\ th'[Worker].op = op
  BY RunUse DEF RunBegins, Idle
<1>2. /\ th[Worker].pc = "idle" /\ run # "running" /\ UNCHANGED <<runVars, meshVars>>
      /\ overlap' = \E t \in Callers : th[t].pc # "idle"
  BY DEF RunBegins
<1>3. Shape'
  <2>1. WorkerShape'
    BY <1>1, <1>2 DEF RunInv, Shape, WorkerShape, runVars, meshVars
  <2>2. CallersAway'
    BY <1>0, <1>2 DEF CallersAway, Undisturbed, Stays
  <2>3. QED  BY <1>0, <2>1, <2>2 DEF RunInv, Shape, ExporterShape, Stays
<1>4. OpenInv' /\ WorkerReady'
  BY <1>1 DEF OpenInv, WorkerReady, HasOpen
<1>5. ProjectReady'
  BY <1>0, <1>1, <1>2 DEF RunInv, SetUpInv, ProjectReady, Named, runVars
<1>6. MeshInv'
  BY <1>0, <1>2, MeshOff DEF meshVars
<1>7. QED  BY <1>0, <1>3, <1>4, <1>5, <1>6 DEF RunInv, SetUpInv

LEMMA RunsStart == ASSUME TypeInv, ProjInv, RunInv, RunStarts PROVE RunInv'
<1> USE DEF Now
<1>0. /\ UNCHANGED <<sdk, project>> /\ PreviewInv' /\ (\A k : Ready(k) <=> Ready(k)')
      /\ (\A u \in Callers : Stays(u)) /\ (\A x \in Exporters : Stays(x))
      /\ th[Worker].pc = "begin" /\ UNCHANGED <<mesh, meshFailed, exportOf, saved, astray, exported, overlap>>
      /\ th[Worker].op \in {"new", "resume"} /\ run # "running" /\ abort = FALSE
  BY RunsApart, WorkerAlone, TypeUse DEF Runs, RunStarts, histVars, RunInv, Shape, WorkerShape, RunTypeOK
<1>1. \/ /\ th[Worker].op = "new" /\ Now(Worker, "lockCmd", "new", th[Worker].c)
         /\ run' = "running" /\ abort' = FALSE /\ projectName' = NoProject
      \/ /\ th[Worker].op = "resume" /\ UNCHANGED <<run, abort, projectName>> /\ runProject' = projectName
         /\ \/ Now(Worker, "lockCmd", "resume", th[Worker].c)
            \/ Now(Worker, "idle", "none", 0)
  BY <1>0, RunUse, NowGoto, NowLeaves DEF RunStarts, Places
<1>2. Shape'
  <2>1. WorkerShape'
    BY <1>0, <1>1 DEF RunInv, Shape, WorkerShape
  <2>2. Undisturbed' => Undisturbed
    BY <1>0, <1>1 DEF Undisturbed
  <2>3. QED  BY <1>0, <2>1, <2>2, AwayStays DEF RunInv, Shape
<1>3. OpenInv' /\ WorkerReady'
  BY <1>1 DEF OpenInv, WorkerReady, HasOpen
<1>4. ProjectReady'
  BY <1>0, <1>1 DEF RunInv, SetUpInv, ProjectReady, Named
<1>5. MeshInv'
  BY <1>0, MeshOff
<1>6. QED  BY <1>0, <1>2, <1>3, <1>4, <1>5 DEF RunInv, SetUpInv

\* A step of the worker that leaves the run.
LEMMA RunsLeave ==
    ASSUME TypeInv, ProjInv, RunInv, RunEnds \/ Finalize \/ LeaveMeshWorker
    PROVE  Shape' /\ OpenInv' /\ SetUpInv' /\ \A x \in Exporters : Stays(x)
<1> USE DEF Now
<1>0. /\ UNCHANGED <<sdk, project>> /\ PreviewInv' /\ (\A k : Ready(k) <=> Ready(k)')
      /\ (\A u \in Callers : Stays(u)) /\ (\A x \in Exporters : Stays(x))
  BY RunsApart, WorkerAlone DEF Runs
<1>1. /\ Now(Worker, "idle", "none", 0) /\ run' \in {"idle", "over"} /\ abort' = FALSE
      /\ UNCHANGED <<projectName, runProject>> /\ mesh' \notin Exporters
  <2>1. CASE RunEnds
    <3>1. mesh \notin Exporters
      BY <2>1 DEF RunEnds, RunInv, Shape, WorkerShape
    <3>2. QED  BY <2>1, <3>1, RunUse, NowLeaves DEF RunEnds, meshVars
  <2>2. CASE Finalize \/ LeaveMeshWorker
    BY <2>2, RunUse, NowLeaves DEF Finalize, LeaveMeshWorker
  <2>3. QED  BY <2>1, <2>2
<1>2. Shape'
  <2>1. WorkerShape'
    BY <1>1 DEF RunInv, Shape, WorkerShape
  <2>2. QED  BY <1>0, <1>1, <2>1, AwayStays DEF RunInv, Shape, Undisturbed
<1>3. OpenInv' /\ WorkerReady'
  BY <1>1 DEF OpenInv, WorkerReady, Undisturbed
<1>4. ProjectReady'
  <2>1. th[Worker].pc \in {"ready", "end"}
    BY DEF RunEnds, Finalize, LeaveMeshWorker
  <2>2. QED  BY <1>0, <1>1, <2>1 DEF RunInv, SetUpInv, ProjectReady, Named
<1>5. QED  BY <1>0, <1>2, <1>3, <1>4 DEF SetUpInv

LEMMA RunsEnd == ASSUME TypeInv, ProjInv, RunInv, RunEnds \/ Finalize \/ LeaveMeshWorker PROVE RunInv'
<1>1. Shape' /\ OpenInv' /\ SetUpInv' /\ \A x \in Exporters : Stays(x)
  BY RunsLeave
<1>2. CASE RunEnds
  BY <1>1, <1>2, MeshOff DEF RunEnds, meshVars, RunInv
<1>3. CASE Finalize
  <2>1. /\ mesh \in Exporters /\ th[mesh].pc = "idle" /\ NoThread \notin Exporters
        /\ mesh' = NoThread /\ UNCHANGED <<saved, astray>>
        /\ exported' = IF meshFailed THEN exported ELSE exported \cup {runProject}
    <3>1. mesh \in Exporters /\ mesh # NoThread /\ NoThread \notin Exporters
      BY <1>3, RunUse DEF Finalize, RunInv, Shape, WorkerShape
    <3>2. QED  BY <1>3, <3>1 DEF Finalize, Exports
  <2>2. ~meshFailed /\ astray = "no" => saved[runProject] = runProject
    BY <2>1 DEF RunInv, MeshInv
  <2>3. \A x \in Exporters : th'[x].pc # "idle" => astray' = "left"
    BY <1>1, <2>1 DEF RunInv, MeshInv, MeshAtWork, Stays
  <2>4. SavedUnderItsName' /\ ExportedIsSaved'
    BY <2>1, <2>2 DEF RunInv, MeshInv, SavedUnderItsName, ExportedIsSaved
  <2>5. QED  BY <1>1, <2>1, <2>3, <2>4 DEF RunInv, MeshInv
<1>4. CASE LeaveMeshWorker
  <2>1. /\ mesh' = NoThread /\ UNCHANGED <<saved, exported>> /\ astray' = StrayIf(Exports)
        /\ NoThread \notin Exporters
    BY <1>4, RunUse DEF LeaveMeshWorker
  <2>2. ASSUME NEW x \in Exporters, th'[x].pc # "idle" PROVE astray' = "left"
    <3>1. th[x].pc # "idle" /\ (astray # "left" => x = mesh)
      BY <1>1, <2>2 DEF Stays, RunInv, MeshInv, MeshAtWork
    <3>2. QED  BY <2>1, <3>1 DEF StrayIf, Exports
  <2>3. astray' \in {"left", astray}
    BY <2>1 DEF StrayIf
  <2>4. SavedUnderItsName' /\ ExportedIsSaved'
    BY <2>1, <2>3 DEF RunInv, MeshInv, SavedUnderItsName, ExportedIsSaved
  <2>5. QED  BY <1>1, <2>1, <2>2, <2>4 DEF RunInv, MeshInv
<1>5. QED  BY <1>2, <1>3, <1>4

LEMMA RunsNextScan == ASSUME TypeInv, ProjInv, RunInv, NextScan PROVE RunInv'
<1> USE DEF Now
<1>0. /\ UNCHANGED <<sdk, project>> /\ PreviewInv' /\ (\A k : Ready(k) <=> Ready(k)')
      /\ (\A u \in Callers : Stays(u)) /\ (\A x \in Exporters : Stays(x))
      /\ th[Worker].pc = "ready" /\ th[Worker].op = "scan"
  BY RunsApart, WorkerAlone, RunUse DEF Runs, NextScan, WorkerOK
<1>1. /\ Now(Worker, "lockCmd", "scan", th[Worker].c)
      /\ UNCHANGED <<run, runProject, abort, overlap, meshVars>> /\ projectName' = runProject
  BY <1>0, RunUse, NowGoto DEF NextScan, Places, histVars
<1>2. Shape'
  <2>1. WorkerShape'
    BY <1>0, <1>1 DEF RunInv, Shape, WorkerShape, meshVars
  <2>2. QED  BY <1>0, <1>1, <2>1, AwayStays DEF RunInv, Shape, Undisturbed
<1>3. OpenInv' /\ WorkerReady'
  BY <1>0, <1>1 DEF RunInv, OpenInv, WorkerReady, HasOpen, Undisturbed, Opens
<1>4. ProjectReady'
  BY <1>0, <1>1 DEF RunInv, SetUpInv, ProjectReady, Named
<1>5. MeshInv'
  BY <1>0, <1>1, MeshOff DEF meshVars
<1>6. QED  BY <1>0, <1>2, <1>3, <1>4, <1>5 DEF RunInv, SetUpInv

LEMMA RunsMesh == ASSUME TypeInv, ProjInv, RunInv, NEW x \in Exporters, StartMeshWorker(x) PROVE RunInv'
<1>0. /\ UNCHANGED <<sdk, project>> /\ PreviewInv' /\ (\A k : Ready(k) <=> Ready(k)')
      /\ (\A u \in Callers : Stays(u)) /\ x \in Threads /\ x # Worker
      /\ th[Worker].pc = "ready" /\ th[Worker].op = "scan" /\ mesh \notin Exporters
  BY RunsApart, RunUse, ThreadFacts DEF Runs, StartMeshWorker, WorkerOK, RunInv, Shape, WorkerShape
<1>1. /\ th'[Worker].pc = "end" /\ th'[Worker].op = "scan"
      /\ th'[x].pc = "lockCmd" /\ th'[x].op = "export"
      /\ \A y \in Exporters \ {x} : Stays(y)
  <2>1. th[Worker] \in Locals
    BY RunUse
  <2>2. QED  BY <1>0, <2>1, RunUse, ThreadFacts DEF StartMeshWorker, Idle, Locals, Stays
<1>2. /\ mesh' = x /\ meshFailed' = FALSE /\ exportOf' = [exportOf EXCEPT ![x] = runProject]
      /\ astray' = StrayIf(abort \/ overlap) /\ UNCHANGED <<run, projectName, runProject, abort, overlap>>
      /\ UNCHANGED <<saved, exported>> /\ exportOf \in [Exporters -> 0..MaxProjects]
  BY TypeUse DEF StartMeshWorker, runVars, histVars, ExportTypeOK
<1>3. Shape'
  <2>1. WorkerShape'
    BY <1>0, <1>1, <1>2 DEF RunInv, Shape, WorkerShape
  <2>2. CallersAway'
    BY <1>0, <1>2 DEF RunInv, Shape, CallersAway, Undisturbed, Stays
  <2>3. QED  BY <1>1, <2>1, <2>2 DEF RunInv, Shape, ExporterShape, Stays
<1>4. OpenInv' /\ WorkerReady'
  BY <1>0, <1>1, <1>2 DEF RunInv, OpenInv, WorkerReady, HasOpen, Undisturbed, Opens
<1>5. ProjectReady'
  BY <1>0, <1>1, <1>2 DEF RunInv, SetUpInv, ProjectReady, Named
<1>6. MeshInv'
  <2>1. \A y \in Exporters \ {x} : th'[y].pc # "idle" => astray' = "left"
    BY <1>0, <1>1, <1>2 DEF RunInv, MeshInv, MeshAtWork, StrayIf, Stays
  <2>2. astray' # "left" => MeshAtWork(x)'
    BY <1>1, <1>2 DEF MeshAtWork, StrayIf, Undisturbed
  <2>3. SavedUnderItsName' /\ ExportedIsSaved'
    BY <1>2 DEF RunInv, MeshInv, StrayIf, SavedUnderItsName, ExportedIsSaved
  <2>4. QED  BY <1>1, <1>2, <2>1, <2>2, <2>3 DEF MeshInv
<1>7. QED  BY <1>0, <1>3, <1>4, <1>5, <1>6 DEF RunInv, SetUpInv

-----------------------------------------------------------------------------
LEMMA RunInit == Init => RunInv
<1> SUFFICES ASSUME Init PROVE RunInv  OBVIOUS
<1>1. \A t \in Threads : th[t].pc = "idle" /\ th[t].op = "none"
  BY DEF Init, Idle
<1>2. Worker \in Threads /\ Callers \subseteq Threads /\ Exporters \subseteq Threads /\ NoThread \notin Exporters
  BY ThreadFacts
<1>3. Shape
  BY <1>1, <1>2 DEF Init, Shape, WorkerShape, CallersAway, ExporterShape
<1>4. OpenInv /\ SetUpInv
  BY <1>1, <1>2 DEF Init, OpenInv, Undisturbed, SetUpInv, ProjectReady, WorkerReady, PreviewInv
<1>5. MeshInv
  BY <1>1, <1>2 DEF Init, MeshInv, SavedUnderItsName, ExportedIsSaved
<1>6. QED  BY <1>3, <1>4, <1>5 DEF RunInv

LEMMA RunNext == TypeInv /\ LateInv /\ ConnInv /\ ProjInv /\ RunInv /\ [Next]_vars => RunInv'
<1> SUFFICES ASSUME TypeInv, LateInv, ConnInv, ProjInv, RunInv, [Next]_vars PROVE RunInv'  OBVIOUS
<1>1. ASSUME NEW t \in Callers,
             \/ \E op \in {"start", "restart", "force", "stop", "apply"} : Asks(t, op)
             \/ EnsureConnected(t) \/ Starts(t)
      PROVE  RunInv'
  BY <1>1, RunAsks, RunCaller
<1>2. ASSUME NEW t \in Callers \cup Clients, Stops(t) PROVE RunInv'
  BY <1>2, RunCaller, RunReceiver
<1>3. CASE Commands(Worker)
  BY <1>3, RunWorkerGoes, RunWorkerLocks, RunWorkerUnlocks, RunWorkerFails DEF Commands
<1>4. ASSUME NEW t \in Callers \cup {Worker} \cup Exporters, Commands(t) PROVE RunInv'
  BY <1>3, <1>4, RunCaller, RunExporter
<1>5. CASE Runs
  BY <1>5, RunsStart, RunsNextScan, RunsEnd, RunsMesh DEF Runs
<1>6. CASE UNCHANGED vars
  <2>1. UNCHANGED <<sdk, project, link, opened, setUp, abandoned, setUpFailed, startLock, th, run, projectName,
                    runProject>>
        /\ UNCHANGED <<abort, overlap, mesh, meshFailed, exportOf, saved, astray, exported, projects>>
    BY <1>6 DEF vars, lockVars, clientVars, sdkVars, runVars, meshVars, histVars, countVars
  <2>2. Shape' /\ OpenInv'
    BY <2>1 DEF RunInv, Shape, WorkerShape, CallersAway, ExporterShape, Undisturbed, OpenInv, Holding, Opens,
       Trusted
  <2>3. SetUpInv'
    BY <2>1 DEF RunInv, SetUpInv, ProjectReady, WorkerReady, PreviewInv, Ready, Named, Undisturbed, Owns, Trusted
  <2>4. MeshInv'
    BY <2>1 DEF RunInv, MeshInv, MeshAtWork, Undisturbed, Holding, SavedUnderItsName, ExportedIsSaved, Trusted
  <2>5. QED  BY <2>2, <2>3, <2>4 DEF RunInv
<1>7. QED  BY <1>1, <1>2, <1>4, <1>5, <1>6, RunsBegin, RunExporter, RunReceiver, RunLate DEF Next

LEMMA RunInvariance == Spec => []RunInv
BY RunInit, RunNext, TypeInvariance, LateInvariance, ConnInvariance, ProjInvariance, PTL DEF Spec

\* A scan goes into the project of its run, unless a start or a save overlapped the
\* beginning of the run, a command was given up on the connection before, or the run is
\* being stopped.
THEOREM ScanInRunProjectCorrect == Spec => []ScanInRunProject
<1>1. TypeInv /\ RunInv => ScanInRunProject
  <2> SUFFICES ASSUME TypeInv, RunInv, th[Worker].pc = "scanning", Trusted(th[Worker].c), ~overlap, ~abort
               PROVE  opened[th[Worker].c] = runProject
    BY DEF ScanInRunProject
  <2>1. Undisturbed /\ th[Worker].pc \in HasOpen /\ th[Worker].op = "scan"
    BY DEF Undisturbed, HasOpen, TypeInv, WorkerOK
  <2>2. QED  BY <2>1 DEF RunInv, OpenInv, Holding, Opens
<1>2. QED  BY <1>1, TypeInvariance, RunInvariance, PTL

\* That project has its parameters, unless an earlier continue failed while it set them
\* or a command was given up on the connection before.
THEOREM ScanIsSetUpCorrect == Spec => []ScanIsSetUp
<1>1. RunInv => ScanIsSetUp
  BY DEF RunInv, SetUpInv, WorkerReady, Ready, Undisturbed, ScanIsSetUp
<1>2. QED  BY <1>1, RunInvariance, PTL

\* What is saved under the name of a project is its data, unless its mesh worker outlived
\* the run, a start or a save overlapped the beginning of the run, or a command was given
\* up on the connection before.
THEOREM SavedUnderItsNameCorrect == Spec => []SavedUnderItsName
<1>1. RunInv => SavedUnderItsName
  BY DEF RunInv, MeshInv
<1>2. QED  BY <1>1, RunInvariance, PTL

\* A run that ends well has its project saved, unless the connection was cut in the middle.
THEOREM ExportedIsSavedCorrect == Spec => []ExportedIsSaved
<1>1. RunInv => ExportedIsSaved
  BY DEF RunInv, MeshInv
<1>2. QED  BY <1>1, RunInvariance, PTL
=============================================================================
