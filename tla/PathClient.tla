----------------------------- MODULE PathClient -----------------------------
(***************************************************************************)
(* KukaEkiPathClient (app/eki/path_client.py): one client of the robot     *)
(* cell.  Four threads share its fields: the path sender (_tx_loop), the   *)
(* path receiver (_rx_loop), the turntable sender (_turn_tx_loop) and the  *)
(* turntable receiver (_turn_rx_loop).  A worker (a cycle or a jog) asks   *)
(* for one motion at a time and polls robot_status for MOVING and then for *)
(* IDLE; any other thread may cancel it, reconnect the client or stop it.  *)
(*                                                                         *)
(* A pose is a member of Targets; WireTurn gives the turntable angle of a  *)
(* pose as it goes on the wire, so that two poses may share one angle.     *)
(* The robot controller and the turntable drive are not in the repository: *)
(* they are modelled from what the client expects of them.                 *)
(***************************************************************************)
EXTENDS Naturals, Sequences

CONSTANTS
    Targets,     \* poses the worker may ask for
    Wires,       \* turntable angles as written on the wire
    WireTurn,    \* turntable_wire_display_value of each pose
    NoTarget, NoWire,
    LateExecute, \* may a motion be over before the client has heard of it?
    MaxChan,     \* bound: packets in flight in each direction of the path link
    MaxMoves,    \* bound: motions asked for
    MaxCancels,  \* bound: calls of cancel_motion
    MaxLosses    \* bound: links the network drops

ASSUME WireTurnAssumption == WireTurn \in [Targets -> Wires]
ASSUME NoValueAssumption == NoTarget \notin Targets /\ NoWire \notin Wires
ASSUME LateExecuteAssumption == LateExecute \in BOOLEAN
ASSUME BoundsAssumption ==
    /\ MaxChan \in Nat \ {0}
    /\ MaxMoves \in Nat
    /\ MaxCancels \in Nat
    /\ MaxLosses \in Nat

VARIABLES
    conn,            \* self.sock and the link behind it
    stopEvent,       \* stop_event
    motionCancel,    \* _motion_cancel_event
    robotStatus,     \* robot_status
    currentTarget,   \* current_target
    pendingExecute,  \* pending_execute
    executeSent,     \* _execute_sent_at is not None
    awaitingIdle,    \* _execute_awaiting_idle
    turnReady,       \* _turntable_ready_for_execute
    turnConn,        \* self.turn_sock and the link behind it
    tx, rx,          \* locals of _tx_loop and _rx_loop
    rxPartial,       \* _rx_loop's buffer holds a truncated packet
    turnTx, turnRx,  \* locals of _turn_tx_loop and _turn_rx_loop
    starter,         \* the thread in connect_path_service / connect_turntable_service
    worker,          \* the thread that moves the robot
    toRobot,         \* poses of the AxisAngle packets in flight with Execute=1
    fromRobot,       \* RobotStatus packets in flight
    robot,           \* the robot controller
    turnSent,        \* history: the last angle sendall accepted
    unsettled,       \* history: the cycle began before the last one had settled
    moves, cancels, losses

clientVars == <<stopEvent, motionCancel, robotStatus, currentTarget,
                pendingExecute, executeSent, awaitingIdle, turnReady>>
pathVars   == <<conn, tx, rx, rxPartial, toRobot, fromRobot>>
turnVars   == <<turnConn, turnTx, turnRx, turnSent>>
countVars  == <<unsettled, moves, cancels, losses>>
restVars   == <<starter, worker, robot, countVars>>
vars == <<clientVars, pathVars, turnVars, starter, worker, robot, countVars>>

-----------------------------------------------------------------------------
Links     == {"closed", "up", "broken"}   \* "broken": lost, not yet noticed
Holds     == {"live", "closed", "replaced"} \* what became of a thread's socket
Statuses  == {"IDLE", "MOVING"}
Waiting   == {"ensure", "trigger", "waitMoving", "waitIdle"}

FieldsTypeOK ==
    /\ conn \in Links /\ turnConn \in Links
    /\ stopEvent \in BOOLEAN /\ motionCancel \in BOOLEAN
    /\ robotStatus \in Statuses \cup {"None"}
    /\ currentTarget \in Targets
    /\ pendingExecute \in BOOLEAN /\ executeSent \in BOOLEAN
    /\ awaitingIdle \in BOOLEAN /\ turnReady \in BOOLEAN
    /\ rxPartial \in BOOLEAN
    /\ turnSent \in Wires \cup {NoWire}

ThreadsTypeOK ==
    /\ tx \in [pc : {"off", "top", "dial", "send", "mark"}, sock : Holds,
               execute : Targets \cup {NoTarget}]
    /\ rx \in Holds \cup {"off", "top"}
    /\ turnTx \in [pc : {"off", "top", "dial", "send", "mark"}, sock : Holds,
                   wire : Wires \cup {NoWire}]
    /\ (turnTx.pc \in {"send", "mark"} => turnTx.wire \in Wires)
    /\ turnRx \in Holds \cup {"off", "top"}
    /\ starter \in {"off", "path", "turn"}
    /\ worker \in [pc : Waiting \cup {"idle", "done", "failed"}, target : Targets]
    /\ robot \in [moving : BOOLEAN, pose : Targets, goal : Targets]

ChannelsTypeOK == toRobot \in Seq(Targets) /\ fromRobot \in Seq(Statuses)

CountsTypeOK ==
    /\ unsettled \in BOOLEAN
    /\ moves \in 0..MaxMoves
    /\ cancels \in 0..MaxCancels
    /\ losses \in 0..MaxLosses

TypeOK == FieldsTypeOK /\ ThreadsTypeOK /\ ChannelsTypeOK /\ CountsTypeOK

-----------------------------------------------------------------------------
(* Helpers. *)

TxAt(pc) == [pc |-> pc, sock |-> "closed", execute |-> NoTarget]
TurnTxAt(pc) == [pc |-> pc, sock |-> "closed", wire |-> NoWire]

\* What the socket a thread holds becomes when self.sock is closed under it,
\* and when another connection is stored over it.
Closed(hold)   == IF hold = "live" THEN "closed" ELSE hold
Replaced(hold) == IF hold = "live" THEN "replaced" ELSE hold

\* Mutant: waits look at stop_event only.
AbortOnStopOnly == stopEvent

AbortRequested == stopEvent \/ motionCancel

\* Mutant: Execute=1 does not wait for the turntable sender.
CanSendBeforeTurn == pendingExecute /\ robotStatus # "MOVING" /\ conn # "closed"

CanSendExecute ==
    /\ pendingExecute
    /\ turnReady
    /\ robotStatus # "MOVING"
    /\ conn # "closed"
    /\ turnConn # "closed"

\* Mutants: any angle counts; the unrounded angle never equals the wire value.
AnyAngle(wire) == TRUE
NoAngle(wire) == FALSE

\* The sent wire value is still that of the current target.
AngleMatches(wire) == wire = WireTurn[currentTarget]

\* An Execute=1 that the sender has built or that is on its way.
ExecuteInFlight ==
    \/ tx.execute # NoTarget
    \/ toRobot # <<>>

RobotReport == IF robot.moving THEN "MOVING" ELSE "IDLE"

\* _safe_close, called by a thread that says itself what its locals become.
SafeClose ==
    /\ conn' = "closed"
    /\ pendingExecute' = FALSE
    /\ executeSent' = FALSE
    /\ awaitingIdle' = FALSE
    /\ toRobot' = <<>> /\ fromRobot' = <<>>

\* _safe_close_turn.  It takes turn_lock and then lock; between the two the
\* link is closed, so nothing can be dispatched, and it is one step here.
SafeCloseTurn ==
    /\ turnConn' = "closed"
    /\ turnReady' = FALSE

\* The network refuses a connection, as often as it likes.
DialRefused == UNCHANGED countVars

\* connect stores the socket it obtained.  The controller serves one client:
\* a second connection drops the first.  It reports its status to a new client.
Install ==
    /\ conn' = "up"
    /\ robotStatus' = "None"
    /\ pendingExecute' = FALSE
    /\ toRobot' = <<>>
    /\ fromRobot' = <<RobotReport>>

InstallTurn == turnConn' = "up"

-----------------------------------------------------------------------------
(* The connecting thread.  connect reads stop_event and self.connected,    *)
(* dials, and only then takes the lock, so two threads may dial at once.   *)

StartPath ==
    /\ starter = "off" /\ conn = "closed" /\ ~stopEvent
    /\ starter' = "path"
    /\ UNCHANGED <<clientVars, pathVars, turnVars, worker, robot, countVars>>

StarterInstalls ==
    /\ starter = "path"
    /\ Install
    /\ starter' = "off"
    /\ tx' = IF tx.pc = "off" THEN TxAt("top")
             ELSE [tx EXCEPT !.sock = Replaced(@)]
    /\ rx' = IF rx = "off" THEN "top" ELSE Replaced(rx)
    /\ UNCHANGED <<stopEvent, motionCancel, currentTarget, executeSent,
                   awaitingIdle, turnReady, rxPartial, turnVars, worker, robot,
                   countVars>>

\* The last attempt failed, or connect found stop_event set or a connection made.
StarterGivesUp ==
    /\ starter = "path"
    /\ \/ /\ DialRefused /\ SafeClose
          /\ tx' = [tx EXCEPT !.sock = Closed(@)] /\ rx' = Closed(rx)
       \/ /\ stopEvent \/ conn # "closed"
          /\ UNCHANGED <<conn, pendingExecute, executeSent, awaitingIdle, toRobot,
                         fromRobot, tx, rx, countVars>>
    /\ starter' = "off"
    /\ UNCHANGED <<stopEvent, motionCancel, robotStatus, currentTarget, turnReady,
                   rxPartial, turnVars, worker, robot>>

StartTurn ==
    /\ starter = "off" /\ turnConn = "closed" /\ ~stopEvent
    /\ starter' = "turn"
    /\ UNCHANGED <<clientVars, pathVars, turnVars, worker, robot, countVars>>

StarterInstallsTurn ==
    /\ starter = "turn"
    /\ InstallTurn
    /\ starter' = "off"
    /\ turnTx' = IF turnTx.pc = "off" THEN TurnTxAt("top")
                 ELSE [turnTx EXCEPT !.sock = Replaced(@)]
    /\ turnRx' = IF turnRx = "off" THEN "top" ELSE Replaced(turnRx)
    /\ UNCHANGED <<clientVars, pathVars, turnSent, worker, robot, countVars>>

StarterGivesUpTurn ==
    /\ starter = "turn"
    /\ \/ /\ DialRefused /\ SafeCloseTurn
          /\ turnTx' = [turnTx EXCEPT !.sock = Closed(@)] /\ turnRx' = Closed(turnRx)
       \/ /\ stopEvent \/ turnConn # "closed"
          /\ UNCHANGED <<turnReady, turnConn, turnTx, turnRx,
                         countVars>>
    /\ starter' = "off"
    /\ UNCHANGED <<stopEvent, motionCancel, robotStatus, currentTarget,
                   pendingExecute, executeSent, awaitingIdle, pathVars, turnSent,
                   worker, robot>>

-----------------------------------------------------------------------------
(* _tx_loop. *)

TxExit ==
    /\ tx.pc \in {"top", "dial"} /\ stopEvent
    /\ tx' = TxAt("off")
    /\ UNCHANGED <<clientVars, conn, rx, rxPartial, toRobot, fromRobot, turnVars,
                   restVars>>

TxDials ==
    /\ tx.pc = "top" /\ ~stopEvent /\ conn = "closed"
    /\ tx' = TxAt("dial")
    /\ UNCHANGED <<clientVars, conn, rx, rxPartial, toRobot, fromRobot, turnVars,
                   restVars>>

TxInstalls ==
    /\ tx.pc = "dial"
    /\ Install
    /\ rx' = Replaced(rx)
    /\ tx' = TxAt("top")
    /\ UNCHANGED <<stopEvent, motionCancel, currentTarget, executeSent,
                   awaitingIdle, turnReady, rxPartial, turnVars, restVars>>

\* A refused dial closes whatever self.sock is by now and dials again.
TxDialFails ==
    /\ tx.pc = "dial"
    /\ DialRefused /\ SafeClose
    /\ rx' = Closed(rx)
    /\ UNCHANGED <<stopEvent, motionCancel, robotStatus, currentTarget, turnReady,
                   tx, rxPartial, turnVars, starter, worker, robot>>

\* Under the lock: read the socket, the target and whether to execute it.
\* A packet without Execute=1 only says that the client is alive: its pose is
\* not kept.
TxBuilds ==
    /\ tx.pc = "top" /\ ~stopEvent /\ conn # "closed"
    /\ tx' = [pc |-> "send", sock |-> "live",
              execute |-> IF CanSendExecute THEN currentTarget ELSE NoTarget]
    /\ UNCHANGED <<clientVars, conn, rx, rxPartial, toRobot, fromRobot, turnVars,
                   restVars>>

\* sendall, outside the lock.  On a lost link it may still return.
TxSends ==
    /\ tx.pc = "send"
    /\ \/ /\ tx.sock = "live" /\ conn = "up" /\ Len(toRobot) < MaxChan
          /\ toRobot' = IF tx.execute = NoTarget THEN toRobot
                        ELSE Append(toRobot, tx.execute)
       \/ /\ tx.sock = "replaced" \/ (tx.sock = "live" /\ conn = "broken")
          /\ UNCHANGED toRobot
    /\ tx' = TxAt(IF tx.execute = NoTarget THEN "top" ELSE "mark")
    /\ UNCHANGED <<clientVars, conn, rx, rxPartial, fromRobot, turnVars, restVars>>

TxSendFails ==
    /\ tx.pc = "send"
    /\ tx.sock = "closed" \/ (tx.sock = "live" /\ conn = "broken")
    /\ SafeClose
    /\ tx' = TxAt("top") /\ rx' = Closed(rx)
    /\ UNCHANGED <<stopEvent, motionCancel, robotStatus, currentTarget, turnReady,
                   rxPartial, turnVars, restVars>>

TxMarks ==
    /\ tx.pc = "mark"
    /\ executeSent' = TRUE
    /\ tx' = TxAt("top")
    /\ UNCHANGED <<stopEvent, motionCancel, robotStatus, currentTarget,
                   pendingExecute, awaitingIdle, turnReady, conn, rx, rxPartial,
                   toRobot, fromRobot, turnVars, restVars>>

-----------------------------------------------------------------------------
(* _rx_loop. *)

RxExit ==
    /\ rx = "top" /\ stopEvent
    /\ rx' = "off"
    /\ UNCHANGED <<clientVars, conn, tx, rxPartial, toRobot, fromRobot, turnVars,
                   restVars>>

\* Take self.sock and block in recv; a replaced socket only times out.
RxListens ==
    /\ \/ rx = "top" /\ ~stopEvent /\ conn # "closed" /\ rx' = "live"
       \/ rx = "replaced" /\ rx' = "top"
    /\ UNCHANGED <<clientVars, conn, tx, rxPartial, toRobot, fromRobot, turnVars,
                   restVars>>

\* _handle_robot_status on the next packet.  A truncated packet left in the
\* buffer swallows the first packet of the next connection.
RxHandles ==
    /\ rx = "live" /\ conn = "up" /\ fromRobot # <<>>
    /\ fromRobot' = Tail(fromRobot)
    /\ rxPartial' = FALSE
    /\ IF rxPartial
       THEN UNCHANGED <<robotStatus, pendingExecute, executeSent, awaitingIdle>>
       ELSE LET status == Head(fromRobot) IN
            /\ robotStatus' = status
            /\ pendingExecute' = (pendingExecute /\ status # "MOVING")
            /\ awaitingIdle' = IF status = "MOVING" THEN awaitingIdle \/ executeSent
                               ELSE awaitingIdle /\ ~executeSent
            /\ executeSent' = (executeSent /\ ~(status = "IDLE" /\ awaitingIdle))
    /\ UNCHANGED <<stopEvent, motionCancel, currentTarget, turnReady, conn, tx, rx,
                   toRobot, turnVars, restVars>>

\* recv fails: _safe_close closes self.sock, even one connected since.
RxFails ==
    /\ \/ rx = "closed" /\ UNCHANGED rxPartial
       \/ rx = "live" /\ conn = "broken" /\ rxPartial' \in {rxPartial, TRUE}
    /\ SafeClose
    /\ tx' = [tx EXCEPT !.sock = Closed(@)] /\ rx' = "top"
    /\ UNCHANGED <<stopEvent, motionCancel, robotStatus, currentTarget, turnReady,
                   turnVars, restVars>>

-----------------------------------------------------------------------------
(* _turn_tx_loop and _turn_rx_loop. *)

TurnTxExit ==
    /\ turnTx.pc \in {"top", "dial"} /\ stopEvent
    /\ turnTx' = TurnTxAt("off")
    /\ UNCHANGED <<clientVars, pathVars, turnConn, turnRx, turnSent,
                   restVars>>

TurnTxDials ==
    /\ turnTx.pc = "top" /\ ~stopEvent /\ turnConn = "closed"
    /\ turnTx' = TurnTxAt("dial")
    /\ UNCHANGED <<clientVars, pathVars, turnConn, turnRx, turnSent,
                   restVars>>

TurnTxInstalls ==
    /\ turnTx.pc = "dial"
    /\ InstallTurn
    /\ turnRx' = Replaced(turnRx)
    /\ turnTx' = TurnTxAt("top")
    /\ UNCHANGED <<clientVars, pathVars, turnSent, restVars>>

TurnTxDialFails ==
    /\ turnTx.pc = "dial"
    /\ DialRefused /\ SafeCloseTurn
    /\ turnRx' = Closed(turnRx)
    /\ UNCHANGED <<stopEvent, motionCancel, robotStatus, currentTarget,
                   pendingExecute, executeSent, awaitingIdle, pathVars, turnTx,
                   turnSent, starter, worker, robot>>

\* Read the angle of the current target and then the socket.
TurnTxReads ==
    /\ turnTx.pc = "top" /\ ~stopEvent /\ turnConn # "closed"
    /\ turnTx' = [pc |-> "send", sock |-> "live", wire |-> WireTurn[currentTarget]]
    /\ UNCHANGED <<clientVars, pathVars, turnConn, turnRx, turnSent,
                   restVars>>

TurnTxSends ==
    /\ turnTx.pc = "send" /\ turnTx.sock # "closed"
    /\ turnSent' = turnTx.wire
    /\ turnTx' = [turnTx EXCEPT !.pc = "mark"]
    /\ UNCHANGED <<clientVars, pathVars, turnConn, turnRx, restVars>>

TurnTxSendFails ==
    /\ turnTx.pc = "send"
    /\ turnTx.sock = "closed" \/ (turnTx.sock = "live" /\ turnConn = "broken")
    /\ SafeCloseTurn
    /\ turnTx' = TurnTxAt("top") /\ turnRx' = Closed(turnRx)
    /\ UNCHANGED <<stopEvent, motionCancel, robotStatus, currentTarget,
                   pendingExecute, executeSent, awaitingIdle, pathVars, turnSent,
                   restVars>>

\* _mark_turntable_ready_if_pending
TurnTxMarks ==
    /\ turnTx.pc = "mark"
    /\ turnReady' = (turnReady \/ (pendingExecute /\ AngleMatches(turnTx.wire)))
    /\ turnTx' = TurnTxAt("top")
    /\ UNCHANGED <<stopEvent, motionCancel, robotStatus, currentTarget,
                   pendingExecute, executeSent, awaitingIdle, pathVars, turnConn,
                   turnRx, turnSent, restVars>>

TurnRxExit ==
    /\ turnRx = "top" /\ stopEvent
    /\ turnRx' = "off"
    /\ UNCHANGED <<clientVars, pathVars, turnConn, turnTx, turnSent,
                   restVars>>

TurnRxListens ==
    /\ \/ turnRx = "top" /\ ~stopEvent /\ turnConn # "closed" /\ turnRx' = "live"
       \/ turnRx = "replaced" /\ turnRx' = "top"
    /\ UNCHANGED <<clientVars, pathVars, turnConn, turnTx, turnSent,
                   restVars>>

TurnRxFails ==
    /\ turnRx = "closed" \/ (turnRx = "live" /\ turnConn = "broken")
    /\ SafeCloseTurn
    /\ turnTx' = [turnTx EXCEPT !.sock = Closed(@)] /\ turnRx' = "top"
    /\ UNCHANGED <<stopEvent, motionCancel, robotStatus, currentTarget,
                   pendingExecute, executeSent, awaitingIdle, pathVars, turnSent,
                   restVars>>

-----------------------------------------------------------------------------
(* The worker: _trigger_and_wait_motion and jog_to_target.                 *)

\* Nothing of earlier motions can still happen or be heard: no dispatch is
\* pending or on its way, and every status on its way is the robot's present one.
Settled ==
    /\ ~pendingExecute /\ ~ExecuteInFlight
    /\ \A i \in DOMAIN fromRobot : fromRobot[i] = RobotReport
    /\ robot.moving => robotStatus # "IDLE"

\* A cycle begins or ends: clear_motion_cancel looks at nothing.  A dispatch that
\* was made after cancel_motion withdrew the one before is still pending then.
ClearMotionCancel ==
    /\ worker.pc \in {"idle", "done", "failed"} /\ ~stopEvent
    /\ motionCancel' = FALSE
    /\ worker' = [worker EXCEPT !.pc = "idle"]
    /\ unsettled' = ~Settled
    /\ UNCHANGED <<stopEvent, robotStatus, currentTarget, pendingExecute,
                   executeSent, awaitingIdle, turnReady, pathVars, turnVars,
                   starter, robot, moves, cancels, losses>>

WorkerBegins(t) ==
    /\ worker.pc \in {"idle", "done"} /\ ~AbortRequested /\ moves < MaxMoves
    /\ worker' = [pc |-> "ensure", target |-> t]
    /\ moves' = moves + 1
    /\ UNCHANGED <<clientVars, pathVars, turnVars, starter, robot, unsettled,
                   cancels, losses>>

\* is_idle, else wait_until_status(IDLE): the target is set in a later step.
WorkerSeesIdle ==
    /\ worker.pc = "ensure" /\ robotStatus = "IDLE"
    /\ worker' = [worker EXCEPT !.pc = "trigger"]
    /\ UNCHANGED <<clientVars, pathVars, turnVars, starter, robot, countVars>>

\* trigger_point_by_list_index, move_to_target
WorkerTriggers ==
    /\ worker.pc = "trigger"
    /\ currentTarget' = worker.target
    /\ pendingExecute' = TRUE
    /\ executeSent' = FALSE
    /\ awaitingIdle' = FALSE
    /\ turnReady' = FALSE
    /\ worker' = [worker EXCEPT !.pc = "waitMoving"]
    /\ UNCHANGED <<stopEvent, motionCancel, robotStatus, pathVars, turnVars,
                   starter, robot, countVars>>

\* Mutant: an IDLE status ends the wait although MOVING was never seen.
WorkerPollsIdleOnly ==
    /\ ~AbortRequested
    /\ worker.pc \in {"waitMoving", "waitIdle"} /\ robotStatus = "IDLE"
    /\ worker' = [worker EXCEPT !.pc = "done"]
    /\ UNCHANGED <<clientVars, pathVars, turnVars, starter, robot, countVars>>

\* wait_motion_done_timed: one poll of wait_until_status that matches.
WorkerPolls ==
    /\ ~AbortRequested
    /\ \/ /\ worker.pc = "waitMoving" /\ robotStatus = "MOVING"
          /\ worker' = [worker EXCEPT !.pc = "waitIdle"]
       \/ /\ worker.pc = "waitIdle" /\ robotStatus = "IDLE"
          /\ worker' = [worker EXCEPT !.pc = "done"]
    /\ UNCHANGED <<clientVars, pathVars, turnVars, starter, robot, countVars>>

WorkerAborts ==
    /\ worker.pc \in {"ensure", "waitMoving", "waitIdle"} /\ AbortRequested
    /\ worker' = [worker EXCEPT !.pc = "failed"]
    /\ UNCHANGED <<clientVars, pathVars, turnVars, starter, robot, countVars>>

-----------------------------------------------------------------------------
(* Other threads: cancel_motion and stop. *)

CancelMotion ==
    /\ cancels < MaxCancels /\ ~motionCancel
    /\ pendingExecute' = FALSE
    /\ turnReady' = FALSE
    /\ executeSent' = FALSE
    /\ awaitingIdle' = FALSE
    /\ motionCancel' = TRUE
    /\ cancels' = cancels + 1
    /\ UNCHANGED <<stopEvent, robotStatus, currentTarget, pathVars, turnVars,
                   starter, worker, robot, unsettled, moves, losses>>

Stop ==
    /\ ~stopEvent
    /\ stopEvent' = TRUE /\ motionCancel' = TRUE
    /\ SafeClose /\ SafeCloseTurn
    /\ tx' = [tx EXCEPT !.sock = Closed(@)] /\ rx' = Closed(rx)
    /\ turnTx' = [turnTx EXCEPT !.sock = Closed(@)] /\ turnRx' = Closed(turnRx)
    /\ UNCHANGED <<robotStatus, currentTarget, rxPartial, turnSent, restVars>>

-----------------------------------------------------------------------------
(* External: the robot controller and the network.  Execute is a level: a  *)
(* controller that stands still moves to the pose of any packet that has   *)
(* it, the present pose included; a moving one ignores it.                 *)

RobotReceives ==
    /\ toRobot # <<>> /\ Len(fromRobot) < MaxChan
    /\ toRobot' = Tail(toRobot)
    /\ IF robot.moving
       THEN UNCHANGED <<robot, fromRobot>>
       ELSE /\ robot' = [robot EXCEPT !.moving = TRUE, !.goal = Head(toRobot)]
            /\ fromRobot' = Append(fromRobot, "MOVING")
    /\ UNCHANGED <<clientVars, conn, tx, rx, rxPartial, turnVars, starter, worker,
                   countVars>>

\* Unless LateExecute, a motion lasts longer than a packet takes to go there
\* and a status to come back.
RobotFinishes ==
    /\ robot.moving /\ Len(fromRobot) < MaxChan
    /\ LateExecute \/ conn # "up" \/ (~ExecuteInFlight /\ robotStatus = "MOVING")
    /\ robot' = [robot EXCEPT !.moving = FALSE, !.pose = robot.goal]
    /\ fromRobot' = IF conn = "up" THEN Append(fromRobot, "IDLE") ELSE fromRobot
    /\ UNCHANGED <<clientVars, conn, tx, rx, rxPartial, toRobot, turnVars, starter,
                   worker, countVars>>

\* The controller repeats its status.
RobotReports ==
    /\ conn = "up" /\ fromRobot = <<>>
    /\ fromRobot' = <<RobotReport>>
    /\ UNCHANGED <<clientVars, conn, tx, rx, rxPartial, toRobot, turnVars,
                   restVars>>

LosePath ==
    /\ conn = "up" /\ losses < MaxLosses
    /\ conn' = "broken"
    /\ toRobot' = <<>> /\ fromRobot' = <<>>
    /\ losses' = losses + 1
    /\ UNCHANGED <<clientVars, tx, rx, rxPartial, turnVars, starter, worker, robot,
                   unsettled, moves, cancels>>

LoseTurn ==
    /\ turnConn = "up" /\ losses < MaxLosses
    /\ turnConn' = "broken"
    /\ losses' = losses + 1
    /\ UNCHANGED <<clientVars, pathVars, turnTx, turnRx, turnSent,
                   starter, worker, robot, unsettled, moves, cancels>>

-----------------------------------------------------------------------------
\* After __init__ and the assignment of the first target by connect_robot.
Init ==
    /\ conn = "closed" /\ turnConn = "closed"
    /\ stopEvent = FALSE /\ motionCancel = FALSE
    /\ robotStatus = "None"
    /\ currentTarget \in Targets
    /\ pendingExecute = FALSE /\ executeSent = FALSE
    /\ awaitingIdle = FALSE /\ turnReady = FALSE
    /\ tx = TxAt("off") /\ rx = "off" /\ rxPartial = FALSE
    /\ turnTx = TurnTxAt("off") /\ turnRx = "off"
    /\ starter = "off"
    /\ worker = [pc |-> "idle", target |-> currentTarget]
    /\ toRobot = <<>> /\ fromRobot = <<>>
    /\ \E t \in Targets : robot = [moving |-> FALSE, pose |-> t, goal |-> t]
    /\ turnSent = NoWire
    /\ unsettled = FALSE /\ moves = 0 /\ cancels = 0 /\ losses = 0

Starter == \/ StartPath \/ StarterInstalls \/ StarterGivesUp
           \/ StartTurn \/ StarterInstallsTurn \/ StarterGivesUpTurn
Tx      == \/ TxExit \/ TxDials \/ TxInstalls \/ TxDialFails \/ TxBuilds
           \/ TxSends \/ TxSendFails \/ TxMarks
Rx      == RxExit \/ RxListens \/ RxHandles \/ RxFails
TurnTx  == \/ TurnTxExit \/ TurnTxDials \/ TurnTxInstalls \/ TurnTxDialFails
           \/ TurnTxReads \/ TurnTxSends \/ TurnTxSendFails \/ TurnTxMarks
TurnRx  == TurnRxExit \/ TurnRxListens \/ TurnRxFails
Worker  == \/ ClearMotionCancel \/ \E t \in Targets : WorkerBegins(t)
           \/ WorkerSeesIdle \/ WorkerTriggers \/ WorkerPolls \/ WorkerAborts
Others  == CancelMotion \/ Stop
Robot   == RobotReceives \/ RobotFinishes \/ RobotReports
Network == LosePath \/ LoseTurn

Next == Starter \/ Tx \/ Rx \/ TurnTx \/ TurnRx \/ Worker \/ Others \/ Robot \/ Network

Spec == Init /\ [][Next]_vars

\* Every thread keeps running, the controller reads, moves and answers, and a
\* connection that is retried is made in the end.
\* No cancel, stop, loss, repeated status or new motion is owed to anybody.
Fairness ==
    /\ WF_vars(StarterInstalls \/ StarterInstallsTurn)
    /\ WF_vars(TxExit \/ TxDials \/ TxInstalls \/ TxBuilds \/ TxSends
                  \/ TxSendFails \/ TxMarks)
    /\ WF_vars(TurnTxExit \/ TurnTxDials \/ TurnTxInstalls \/ TurnTxReads
                  \/ TurnTxSends \/ TurnTxSendFails \/ TurnTxMarks)
    /\ WF_vars(Rx) /\ WF_vars(TurnRx)
    /\ WF_vars(WorkerSeesIdle \/ WorkerTriggers \/ WorkerPolls \/ WorkerAborts)
    /\ WF_vars(RobotReceives) /\ WF_vars(RobotFinishes)

FairSpec == Spec /\ Fairness

-----------------------------------------------------------------------------
(* Properties. *)

\* The permission to execute always belongs to the present target: while
\* _turntable_ready_for_execute holds, the last angle handed to the turntable
\* is the one of current_target, whatever order the two senders, the worker
\* and the closing threads run in.
TurnAllowsExecute == turnReady => turnSent = WireTurn[currentTarget]

\* _tx_loop builds an Execute=1 packet only after the angle of that very pose
\* was the last one sent to the turntable.
ExecuteAfterTurn ==
    [][tx.execute = NoTarget /\ tx'.execute # NoTarget
         => turnSent = WireTurn[tx'.execute]]_vars

\* When wait_motion_done returns True the robot stands at the pose that was
\* asked for (with a controller whose motions outlast a round trip), if the cycle
\* did not begin before the last one had settled.
MotionDone == worker.pc = "done" /\ ~unsettled
                => robot.pose = worker.target /\ ~robot.moving

\* The robot leaves its pose only for a pose whose turntable angle is the last
\* one commanded (under the same assumptions).
MovesWithTable ==
    [][~robot.moving /\ robot'.moving /\ robot'.goal # robot.pose /\ ~unsettled
         => turnSent = WireTurn[robot'.goal]]_vars

\* A worker in jog_to_target or _trigger_and_wait_motion comes back after
\* cancel_motion or stop, whatever the robot and the network do.
AbortEndsMotion ==
    (stopEvent \/ motionCancel) /\ worker.pc \in Waiting
      ~> worker.pc \in {"failed", "idle"}

\* A dispatch does not hang between the two senders: it is taken up by the
\* robot or withdrawn by a cancel, a stop or a lost connection.
DispatchResolves ==
    pendingExecute /\ tx.pc # "off" /\ turnTx.pc # "off"
      ~> (~pendingExecute \/ stopEvent \/ turnConn = "closed")
=============================================================================
